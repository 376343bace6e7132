------------------------ MODULE TransportTap_proofs ------------------------
(***************************************************************************)
(* Proofs about the tap, for any number of streams and messages: a stream  *)
(* leaves at most one pair behind, the pair is of one gRPC call, Close is  *)
(* the end of recording, and a Close without error means that what the     *)
(* client has read is recorded.                                            *)
(*                                                                         *)
(* The tracker follows a stream from its request headers on, and forgets   *)
(* it when it saves the pair, so the first argument is that request        *)
(* headers are handled once: HeadersOnce says where they are (IInv).  The  *)
(* second one follows the messages of a stream from the socket through the *)
(* mirror write and the decoder's queue to the events noted (CallInv).     *)
(* The third follows the trailers the same way (AnswerInv, LeadInv,        *)
(* FollowInv): those that were read are in the mirror write, in the queue, *)
(* or handled, and then the pair was saved with all messages before them.  *)
(***************************************************************************)
EXTENDS TransportTap, SequenceLemmas

-----------------------------------------------------------------------------
(***************************************************************************)
(* The inductive invariant.                                                *)
(***************************************************************************)
RecFields == {"service", "events", "sends", "recvCount", "sawHalfClose",
              "halfCloseAfterFirstSend", "compressed"}

\* A frame in a mirror write and an event in a decoder's queue.
FrameOK(f) ==
    \/ f.kind = "preface"
    \/ f.kind \in {"headers", "reset"} /\ f.id \in Ids
    \/ f.kind = "data" /\ f.id \in Ids /\ IsSeq(f.msgs)

EventOK(ev) == ev.kind \in {"headers", "reset", "message"} /\ ev.id \in Ids

Shape ==
    /\ DOMAIN sent = Ids /\ \A id \in Ids : IsSeq(sent[id])
    /\ DOMAIN mirror = Directions
    /\ \A d \in Directions :
          mirror[d] = << >> \/ \E f : FrameOK(f) /\ mirror[d] = <<f>>
    /\ DOMAIN dec = Directions
    /\ \A d \in Directions :
          /\ DOMAIN dec[d] = {"at", "queued"}
          /\ IsSeq(dec[d].queued)
          /\ \A i \in DOMAIN dec[d].queued : EventOK(dec[d].queued[i])
          /\ dec[d].at \in {"preface", "read", "gone"}
          /\ dec[d].at = "preface" => dec[d].queued = << >>
          /\ mirror[d] # << >> /\ mirror[d][1].kind = "preface" =>
                dec[d].at # "read"
    /\ DOMAIN streams = Ids
    /\ \A id \in Ids : DOMAIN streams[id] = RecFields
    /\ IsSeq(saved)
    /\ \A i \in DOMAIN saved : saved[i].id \in Ids

\* The request headers of stream id are in a Write, or in the decoder.
InMirror(id) ==
    /\ mirror["up"] # << >>
    /\ mirror["up"][1].kind = "headers" /\ mirror["up"][1].id = id

InDecoder(id) ==
    \E i \in DOMAIN dec["up"].queued :
        dec["up"].queued[i].kind = "headers" /\ dec["up"].queued[i].id = id

IsSaved(id) == \E i \in DOMAIN saved : saved[i].id = id

\* The request headers of a stream are in one place at a time, and handled
\* when the stream is followed or saved; a saved stream is not followed.
HeadersOnce ==
    /\ \A i \in DOMAIN dec["up"].queued :
          dec["up"].queued[i].kind = "headers" => Len(dec["up"].queued) = 1
    /\ \A id \in Ids :
          /\ InMirror(id) => sent[id] # << >> /\ ~InDecoder(id)
          /\ InDecoder(id) => sent[id] # << >>
          /\ streams[id].service \/ IsSaved(id) =>
                sent[id] # << >> /\ ~InMirror(id) /\ ~InDecoder(id)
          /\ IsSaved(id) => ~streams[id].service

\* When Close is done both decoders are gone, and one that is gone has no
\* event left.
Drained ==
    /\ \A d \in Directions : dec[d].at = "gone" => dec[d].queued = << >>
    /\ closer = "done" => \A d \in Directions : dec[d].at = "gone"

IInv == Shape /\ HeadersOnce /\ OnePairPerStream /\ Drained

-----------------------------------------------------------------------------
(***************************************************************************)
(* Frames and events.                                                      *)
(***************************************************************************)

\* The frames a client sends on a stream are well formed and carry its id,
\* and only the first one has headers.
LEMMA ClientFramesOK ==
    ASSUME NEW id \in Ids, NEW f \in ClientFrames(id)
    PROVE  /\ f.id = id /\ FrameOK(f) /\ f.kind # "preface"
           /\ f.kind = "headers" => sent[id] = << >>
  <1>1. ASSUME NEW msgs \in NextMessages("up", id, sent[id], MaxSends)
        PROVE  IsSeq(msgs)
    <2>1. PICK k \in 1 .. 2 :
              msgs = [i \in 1 .. k |->
                         <<"up", id, Len(MessagesIn(sent[id])) + i>>]
      BY <1>1 DEF NextMessages
    <2>2. k \in Nat /\ msgs = [i \in 1 .. k |-> msgs[i]]
      BY <2>1
    <2>3. QED
      BY <2>2, FunctionIsSeq
  <1>2. IsSeq(<< >>)
    BY ShortSeqs
  <1>3. CASE sent[id] = << >>
    <2>1. \/ \E end \in BOOLEAN :
                f = Headers(id, "grpc", "identity", "none", end)
          \/ \E encoding \in Encodings :
                f = Headers(id, "grpc", encoding, "none", FALSE)
          \/ \E path \in Paths :
                f = Headers(id, path, "identity", "none", FALSE)
      BY <1>3 DEF ClientFrames
    <2>2. QED
      BY <1>3, <2>1 DEF Headers, FrameOK
  <1>4. CASE sent[id] # << >>
    <2> DEFINE next == NextMessages("up", id, sent[id], MaxSends)
    <2>1. \/ \E msgs \in next : f = Data(id, msgs, FALSE)
          \/ \E msgs \in {<< >>} \cup next : f = Data(id, msgs, TRUE)
          \/ f = Reset(id)
      BY <1>4 DEF ClientFrames, Resets
    <2>2. QED
      BY <1>1, <1>2, <2>1 DEF Data, Reset, FrameOK
  <1>5. QED
    BY <1>3, <1>4

\* The frames a server sends on a stream are well formed and carry its id.
LEMMA ServerFramesOK ==
    ASSUME NEW id \in Ids, NEW f \in ServerFrames(id)
    PROVE  f.id = id /\ FrameOK(f)
  <1>1. ASSUME NEW msgs \in NextMessages("down", id, replied[id], MaxRecvs)
        PROVE  IsSeq(msgs)
    <2>1. PICK k \in 1 .. 2 :
              msgs = [i \in 1 .. k |->
                         <<"down", id, Len(MessagesIn(replied[id])) + i>>]
      BY <1>1 DEF NextMessages
    <2>2. k \in Nat /\ msgs = [i \in 1 .. k |-> msgs[i]]
      BY <2>1
    <2>3. QED
      BY <2>2, FunctionIsSeq
  <1>2. \/ \E encoding, status, end :
              f = Headers(id, "none", encoding, status, end)
        \/ f = Reset(id)
        \/ \E msgs \in NextMessages("down", id, replied[id], MaxRecvs) :
              f = Data(id, msgs, FALSE)
    BY DEF ServerFrames, Resets
  <1>3. QED
    BY <1>1, <1>2 DEF Headers, Data, Reset, FrameOK

\* A frame becomes well-formed events with its id; headers become one.
LEMMA WireEventsOK ==
    ASSUME NEW f, FrameOK(f), f.kind # "preface"
    PROVE  /\ IsSeq(WireEvents(f))
           /\ \A i \in DOMAIN WireEvents(f) :
                 /\ EventOK(WireEvents(f)[i])
                 /\ WireEvents(f)[i].kind = "headers" =>
                       /\ Len(WireEvents(f)) = 1
                       /\ f.kind = "headers" /\ f.id = WireEvents(f)[i].id
  <1>1. CASE f.kind # "data"
    <2>1. WireEvents(f) = <<f>>
      BY <1>1 DEF WireEvents
    <2>2. EventOK(f)
      BY <1>1 DEF FrameOK, EventOK
    <2>3. QED
      BY <2>1, <2>2, ShortSeqs, Zenon
  <1>2. CASE f.kind = "data"
    <2>1. PICK S : f.msgs \in Seq(S)
      BY <1>2 DEF FrameOK, IsSeq
    <2>2. f.id \in Ids
      BY <1>2 DEF FrameOK
    <2>3. CASE f.msgs = << >>
      <3>1. CASE f.end
        <4> DEFINE e == [id |-> f.id, kind |-> "message", message |-> << >>,
                         end |-> TRUE]
        <4>1. WireEvents(f) = <<e>>
          BY <1>2, <2>3, <3>1 DEF WireEvents
        <4>2. EventOK(e) /\ e.kind # "headers"
          BY <2>2 DEF EventOK
        <4> HIDE DEF e
        <4>3. QED
          BY <4>1, <4>2, ShortSeqs, Zenon
      <3>2. CASE ~f.end
        <4>1. WireEvents(f) = << >>
          BY <1>2, <2>3, <3>2 DEF WireEvents
        <4>2. QED
          BY <4>1, ShortSeqs
      <3>3. QED
        BY <3>1, <3>2
    <2>4. CASE f.msgs # << >>
      <3> DEFINE e(i) == [id |-> f.id, kind |-> "message",
                          message |-> <<f.msgs[i]>>,
                          end |-> f.end /\ i = Len(f.msgs)]
                 evs == [i \in DOMAIN f.msgs |-> e(i)]
      <3>1. WireEvents(f) = evs
        BY <1>2, <2>4 DEF WireEvents
      <3>2. \A i : EventOK(e(i)) /\ e(i).kind # "headers"
        BY <2>2 DEF EventOK
      <3> HIDE DEF e
      <3>3. evs \in Seq({e(i) : i \in DOMAIN f.msgs})
        BY <2>1
      <3>4. IsSeq(evs)
        BY <3>3 DEF IsSeq
      <3>5. \A i \in DOMAIN evs : evs[i] = e(i)
        OBVIOUS
      <3> HIDE DEF evs
      <3>6. QED
        BY <3>1, <3>2, <3>4, <3>5
    <2>5. QED
      BY <2>3, <2>4
  <1>3. QED
    BY <1>1, <1>2

-----------------------------------------------------------------------------
(***************************************************************************)
(* One event in the tracker.                                               *)
(***************************************************************************)

\* What handling an event of stream id can do to the tracker: note it, begin
\* to follow the stream, or finish it.
Untouched(id) ==
    /\ DOMAIN streams' = Ids
    /\ \A j \in Ids : DOMAIN streams'[j] = RecFields
    /\ \A j \in Ids \ {id} : streams'[j] = streams[j]

Notes(id) ==
    /\ Untouched(id) /\ saved' = saved /\ streams'[id].service = streams[id].service

Routes(id) == Untouched(id) /\ saved' = saved

Finishes(id) ==
    /\ Untouched(id) /\ ~streams'[id].service
    /\ \/ saved' = saved
       \/ streams[id].service /\ \E p : p.id = id /\ saved' = Append(saved, p)

\* Noting the half-close does not change whether a stream is followed.
LEMMA NoteHalfCloseKeeps ==
    ASSUME NEW s, DOMAIN s = RecFields
    PROVE  /\ DOMAIN NoteHalfClose(s) = RecFields
           /\ NoteHalfClose(s).service = s.service
  BY DEF NoteHalfClose, RecFields

\* Storing a stream back touches no other.
LEMMA NotedKeeps ==
    ASSUME Shape, NEW id \in Ids, NEW s, DOMAIN s = RecFields, Noted(id, s)
    PROVE  /\ Routes(id)
           /\ s.service = streams[id].service => Notes(id)
  BY DEF Shape, Noted, Routes, Notes, Untouched

\* Finishing a stream ends its being followed, and saves it only if it was.
LEMMA FinishFinishes ==
    ASSUME Shape, NEW id \in Ids, NEW failed,
           Finish(id, streams[id], failed)
    PROVE  Finishes(id)
  <1> DEFINE s == streams[id]
             pair == PairOfEvents(s, failed)
  <1>1. DOMAIN NewRecStream = RecFields /\ ~NewRecStream.service
    BY DEF NewRecStream, RecFields
  <1>2. Untouched(id) /\ ~streams'[id].service
    <2>1. streams' = [streams EXCEPT ![id] = NewRecStream]
      BY DEF Finish
    <2>2. QED
      BY <1>1, <2>1 DEF Shape, Untouched
  <1>3. \/ saved' = saved
        \/ s.service /\ \E typ, n : saved' = Append(saved,
              [id |-> id, typ |-> typ, n |-> n, pair |-> pair])
    BY Zenon DEF Finish
  <1>4. QED
    BY <1>2, <1>3 DEF Finishes

\* Every event is noted, or it is request headers, or it finishes a stream.
LEMMA HandleEffect ==
    ASSUME Shape, NEW d \in Directions, dec[d].queued # << >>, Handle(d)
    PROVE  LET ev == Head(dec[d].queued) IN
           /\ EventOK(ev)
           /\ \/ Notes(ev.id)
              \/ Finishes(ev.id)
              \/ d = "up" /\ ev.kind = "headers" /\ Routes(ev.id)
  <1> DEFINE ev == Head(dec[d].queued)
             s == streams[ev.id]
  <1>1. EventOK(ev)
    BY TailFacts DEF Shape
  <1>2. ev.id \in Ids /\ DOMAIN s = RecFields
    BY <1>1 DEF Shape, EventOK
  <1> HIDE DEF ev
  <1>3. CASE ev.kind = "reset"
    <2>1. Finish(ev.id, s, TRUE)
      BY <1>3 DEF Handle, ev
    <2>2. QED
      BY <1>1, <1>2, <2>1, FinishFinishes DEF ev
  <1>4. CASE ev.kind = "headers" /\ d = "up"
    <2>1. RequestHeaders(ev, s)
      BY <1>4 DEF Handle, ev
    <2> DEFINE routed == [s EXCEPT !.service = TRUE]
    <2>2. DOMAIN routed = RecFields
      BY <1>2
    <2>3. \E t : DOMAIN t = RecFields /\ Noted(ev.id, t)
      <3>1. CASE ev.path = "other"
        BY <1>2, <2>1, <3>1 DEF RequestHeaders
      <3>2. CASE ev.path # "other" /\ Compressed(ev)
        <4>1. Noted(ev.id, [s EXCEPT !.service = TRUE, !.compressed = TRUE])
          BY <2>1, <3>2 DEF RequestHeaders
        <4>2. DOMAIN [s EXCEPT !.service = TRUE, !.compressed = TRUE]
                 = RecFields
          BY <1>2
        <4>3. QED
          BY <4>1, <4>2
      <3>3. CASE ev.path # "other" /\ ~Compressed(ev)
        <4>1. \/ Noted(ev.id, NoteHalfClose(routed))
              \/ Noted(ev.id, routed)
          BY <2>1, <3>3 DEF RequestHeaders
        <4> HIDE DEF routed
        <4>2. QED
          BY <2>2, <4>1, NoteHalfCloseKeeps
      <3>4. QED
        BY <3>1, <3>2, <3>3
    <2>4. QED
      BY <1>1, <1>2, <1>4, <2>3, NotedKeeps DEF ev
  <1>5. CASE ev.kind = "headers" /\ d # "up"
    <2>1. ResponseHeaders(ev, s)
      BY <1>5 DEF Handle, ev
    <2>2. Noted(ev.id, s) \/ Finish(ev.id, s, ev.status # "OK")
      BY <2>1 DEF ResponseHeaders
    <2>3. Notes(ev.id) \/ Finishes(ev.id)
      BY <1>2, <2>2, NotedKeeps, FinishFinishes
    <2>4. QED
      BY <1>1, <2>3 DEF ev
  <1>6. CASE ev.kind = "message" /\ d = "up"
    <2>1. ClientMessage(ev, s)
      BY <1>6 DEF Handle, ev
    <2> DEFINE with == IF ev.message = << >> THEN s
                       ELSE [s EXCEPT !.sends = @ \o ev.message,
                                      !.events = Append(@, <<"send",
                                                    ev.message[1]>>)]
    <2>2. DOMAIN with = RecFields /\ with.service = s.service
      BY <1>2 DEF RecFields
    <2>3. \/ Noted(ev.id, s) \/ Noted(ev.id, NoteHalfClose(with))
          \/ Noted(ev.id, with)
      BY <2>1 DEF ClientMessage
    <2> HIDE DEF with
    <2>4. \E t : /\ DOMAIN t = RecFields /\ t.service = s.service
                 /\ Noted(ev.id, t)
      BY <1>2, <2>2, <2>3, NoteHalfCloseKeeps
    <2>5. Notes(ev.id)
      BY <1>2, <2>4, NotedKeeps
    <2>6. QED
      BY <1>1, <2>5 DEF ev
  <1>7. CASE ev.kind = "message" /\ d # "up"
    <2>1. ServerMessage(ev, s)
      BY <1>7 DEF Handle, ev
    <2> DEFINE with == [s EXCEPT !.recvCount = @ + 1,
                                 !.events = Append(@, <<"recv",
                                               ev.message[1]>>)]
    <2>2. DOMAIN with = RecFields /\ with.service = s.service
      BY <1>2 DEF RecFields
    <2>3. Noted(ev.id, s) \/ Noted(ev.id, with)
      BY <2>1 DEF ServerMessage
    <2> HIDE DEF with
    <2>4. Notes(ev.id)
      BY <1>2, <2>2, <2>3, NotedKeeps
    <2>5. QED
      BY <1>1, <2>4 DEF ev
  <1>8. QED
    BY <1>1, <1>3, <1>4, <1>5, <1>6, <1>7 DEF EventOK

-----------------------------------------------------------------------------
(***************************************************************************)
(* The invariant is inductive.                                             *)
(***************************************************************************)

\* Nothing has been sent, mirrored, decoded or saved at first.
LEMMA InitIInv == Init => IInv
  <1> SUFFICES ASSUME Init PROVE IInv
    OBVIOUS
  <1>1. DOMAIN NewRecStream = RecFields /\ ~NewRecStream.service
    BY DEF NewRecStream, RecFields
  <1>2. Shape
    BY <1>1, ShortSeqs DEF Init, Shape, Directions
  <1>3. \A id \in Ids : ~InMirror(id) /\ ~InDecoder(id) /\ ~IsSaved(id)
    BY ShortSeqs DEF Init, InMirror, InDecoder, IsSaved, Directions
  <1>4. HeadersOnce
    BY <1>1, <1>3, ShortSeqs DEF Init, HeadersOnce, Directions
  <1>5. OnePairPerStream /\ Drained
    BY ShortSeqs DEF Init, OnePairPerStream, Drained, Directions
  <1>6. QED
    BY <1>2, <1>4, <1>5 DEF IInv

\* What a step of Handle does to the decoder: the event leaves the queue, or
\* the decoder stops; no event is added.
LEMMA HandleDecoder ==
    ASSUME IInv, NEW d \in Directions, dec[d].queued # << >>, Handle(d)
    PROVE  /\ DOMAIN dec' = Directions
           /\ \A o \in Directions \ {d} : dec'[o] = dec[o]
           /\ DOMAIN dec'[d] = {"at", "queued"}
           /\ IsSeq(dec'[d].queued)
           /\ dec'[d].at \in {"read", "gone"}
           /\ dec'[d].at = "gone" => dec'[d].queued = << >>
           /\ \A i \in DOMAIN dec'[d].queued :
                 /\ i + 1 \in DOMAIN dec[d].queued
                 /\ dec'[d].queued[i] = dec[d].queued[i + 1]
           /\ Len(dec[d].queued) = 1 => dec'[d].queued = << >>
  <1> DEFINE q == dec[d].queued
  <1>1. IsSeq(q) /\ dec[d].at = "read" /\ DOMAIN dec[d] = {"at", "queued"}
        /\ DOMAIN dec = Directions
    BY DEF IInv, Shape, Drained
  <1>2. \/ dec' = [dec EXCEPT ![d] = [at |-> "gone", queued |-> << >>]]
        \/ dec' = [dec EXCEPT ![d].queued = Tail(@)]
    BY Zenon DEF Handle
  <1>3. CASE dec' = [dec EXCEPT ![d] = [at |-> "gone", queued |-> << >>]]
    BY <1>1, <1>3, ShortSeqs
  <1>4. CASE dec' = [dec EXCEPT ![d].queued = Tail(@)]
    <2>1. /\ DOMAIN dec' = Directions
          /\ \A o \in Directions \ {d} : dec'[o] = dec[o]
          /\ DOMAIN dec'[d] = {"at", "queued"}
          /\ dec'[d].queued = Tail(q) /\ dec'[d].at = "read"
      BY <1>1, <1>4
    <2>2. QED
      BY <1>1, <2>1, TailFacts
  <1>5. QED
    BY <1>2, <1>3, <1>4

\* Handling an event preserves the invariant.
LEMMA HandleKeeps ==
    ASSUME IInv, NEW d \in Directions, Handle(d)
    PROVE  IInv'
  <1> DEFINE q == dec[d].queued
             ev == Head(q)
             id == ev.id
  <1>1. /\ q # << >> /\ sent' = sent /\ mirror' = mirror /\ closer' = closer
    BY DEF Handle, liveVars
  <1>2. /\ EventOK(ev) /\ id \in Ids
        /\ \/ Notes(id)
           \/ Finishes(id)
           \/ d = "up" /\ ev.kind = "headers" /\ Routes(id)
    BY <1>1, HandleEffect DEF IInv, EventOK
  <1>3. Untouched(id)
    BY <1>2 DEF Notes, Finishes, Routes
  <1>4. IsSeq(saved) /\ DOMAIN saved = 1 .. Len(saved) /\ Len(saved) \in Nat
    BY AppendFacts DEF IInv, Shape
  <1>5. \/ saved' = saved
        \/ /\ Finishes(id) /\ streams[id].service /\ IsSeq(saved')
           /\ DOMAIN saved' = 1 .. Len(saved) + 1
           /\ \A i \in 1 .. Len(saved) : saved'[i] = saved[i]
           /\ saved'[Len(saved) + 1].id = id
    <2>1. \/ saved' = saved
          \/ /\ Finishes(id) /\ streams[id].service
             /\ \E p : p.id = id /\ saved' = Append(saved, p)
      BY <1>2 DEF Notes, Finishes, Routes
    <2>2. ASSUME NEW p, p.id = id, saved' = Append(saved, p)
          PROVE  /\ IsSeq(saved')
                 /\ DOMAIN saved' = 1 .. Len(saved) + 1
                 /\ \A i \in 1 .. Len(saved) : saved'[i] = saved[i]
                 /\ saved'[Len(saved) + 1].id = id
      BY <1>4, <2>2, AppendFacts
    <2> HIDE DEF id
    <2>3. QED
      BY <2>1, <2>2
  <1>6. /\ \A o \in Directions : \A i \in DOMAIN dec'[o].queued :
              \E j \in DOMAIN dec[o].queued :
                  dec'[o].queued[i] = dec[o].queued[j]
        /\ d = "up" /\ ev.kind = "headers" => dec'["up"].queued = << >>
        /\ \A i \in DOMAIN dec'["up"].queued :
              dec'["up"].queued[i].kind = "headers" =>
                  Len(dec'["up"].queued) = 1
    <2>1. /\ \A i \in DOMAIN dec["up"].queued :
                dec["up"].queued[i].kind = "headers" =>
                    Len(dec["up"].queued) = 1
          /\ "up" \in Directions
      BY DEF IInv, HeadersOnce, Directions
    <2>2. 1 \in DOMAIN q /\ ev = q[1]
      BY <1>1, TailFacts DEF IInv, Shape
    <2>3. DOMAIN << >> = {}
      BY ShortSeqs
    <2> HIDE DEF ev
    <2>4. QED
      BY <1>1, <2>1, <2>2, <2>3, HandleDecoder
  <1>7. Shape'
    <2>1. \A o \in Directions :
             /\ DOMAIN dec'[o] = {"at", "queued"}
             /\ IsSeq(dec'[o].queued)
             /\ \A i \in DOMAIN dec'[o].queued : EventOK(dec'[o].queued[i])
             /\ dec'[o].at \in {"preface", "read", "gone"}
             /\ dec'[o].at = "preface" => dec'[o].queued = << >>
             /\ dec'[o].at = "read" => dec[o].at = "read"
      <3>1. dec[d].at = "read"
        BY <1>1 DEF IInv, Shape, Drained
      <3>2. QED
        BY <1>1, <1>6, <3>1, HandleDecoder DEF IInv, Shape
    <2>2. DOMAIN dec' = Directions
      BY <1>1, HandleDecoder
    <2>3. IsSeq(saved') /\ \A i \in DOMAIN saved' : saved'[i].id \in Ids
      BY <1>2, <1>4, <1>5 DEF IInv, Shape
    <2>4. QED
      BY <1>1, <1>3, <2>1, <2>2, <2>3 DEF IInv, Shape, Untouched
  <1>8. \A j \in Ids :
           /\ InDecoder(j)' => InDecoder(j)
           /\ InMirror(j)' <=> InMirror(j)
           /\ j # id =>
                  /\ streams'[j].service <=> streams[j].service
                  /\ IsSaved(j)' => IsSaved(j)
           /\ IsSaved(j)' =>
                 IsSaved(j) \/ (j = id /\ Finishes(id) /\ streams[id].service)
    <2>1. \A j \in Ids : InDecoder(j)' => InDecoder(j)
      BY <1>6 DEF InDecoder, Directions
    <2>2. \A j \in Ids : InMirror(j)' <=> InMirror(j)
      BY <1>1 DEF InMirror
    <2>3. \A j \in Ids \ {id} : streams'[j].service <=> streams[j].service
      BY <1>3 DEF Untouched
    <2>4. \A j \in Ids : IsSaved(j)' =>
             IsSaved(j) \/ (j = id /\ Finishes(id) /\ streams[id].service)
      BY <1>4, <1>5 DEF IsSaved
    <2>5. QED
      BY <2>1, <2>2, <2>3, <2>4
  <1>9. d = "up" /\ ev.kind = "headers" =>
           InDecoder(id) /\ \A j \in Ids : ~InDecoder(j)'
    <2>1. 1 \in DOMAIN q /\ ev = q[1]
      BY <1>1, TailFacts DEF IInv, Shape
    <2>2. d = "up" /\ ev.kind = "headers" => InDecoder(id)
      BY <2>1 DEF InDecoder
    <2>3. dec'["up"].queued = << >> => \A j \in Ids : ~InDecoder(j)'
      BY ShortSeqs DEF InDecoder
    <2>4. QED
      BY <1>6, <2>2, <2>3
  <1>10. HeadersOnce'
    <2> HIDE DEF ev
    <2>1. ASSUME NEW j \in Ids
          PROVE  /\ InMirror(j)' => sent'[j] # << >> /\ ~InDecoder(j)'
                 /\ InDecoder(j)' => sent'[j] # << >>
                 /\ streams'[j].service \/ IsSaved(j)' =>
                       sent'[j] # << >> /\ ~InMirror(j)' /\ ~InDecoder(j)'
                 /\ IsSaved(j)' => ~streams'[j].service
      <3>1. /\ InMirror(j) => sent[j] # << >> /\ ~InDecoder(j)
            /\ InDecoder(j) => sent[j] # << >>
            /\ streams[j].service \/ IsSaved(j) =>
                  sent[j] # << >> /\ ~InMirror(j) /\ ~InDecoder(j)
            /\ IsSaved(j) => ~streams[j].service
        BY DEF IInv, HeadersOnce
      <3>2. CASE j # id
        BY <1>1, <1>8, <3>1, <3>2
      <3>3. CASE j = id /\ Notes(id)
        <4>1. /\ streams'[j].service <=> streams[j].service
              /\ IsSaved(j)' <=> IsSaved(j)
          BY <3>3 DEF Notes, IsSaved
        <4>2. QED
          BY <1>1, <1>8, <3>1, <4>1
      <3>4. CASE j = id /\ Finishes(id)
        <4>1. ~streams'[j].service
          BY <3>4 DEF Finishes
        <4>2. QED
          BY <1>1, <1>8, <3>1, <3>4, <4>1
      <3>5. CASE j = id /\ d = "up" /\ ev.kind = "headers" /\ Routes(id)
        <4>1. IsSaved(j)' <=> IsSaved(j)
          BY <3>5 DEF Routes, IsSaved
        <4>2. QED
          BY <1>1, <1>8, <1>9, <3>1, <3>5, <4>1
      <3>6. QED
        BY <1>2, <3>2, <3>3, <3>4, <3>5
    <2>2. QED
      BY <1>6, <2>1 DEF HeadersOnce
  <1>11. OnePairPerStream'
    <2>1. CASE saved' = saved
      BY <2>1 DEF IInv, OnePairPerStream
    <2>2. CASE saved' # saved
      <3>1. ~IsSaved(id)
        BY <1>2, <1>5, <2>2 DEF IInv, HeadersOnce
      <3>2. QED
        BY <1>4, <1>5, <2>2, <3>1 DEF IInv, OnePairPerStream, IsSaved
    <2>3. QED
      BY <2>1, <2>2
  <1>12. Drained'
    <2>1. closer # "done"
      BY <1>1 DEF IInv, Drained
    <2>2. QED
      BY <1>1, <2>1, HandleDecoder DEF IInv, Drained
  <1>13. QED
    BY <1>7, <1>10, <1>11, <1>12 DEF IInv

\* Taking a mirrored frame into the decoder preserves the invariant: headers
\* move from the one place to the other.
LEMMA TakeFrameKeeps ==
    ASSUME IInv, NEW d \in Directions, TakeFrame(d)
    PROVE  IInv'
  <1> DEFINE evs == dec'[d].queued
  <1>1. /\ mirror[d] # << >> /\ dec[d].at # "gone"
        /\ dec[d].queued = << >>
        /\ DOMAIN mirror' = Directions /\ mirror'[d] = << >>
        /\ \A o \in Directions \ {d} : mirror'[o] = mirror[o]
        /\ DOMAIN dec' = Directions
        /\ \A o \in Directions \ {d} : dec'[o] = dec[o]
        /\ DOMAIN dec'[d] = {"at", "queued"} /\ dec'[d].at = "read"
        /\ evs = IF dec[d].at = "preface" THEN << >>
                 ELSE WireEvents(mirror[d][1])
    BY DEF IInv, Shape, TakeFrame
  <1>2. /\ sent' = sent /\ streams' = streams /\ saved' = saved
        /\ closer' = closer
    BY DEF TakeFrame, liveVars, trackerVars
  <1>3. PICK f : FrameOK(f) /\ mirror[d] = <<f>>
    BY <1>1 DEF IInv, Shape
  <1>4. mirror[d][1] = f
    BY <1>3
  <1>5. /\ IsSeq(evs)
        /\ \A i \in DOMAIN evs :
              /\ EventOK(evs[i])
              /\ evs[i].kind = "headers" =>
                    Len(evs) = 1 /\ f.kind = "headers" /\ f.id = evs[i].id
    <2>1. CASE dec[d].at = "preface"
      BY <1>1, <2>1, ShortSeqs
    <2>2. CASE dec[d].at # "preface"
      <3>1. evs = WireEvents(f)
        BY <1>1, <1>4, <2>2
      <3>2. f.kind # "preface"
        BY <1>1, <1>4, <2>2 DEF IInv, Shape
      <3> HIDE DEF evs
      <3>3. QED
        BY <1>3, <3>1, <3>2, WireEventsOK
    <2>3. QED
      BY <2>1, <2>2
  <1> HIDE DEF evs
  <1>6. Shape'
    <2>1. \A o \in Directions :
             /\ DOMAIN dec'[o] = {"at", "queued"}
             /\ IsSeq(dec'[o].queued)
             /\ \A i \in DOMAIN dec'[o].queued : EventOK(dec'[o].queued[i])
             /\ dec'[o].at \in {"preface", "read", "gone"}
             /\ dec'[o].at = "preface" => dec'[o].queued = << >>
             /\ mirror'[o] # << >> /\ mirror'[o][1].kind = "preface" =>
                   dec'[o].at # "read"
             /\ mirror'[o] = << >> \/
                   \E g : FrameOK(g) /\ mirror'[o] = <<g>>
      BY <1>1, <1>5 DEF IInv, Shape, evs
    <2>2. QED
      BY <1>1, <1>2, <2>1 DEF IInv, Shape
  <1>7. HeadersOnce'
    <2>1. CASE d # "up"
      <3>1. mirror'["up"] = mirror["up"] /\ dec'["up"] = dec["up"]
        BY <1>1, <2>1 DEF Directions
      <3>2. QED
        BY <1>2, <3>1
           DEF IInv, HeadersOnce, InMirror, InDecoder, IsSaved
    <2>2. CASE d = "up"
      <3>1. \A j \in Ids : ~InMirror(j)' /\ (InDecoder(j)' => InMirror(j))
        BY <1>1, <1>4, <1>5, <2>2 DEF InMirror, InDecoder, evs
      <3>2. \A i \in DOMAIN dec'["up"].queued :
               dec'["up"].queued[i].kind = "headers" =>
                   Len(dec'["up"].queued) = 1
        BY <1>5, <2>2 DEF evs
      <3>3. \A j \in Ids : IsSaved(j)' <=> IsSaved(j)
        BY <1>2 DEF IsSaved
      <3>4. QED
        BY <1>2, <3>1, <3>2, <3>3 DEF IInv, HeadersOnce
    <2>3. QED
      BY <2>1, <2>2
  <1>8. OnePairPerStream' /\ Drained'
    <2>1. OnePairPerStream'
      BY <1>2 DEF IInv, OnePairPerStream
    <2>2. closer # "done"
      BY <1>1 DEF IInv, Drained
    <2>3. QED
      BY <1>1, <1>2, <2>1, <2>2 DEF IInv, Drained
  <1>9. QED
    BY <1>6, <1>7, <1>8 DEF IInv

\* A Write preserves the invariant: headers are sent on a stream that has
\* sent nothing, so that it is neither followed nor saved.
LEMMA WriteKeeps ==
    ASSUME IInv, NEW id \in Ids, NEW f \in ClientFrames(id), Write(f)
    PROVE  IInv'
  <1>1. /\ f.id = id /\ FrameOK(f) /\ f.kind # "preface"
        /\ f.kind = "headers" => sent[id] = << >>
    BY ClientFramesOK
  <1>2. /\ dec' = dec /\ streams' = streams /\ saved' = saved
        /\ closer' = closer
        /\ mirror' = [mirror EXCEPT !["up"] = <<f>>]
        /\ sent' = [sent EXCEPT ![id] = Append(@, f)]
        /\ mirror["up"] = << >>
    BY <1>1 DEF Write, trackerVars
  <1>3. /\ "up" \in Directions /\ DOMAIN mirror' = Directions
        /\ mirror'["up"] = <<f>>
        /\ \A o \in Directions \ {"up"} : mirror'[o] = mirror[o]
    BY <1>2 DEF IInv, Shape, Directions
  <1>4. /\ DOMAIN sent' = Ids /\ IsSeq(sent'[id]) /\ sent'[id] # << >>
        /\ \A j \in Ids \ {id} : sent'[j] = sent[j]
    BY <1>2, AppendFacts DEF IInv, Shape
  <1>5. /\ <<f>>[1] = f /\ <<f>> # << >>
    BY ShortSeqs
  <1>6. Shape'
    <2>1. \A o \in Directions :
             /\ mirror'[o] = << >> \/
                   \E g : FrameOK(g) /\ mirror'[o] = <<g>>
             /\ mirror'[o] # << >> /\ mirror'[o][1].kind = "preface" =>
                   dec'[o].at # "read"
      BY <1>1, <1>2, <1>3, <1>5 DEF IInv, Shape
    <2>2. \A j \in Ids : IsSeq(sent'[j])
      BY <1>4 DEF IInv, Shape
    <2>3. QED
      BY <1>2, <1>3, <1>4, <2>1, <2>2 DEF IInv, Shape
  <1>7. HeadersOnce'
    <2>1. \A j \in Ids :
             /\ InMirror(j)' => j = id /\ sent[j] = << >>
             /\ InDecoder(j)' <=> InDecoder(j)
             /\ IsSaved(j)' <=> IsSaved(j)
             /\ sent[j] # << >> => sent'[j] # << >>
             /\ j = id => sent'[j] # << >>
      BY <1>1, <1>2, <1>3, <1>4, <1>5 DEF InMirror, InDecoder, IsSaved
    <2>2. QED
      BY <1>2, <2>1 DEF IInv, HeadersOnce
  <1>8. OnePairPerStream' /\ Drained'
    BY <1>2 DEF IInv, OnePairPerStream, Drained
  <1>9. QED
    BY <1>6, <1>7, <1>8 DEF IInv

\* A Read preserves the invariant, which does not look at what servers send.
LEMMA ReadKeeps ==
    ASSUME IInv, NEW id \in Ids, NEW f \in ServerFrames(id), Read(f)
    PROVE  IInv'
  <1>1. FrameOK(f)
    BY ServerFramesOK
  <1>2. /\ dec' = dec /\ streams' = streams /\ saved' = saved
        /\ closer' = closer /\ sent' = sent
        /\ mirror' = [mirror EXCEPT !["down"] = <<f>>]
    BY DEF Read, trackerVars
  <1>3. /\ "down" \in Directions /\ DOMAIN mirror' = Directions
        /\ mirror'["down"] = <<f>> /\ mirror'["up"] = mirror["up"]
        /\ \A o \in Directions \ {"down"} : mirror'[o] = mirror[o]
    BY <1>2 DEF IInv, Shape, Directions
  <1>4. f.kind # "preface"
    <2>1. \E encoding, status, end, msgs :
             f \in {Headers(id, "none", encoding, status, end), Reset(id),
                    Data(id, msgs, FALSE)}
      BY DEF ServerFrames, Resets
    <2>2. QED
      BY <2>1 DEF Headers, Reset, Data
  <1>5. <<f>>[1] = f /\ <<f>> # << >>
    BY ShortSeqs
  <1>6. Shape'
    <2>1. \A o \in Directions :
             /\ mirror'[o] = << >> \/
                   \E g : FrameOK(g) /\ mirror'[o] = <<g>>
             /\ mirror'[o] # << >> /\ mirror'[o][1].kind = "preface" =>
                   dec'[o].at # "read"
      BY <1>1, <1>2, <1>3, <1>4, <1>5 DEF IInv, Shape
    <2>2. QED
      BY <1>2, <1>3, <2>1 DEF IInv, Shape
  <1>7. HeadersOnce'
    BY <1>2, <1>3 DEF IInv, HeadersOnce, InMirror, InDecoder, IsSaved
  <1>8. OnePairPerStream' /\ Drained'
    BY <1>2 DEF IInv, OnePairPerStream, Drained
  <1>9. QED
    BY <1>6, <1>7, <1>8 DEF IInv

\* A step of the tap that only empties or prefaces a mirror write preserves
\* the invariant.
LEMMA MirrorKeeps ==
    ASSUME IInv, NEW d \in Directions,
           sent' = sent, dec' = dec, streams' = streams, saved' = saved,
           closer' = closer,
           \/ mirror' = [mirror EXCEPT ![d] = << >>]
           \/ /\ dec[d].at = "preface"
              /\ mirror' = [mirror EXCEPT ![d] = <<Preface>>]
    PROVE  IInv'
  <1>1. /\ DOMAIN mirror' = Directions
        /\ \A o \in Directions \ {d} : mirror'[o] = mirror[o]
        /\ \/ mirror'[d] = << >>
           \/ mirror'[d] = <<Preface>> /\ dec[d].at = "preface"
    BY DEF IInv, Shape
  <1>2. FrameOK(Preface) /\ <<Preface>>[1].kind = "preface"
    BY DEF FrameOK, Preface
  <1>3. Shape'
    <2>1. \A o \in Directions :
             /\ mirror'[o] = << >> \/
                   \E g : FrameOK(g) /\ mirror'[o] = <<g>>
             /\ mirror'[o] # << >> /\ mirror'[o][1].kind = "preface" =>
                   dec'[o].at # "read"
      BY <1>1, <1>2 DEF IInv, Shape
    <2>2. QED
      BY <1>1, <2>1 DEF IInv, Shape
  <1>4. HeadersOnce'
    <2>1. \A j \in Ids : InMirror(j)' => InMirror(j)
      BY <1>1, <1>2 DEF InMirror, Directions
    <2>2. \A j \in Ids : /\ InDecoder(j)' <=> InDecoder(j)
                         /\ IsSaved(j)' <=> IsSaved(j)
      BY DEF InDecoder, IsSaved
    <2>3. QED
      BY <2>1, <2>2 DEF IInv, HeadersOnce
  <1>5. OnePairPerStream' /\ Drained'
    BY DEF IInv, OnePairPerStream, Drained
  <1>6. QED
    BY <1>3, <1>4, <1>5 DEF IInv

\* A decoder that stops has no event left.
LEMMA DecoderEndsKeeps ==
    ASSUME IInv, NEW d \in Directions, DecoderEnds(d)
    PROVE  IInv'
  <1>1. /\ sent' = sent /\ mirror' = mirror /\ streams' = streams
        /\ saved' = saved /\ closer' = closer
        /\ dec' = [dec EXCEPT ![d].at = "gone"] /\ dec[d].queued = << >>
    BY DEF DecoderEnds, liveVars, trackerVars
  <1>2. /\ DOMAIN dec' = Directions
        /\ \A o \in Directions \ {d} : dec'[o] = dec[o]
        /\ DOMAIN dec'[d] = {"at", "queued"} /\ dec'[d].at = "gone"
        /\ \A o \in Directions : dec'[o].queued = dec[o].queued
    BY <1>1 DEF IInv, Shape
  <1>3. Shape'
    <2>1. \A o \in Directions :
             /\ DOMAIN dec'[o] = {"at", "queued"}
             /\ dec'[o].at \in {"preface", "read", "gone"}
             /\ dec'[o].at = "preface" => dec'[o].queued = << >>
             /\ mirror'[o] # << >> /\ mirror'[o][1].kind = "preface" =>
                   dec'[o].at # "read"
      BY <1>1, <1>2 DEF IInv, Shape
    <2>2. QED
      BY <1>1, <1>2, <2>1 DEF IInv, Shape
  <1>4. HeadersOnce'
    <2>1. dec'["up"].queued = dec["up"].queued
      BY <1>2 DEF Directions
    <2>2. QED
      BY <1>1, <2>1 DEF IInv, HeadersOnce, InMirror, InDecoder, IsSaved
  <1>5. OnePairPerStream'
    BY <1>1 DEF IInv, OnePairPerStream
  <1>6. Drained'
    BY <1>1, <1>2 DEF IInv, Drained
  <1>7. QED
    BY <1>3, <1>4, <1>5, <1>6 DEF IInv

\* Close preserves the invariant: it returns when both decoders are gone, and
\* forgets the streams that are open.
LEMMA CloseReturnsKeeps ==
    ASSUME IInv, CloseReturns
    PROVE  IInv'
  <1>1. /\ sent' = sent /\ mirror' = mirror /\ saved' = saved /\ dec' = dec
        /\ streams' = [id \in Ids |-> NewRecStream]
        /\ \A d \in Directions : dec[d].at = "gone"
    BY DEF CloseReturns, liveVars
  <1>2. DOMAIN NewRecStream = RecFields /\ ~NewRecStream.service
    BY DEF NewRecStream, RecFields
  <1>3. /\ DOMAIN streams' = Ids
        /\ \A id \in Ids : /\ DOMAIN streams'[id] = RecFields
                           /\ ~streams'[id].service
    BY <1>1, <1>2
  <1>4. Shape'
    BY <1>1, <1>3 DEF IInv, Shape
  <1>5. HeadersOnce'
    BY <1>1, <1>3 DEF IInv, HeadersOnce, InMirror, InDecoder, IsSaved
  <1>6. OnePairPerStream' /\ Drained'
    BY <1>1 DEF IInv, OnePairPerStream, Drained
  <1>7. QED
    BY <1>4, <1>5, <1>6 DEF IInv

\* Steps that leave frames, decoders and tracker alone.
LEMMA QuietStepKeeps ==
    ASSUME IInv, sent' = sent, mirror' = mirror, dec' = dec,
           streams' = streams, saved' = saved,
           closer' = closer \/ closer' # "done"
    PROVE  IInv'
  <1>1. Shape'
    BY DEF IInv, Shape
  <1>2. HeadersOnce'
    BY DEF IInv, HeadersOnce, InMirror, InDecoder, IsSaved
  <1>3. OnePairPerStream' /\ Drained'
    BY DEF IInv, OnePairPerStream, Drained
  <1>4. QED
    BY <1>1, <1>2, <1>3 DEF IInv

\* Every step of the tap preserves the invariant.
LEMMA NextIInv == IInv /\ [Next]_vars => IInv'
  <1> SUFFICES ASSUME IInv, [Next]_vars PROVE IInv'
    OBVIOUS
  <1>1. CASE WritePreface
    <2>1. "up" \in Directions
      BY DEF Directions
    <2>2. /\ sent' = sent /\ dec' = dec /\ streams' = streams
          /\ saved' = saved /\ closer' = closer
          /\ dec["up"].at = "preface"
          /\ mirror' = [mirror EXCEPT !["up"] = <<Preface>>]
      BY <1>1 DEF WritePreface, liveVars, trackerVars
    <2>3. QED
      BY <2>1, <2>2, MirrorKeeps
  <1>2. ASSUME NEW id \in Ids, NEW f \in ClientFrames(id), Write(f)
        PROVE  IInv'
    BY <1>2, WriteKeeps
  <1>3. ASSUME NEW id \in Ids, NEW f \in ServerFrames(id), Read(f)
        PROVE  IInv'
    BY <1>3, ReadKeeps
  <1>4. CASE ReadFails \/ Close \/ ClosePipes \/ UNCHANGED vars
    <2>1. /\ sent' = sent /\ mirror' = mirror /\ dec' = dec
          /\ streams' = streams /\ saved' = saved
          /\ closer' = closer \/ closer' # "done"
      BY <1>4 DEF ReadFails, Close, ClosePipes, vars, liveVars, trackerVars
    <2>2. QED
      BY <2>1, QuietStepKeeps
  <1>5. ASSUME NEW d \in Directions, MirrorFails(d)
        PROVE  IInv'
    <2>1. /\ sent' = sent /\ dec' = dec /\ streams' = streams
          /\ saved' = saved /\ closer' = closer
          /\ mirror' = [mirror EXCEPT ![d] = << >>]
      BY <1>5 DEF MirrorFails, liveVars, trackerVars
    <2>2. QED
      BY <2>1, MirrorKeeps
  <1>6. ASSUME NEW d \in Directions, DecoderStep(d)
        PROVE  IInv'
    BY <1>6, TakeFrameKeeps, HandleKeeps, DecoderEndsKeeps DEF DecoderStep
  <1>7. CASE CloseReturns
    BY <1>7, CloseReturnsKeeps
  <1>8. QED
    BY <1>1, <1>2, <1>3, <1>4, <1>5, <1>6, <1>7 DEF Next

-----------------------------------------------------------------------------
(***************************************************************************)
(* The theorems.                                                           *)
(***************************************************************************)

\* The invariant holds in every reachable state.
THEOREM Invariance == Spec => []IInv
  BY InitIInv, NextIInv, PTL DEF Spec

\* The tap saves at most one pair for a stream, whatever ends the stream and
\* in whatever order the decoders handle it (streamTracker.finish).
THEOREM OnePair == Spec => []OnePairPerStream
  <1>1. IInv => OnePairPerStream
    BY DEF IInv
  <1>2. QED
    BY <1>1, Invariance, PTL

\* Once Close has returned the tap writes nothing (recordConn.Close waits for
\* both decoders).
THEOREM Quiet == Spec => QuietAfterClose
  <1>1. IInv /\ [Next]_vars => [closer = "done" => saved' = saved]_saved
    <2> SUFFICES ASSUME IInv, [Next]_vars, closer = "done"
                 PROVE  saved' = saved
      OBVIOUS
    <2>1. ASSUME NEW d \in Directions
          PROVE  ~Handle(d)
      BY DEF IInv, Drained, Handle
    <2>2. QED
      BY <2>1 DEF Next, WritePreface, Write, Read, ReadFails, MirrorFails,
                  DecoderStep, TakeFrame, DecoderEnds, Close, ClosePipes,
                  CloseReturns, trackerVars, vars
  <1>2. QED
    BY <1>1, Invariance, PTL DEF Spec, QuietAfterClose

-----------------------------------------------------------------------------
(***************************************************************************)
(* The messages of a sequence of frames.  MessagesIn is computed frame by  *)
(* frame; what it yields is shown by induction on the number of frames.    *)
(***************************************************************************)
FramesOK(frames) ==
    /\ IsSeq(frames)
    /\ \A i \in DOMAIN frames : IsData(frames[i]) => IsSeq(frames[i].msgs)

\* The messages of frame i after those of the frames before.
MessagesAt(g, frames, i) ==
    IF i = 0 THEN << >>
    ELSE IF IsData(frames[i]) THEN g[i - 1] \o frames[i].msgs
    ELSE g[i - 1]

Collects(g, frames, n) == g = [i \in 0 .. n |-> MessagesAt(g, frames, i)]

\* There is such a function for any number of frames.
LEMMA CollectsExists ==
    ASSUME NEW frames
    PROVE  \A n \in Nat : \E g : Collects(g, frames, n)
<1> DEFINE S == {n \in Nat : \E g : Collects(g, frames, n)}
<1>1. 0 \in S
  <2>1. Collects([i \in 0 .. 0 |-> << >>], frames, 0)
    BY DEF Collects, MessagesAt
  <2> QED
    BY <2>1
<1>2. ASSUME NEW n \in S PROVE n + 1 \in S
  <2>1. PICK g : Collects(g, frames, n)
    OBVIOUS
  <2>2. n \in Nat
    OBVIOUS
  <2>3. PICK v : v = MessagesAt(g, frames, n + 1)
    OBVIOUS
  <2> DEFINE h == [i \in 0 .. n + 1 |-> IF i = n + 1 THEN v ELSE g[i]]
  <2>4. /\ \A i \in 0 .. n : h[i] = g[i]
        /\ h[n + 1] = v
        /\ h = [i \in 0 .. n + 1 |-> h[i]]
    BY <2>2
  <2>5. \A i \in 0 .. n : g[i] = MessagesAt(g, frames, i)
    BY <2>1, <2>2 DEF Collects
  <2> HIDE DEF h
  <2>6. ASSUME NEW i \in 0 .. n + 1 PROVE h[i] = MessagesAt(h, frames, i)
    <3>1. CASE i = n + 1
      BY <2>2, <2>3, <2>4, <3>1 DEF MessagesAt
    <3>2. CASE i # n + 1
      <4>1. i \in 0 .. n /\ (i # 0 => i - 1 \in 0 .. n)
        BY <2>2, <3>2
      <4> QED
        BY <2>4, <2>5, <4>1 DEF MessagesAt
    <3> QED
      BY <3>1, <3>2
  <2>7. Collects(h, frames, n + 1)
    BY <2>4, <2>6 DEF Collects
  <2> QED
    BY <2>2, <2>7
<1> HIDE DEF S
<1>3. S = Nat
  BY <1>1, <1>2, NumberInduction DEF S
<1> QED
  BY <1>3 DEF S

\* Two of them agree on the frames that their sequences share.
LEMMA CollectsAgree ==
    ASSUME NEW frames, NEW other, NEW n \in Nat, NEW m \in Nat, n <= m,
           NEW g, NEW h, \A i \in 1 .. n : frames[i] = other[i],
           Collects(g, frames, n), Collects(h, other, m)
    PROVE  \A i \in 0 .. n : g[i] = h[i]
<1> DEFINE S == {i \in Nat : i \in 0 .. n => g[i] = h[i]}
<1>1. /\ \A i \in 0 .. n : g[i] = MessagesAt(g, frames, i)
      /\ \A i \in 0 .. m : h[i] = MessagesAt(h, other, i)
  BY DEF Collects
<1>2. 0 \in S
  <2>1. 0 \in 0 .. n /\ 0 \in 0 .. m
    OBVIOUS
  <2> QED
    BY <1>1, <2>1 DEF MessagesAt
<1>3. ASSUME NEW i \in S PROVE i + 1 \in S
  <2> SUFFICES ASSUME i + 1 \in 0 .. n PROVE g[i + 1] = h[i + 1]
    OBVIOUS
  <2>1. /\ i \in 0 .. n /\ i + 1 \in 1 .. n /\ i + 1 \in 0 .. m
        /\ i + 1 - 1 = i /\ i + 1 # 0
    OBVIOUS
  <2>2. g[i] = h[i] /\ frames[i + 1] = other[i + 1]
    BY <2>1
  <2> QED
    BY <1>1, <2>1, <2>2 DEF MessagesAt
<1>4. S = Nat
  <2> HIDE DEF S
  <2> QED
    BY <1>2, <1>3, NumberInduction DEF S
<1>5. \A i \in 0 .. n : i \in Nat
  OBVIOUS
<1> QED
  BY <1>4, <1>5

\* MessagesIn is the last value of it.
LEMMA MessagesCollected ==
    ASSUME NEW frames, NEW n \in Nat, n = Len(frames), NEW g, Collects(g, frames, n)
    PROVE  MessagesIn(frames) = g[n]
<1>1. PICK a : a = CHOOSE f : Collects(f, frames, Len(frames))
  OBVIOUS
<1>2. Collects(a, frames, n)
  BY <1>1
<1>3. MessagesIn(frames) = a[n]
  BY <1>1 DEF MessagesIn, Collects, MessagesAt
<1>4. n \in 0 .. n /\ n <= n
  OBVIOUS
<1>5. \A i \in 0 .. n : g[i] = a[i]
  BY <1>2, <1>4, CollectsAgree
<1> QED
  BY <1>3, <1>4, <1>5

\* No frames, no messages.
LEMMA NoMessages == MessagesIn(<< >>) = << >>
<1>1. PICK g : Collects(g, << >>, 0)
  BY CollectsExists
<1>2. g[0] = << >>
  BY <1>1 DEF Collects, MessagesAt
<1>3. Len(<< >>) = 0
  OBVIOUS
<1> QED
  BY <1>1, <1>2, <1>3, MessagesCollected

\* A frame brings its messages after those of the frames before.
LEMMA MessagesAppended ==
    ASSUME NEW frames, NEW f, IsSeq(frames)
    PROVE  MessagesIn(Append(frames, f)) =
              IF IsData(f) THEN MessagesIn(frames) \o f.msgs ELSE MessagesIn(frames)
<1>1. PICK n, more : n = Len(frames) /\ more = Append(frames, f)
  OBVIOUS
<1>2. /\ n \in Nat /\ n + 1 \in Nat /\ Len(more) = n + 1 /\ more[n + 1] = f
      /\ \A i \in 1 .. n : frames[i] = more[i]
  BY <1>1, AppendFacts
<1>3. PICK g : Collects(g, frames, n)
  BY <1>2, CollectsExists
<1>4. PICK h : Collects(h, more, n + 1)
  BY <1>2, CollectsExists
<1>5. \A i \in 0 .. n : g[i] = h[i]
  <2>1. n <= n + 1
    BY <1>2
  <2> QED
    BY <1>2, <1>3, <1>4, <2>1, CollectsAgree
<1>6. h[n + 1] = MessagesAt(h, more, n + 1)
  <2>1. n + 1 \in 0 .. n + 1
    BY <1>2
  <2> QED
    BY <1>4, <2>1 DEF Collects
<1>7. h[n + 1] = IF IsData(f) THEN g[n] \o f.msgs ELSE g[n]
  <2>1. n + 1 # 0 /\ n + 1 - 1 = n /\ n \in 0 .. n
    BY <1>2
  <2> QED
    BY <1>2, <1>5, <1>6, <2>1 DEF MessagesAt
<1>8. MessagesIn(more) = h[n + 1]
  BY <1>2, <1>4, MessagesCollected
<1>9. MessagesIn(frames) = g[n]
  BY <1>1, <1>2, <1>3, MessagesCollected
<1> QED
  BY <1>1, <1>7, <1>8, <1>9

\* They are a sequence.
LEMMA MessagesAreSeq ==
    ASSUME NEW frames, FramesOK(frames)
    PROVE  IsSeq(MessagesIn(frames))
<1>1. PICK n : n = Len(frames)
  OBVIOUS
<1>2. n \in Nat /\ DOMAIN frames = 1 .. n
  BY <1>1, AppendFacts DEF FramesOK
<1>3. PICK g : Collects(g, frames, n)
  BY <1>2, CollectsExists
<1> DEFINE S == {i \in Nat : i \in 0 .. n => IsSeq(g[i])}
<1>4. \A i \in 0 .. n : g[i] = MessagesAt(g, frames, i)
  BY <1>3 DEF Collects
<1>5. 0 \in S
  <2>1. 0 \in 0 .. n
    BY <1>2
  <2> QED
    BY <1>4, <2>1, ShortSeqs DEF MessagesAt
<1>6. ASSUME NEW i \in S PROVE i + 1 \in S
  <2> SUFFICES ASSUME i + 1 \in 0 .. n PROVE IsSeq(g[i + 1])
    OBVIOUS
  <2>1. i \in 0 .. n /\ i + 1 \in 1 .. n /\ i + 1 - 1 = i /\ i + 1 # 0
    BY <1>2
  <2>2. IsSeq(g[i])
    BY <2>1
  <2>3. IsData(frames[i + 1]) => IsSeq(frames[i + 1].msgs)
    BY <1>2, <2>1 DEF FramesOK
  <2> QED
    BY <1>4, <2>1, <2>2, <2>3, ConcatFacts DEF MessagesAt
<1>7. S = Nat
  <2> HIDE DEF S
  <2> QED
    BY <1>5, <1>6, NumberInduction DEF S
<1>8. IsSeq(g[n])
  BY <1>2, <1>7
<1> QED
  BY <1>1, <1>2, <1>3, <1>8, MessagesCollected

\* What a frame adds: no message of the others changes place.
Grows(old, new, f) ==
    /\ IsSeq(old) /\ IsSeq(new) /\ Len(old) \in Nat /\ Len(new) \in Nat
    /\ DOMAIN old = 1 .. Len(old) /\ DOMAIN new = 1 .. Len(new)
    /\ ~IsData(f) => new = old
    /\ IsData(f) => Len(f.msgs) \in Nat /\ Len(new) = Len(old) + Len(f.msgs)
    /\ \A i \in 1 .. Len(old) : new[i] = old[i]
    /\ IsData(f) => \A i \in 1 .. Len(f.msgs) : new[Len(old) + i] = f.msgs[i]

LEMMA MessagesGrow ==
    ASSUME NEW frames, NEW f, FramesOK(frames), IsData(f) => IsSeq(f.msgs)
    PROVE  /\ FramesOK(Append(frames, f))
           /\ Grows(MessagesIn(frames), MessagesIn(Append(frames, f)), f)
<1>1. PICK old, new : old = MessagesIn(frames) /\ new = MessagesIn(Append(frames, f))
  OBVIOUS
<1>2. IsSeq(frames)
  BY DEF FramesOK
<1>3. FramesOK(Append(frames, f))
  BY <1>2, AppendFacts DEF FramesOK
<1>4. IsSeq(old) /\ IsSeq(new)
  BY <1>1, <1>3, MessagesAreSeq
<1>5. /\ Len(old) \in Nat /\ Len(new) \in Nat
      /\ DOMAIN old = 1 .. Len(old) /\ DOMAIN new = 1 .. Len(new)
  BY <1>4, AppendFacts
<1>6. new = IF IsData(f) THEN old \o f.msgs ELSE old
  BY <1>1, <1>2, MessagesAppended
<1>7. IsData(f) => /\ Len(f.msgs) \in Nat /\ Len(new) = Len(old) + Len(f.msgs)
                   /\ \A i \in 1 .. Len(old) : new[i] = old[i]
                   /\ \A i \in 1 .. Len(f.msgs) : new[Len(old) + i] = f.msgs[i]
  BY <1>4, <1>6, ConcatFacts
<1>8. Grows(old, new, f)
  BY <1>4, <1>5, <1>6, <1>7 DEF Grows
<1> QED
  BY <1>1, <1>3, <1>8

-----------------------------------------------------------------------------
(***************************************************************************)
(* The frames that finish makes of the events noted, likewise.             *)
(***************************************************************************)
FrameAt(g, s, kind, i) ==
    IF i = 0 THEN << >>
    ELSE IF s[i][1] = kind
    THEN Append(g[i - 1], StreamFrame(i - 1, s[i][2]))
    ELSE g[i - 1]

Frames(g, s, kind, n) == g = [i \in 0 .. n |-> FrameAt(g, s, kind, i)]

\* There is such a function for any number of events.
LEMMA FramesExist ==
    ASSUME NEW s, NEW kind
    PROVE  \A n \in Nat : \E g : Frames(g, s, kind, n)
<1> DEFINE S == {n \in Nat : \E g : Frames(g, s, kind, n)}
<1>1. 0 \in S
  <2>1. Frames([i \in 0 .. 0 |-> << >>], s, kind, 0)
    BY DEF Frames, FrameAt
  <2> QED
    BY <2>1
<1>2. ASSUME NEW n \in S PROVE n + 1 \in S
  <2>1. PICK g : Frames(g, s, kind, n)
    OBVIOUS
  <2>2. n \in Nat
    OBVIOUS
  <2>3. PICK v : v = FrameAt(g, s, kind, n + 1)
    OBVIOUS
  <2> DEFINE h == [i \in 0 .. n + 1 |-> IF i = n + 1 THEN v ELSE g[i]]
  <2>4. /\ \A i \in 0 .. n : h[i] = g[i]
        /\ h[n + 1] = v
        /\ h = [i \in 0 .. n + 1 |-> h[i]]
    BY <2>2
  <2>5. \A i \in 0 .. n : g[i] = FrameAt(g, s, kind, i)
    BY <2>1, <2>2 DEF Frames
  <2> HIDE DEF h
  <2>6. ASSUME NEW i \in 0 .. n + 1 PROVE h[i] = FrameAt(h, s, kind, i)
    <3>1. CASE i = n + 1
      <4>1. n + 1 # 0 /\ n + 1 - 1 = n /\ n \in 0 .. n
        BY <2>2
      <4>2. h[n] = g[n]
        BY <2>4, <4>1
      <4>3. FrameAt(h, s, kind, n + 1) = FrameAt(g, s, kind, n + 1)
        BY <4>1, <4>2 DEF FrameAt
      <4> QED
        BY <2>3, <2>4, <3>1, <4>3
    <3>2. CASE i # n + 1
      <4>1. i \in 0 .. n /\ (i # 0 => i - 1 \in 0 .. n)
        BY <2>2, <3>2
      <4> QED
        BY <2>4, <2>5, <4>1 DEF FrameAt
    <3> QED
      BY <3>1, <3>2
  <2>7. Frames(h, s, kind, n + 1)
    BY <2>4, <2>6 DEF Frames
  <2> QED
    BY <2>2, <2>7
<1> HIDE DEF S
<1>3. S = Nat
  BY <1>1, <1>2, NumberInduction DEF S
<1> QED
  BY <1>3 DEF S

\* Two of them agree on the events that two sequences share.
FramesUpTo(g, s, kind, n) == \A i \in 0 .. n : g[i] = FrameAt(g, s, kind, i)

Shares(s, t, n) == \A i \in 1 .. n : s[i] = t[i]

LEMMA FramesAgree ==
    ASSUME NEW s, NEW t, NEW kind, NEW n \in Nat, Shares(s, t, n),
           NEW g, NEW h, FramesUpTo(g, s, kind, n), FramesUpTo(h, t, kind, n)
    PROVE  \A i \in 0 .. n : g[i] = h[i]
<1> DEFINE S == {i \in Nat : i \in 0 .. n => g[i] = h[i]}
<1>1. /\ \A i \in 0 .. n : g[i] = FrameAt(g, s, kind, i)
      /\ \A i \in 0 .. n : h[i] = FrameAt(h, t, kind, i)
  BY DEF FramesUpTo
<1>2. 0 \in S
  <2>1. 0 \in 0 .. n
    OBVIOUS
  <2> QED
    BY <1>1, <2>1 DEF FrameAt
<1>3. ASSUME NEW i \in S PROVE i + 1 \in S
  <2> SUFFICES ASSUME i + 1 \in 0 .. n PROVE g[i + 1] = h[i + 1]
    OBVIOUS
  <2>1. /\ i \in 0 .. n /\ i + 1 \in 1 .. n
        /\ i + 1 - 1 = i /\ i + 1 # 0
    OBVIOUS
  <2>2. g[i] = h[i] /\ s[i + 1] = t[i + 1]
    BY <2>1 DEF Shares
  <2> QED
    BY <1>1, <2>1, <2>2 DEF FrameAt
<1>4. S = Nat
  <2> HIDE DEF S
  <2> QED
    BY <1>2, <1>3, NumberInduction DEF S
<1>5. \A i \in 0 .. n : i \in Nat
  OBVIOUS
<1> QED
  BY <1>4, <1>5

\* FramesOf is the last value of it.
LEMMA FramesLast ==
    ASSUME NEW s, NEW kind, NEW n \in Nat, n = Len(s.events), NEW g,
           Frames(g, s.events, kind, n)
    PROVE  FramesOf(s, kind) = g[n]
<1>1. PICK a : a = CHOOSE f : Frames(f, s.events, kind, Len(s.events))
  OBVIOUS
<1>2. Frames(a, s.events, kind, n)
  BY <1>1
<1>3. FramesOf(s, kind) = a[n]
  BY <1>1 DEF FramesOf, Frames, FrameAt
<1>4. n \in 0 .. n /\ n <= n
  OBVIOUS
<1>5. PICK q : q = s.events
  OBVIOUS
<1>6. Shares(q, q, n)
  BY DEF Shares
<1>7. FramesUpTo(g, q, kind, n) /\ FramesUpTo(a, q, kind, n)
  BY <1>2, <1>5 DEF Frames, FramesUpTo
<1>8. \A i \in 0 .. n : g[i] = a[i]
  BY <1>4, <1>6, <1>7, FramesAgree
<1> QED
  BY <1>3, <1>4, <1>8

\* The frames depend on the events alone; no events, no frames.
LEMMA FramesOfEvents ==
    ASSUME NEW s, NEW t, NEW kind, IsSeq(s.events), t.events = s.events
    PROVE  FramesOf(t, kind) = FramesOf(s, kind)
<1>1. PICK n : n = Len(s.events)
  OBVIOUS
<1>2. n \in Nat /\ n = Len(t.events) /\ n <= n /\ n \in 0 .. n
  BY <1>1, AppendFacts
<1>3. PICK g : Frames(g, s.events, kind, n)
  BY <1>2, FramesExist
<1>4. PICK h : Frames(h, t.events, kind, n)
  BY <1>2, FramesExist
<1>5. \A i \in 0 .. n : g[i] = h[i]
  <2>1. Shares(s.events, t.events, n)
    BY DEF Shares
  <2>2. FramesUpTo(g, s.events, kind, n) /\ FramesUpTo(h, t.events, kind, n)
    BY <1>3, <1>4 DEF Frames, FramesUpTo
  <2> QED
    BY <1>2, <2>1, <2>2, FramesAgree
<1>6. FramesOf(s, kind) = g[n] /\ FramesOf(t, kind) = h[n]
  BY <1>1, <1>2, <1>3, <1>4, FramesLast
<1> QED
  BY <1>2, <1>5, <1>6

LEMMA NoFrames ==
    ASSUME NEW s, NEW kind, s.events = << >>
    PROVE  FramesOf(s, kind) = << >>
<1>1. PICK g : Frames(g, s.events, kind, 0)
  BY FramesExist
<1>2. g[0] = << >>
  BY <1>1 DEF Frames, FrameAt
<1>3. Len(s.events) = 0
  OBVIOUS
<1> QED
  BY <1>1, <1>2, <1>3, FramesLast

\* Noting an event makes one frame of its kind, with the number of events
\* before it.
LEMMA FramesStep ==
    ASSUME NEW p, NEW q, NEW kind, NEW n \in Nat, Shares(p, q, n),
           NEW g, NEW h, Frames(g, p, kind, n), Frames(h, q, kind, n + 1)
    PROVE  h[n + 1] = IF q[n + 1][1] = kind
                      THEN Append(g[n], StreamFrame(n, q[n + 1][2]))
                      ELSE g[n]
<1>1. /\ n + 1 \in Nat /\ n <= n + 1 /\ n + 1 \in 0 .. n + 1 /\ n \in 0 .. n
      /\ n + 1 # 0 /\ n + 1 - 1 = n
  OBVIOUS
<1>2. \A i \in 0 .. n : g[i] = h[i]
  <2>1. FramesUpTo(g, p, kind, n) /\ FramesUpTo(h, q, kind, n)
    <3>1. \A i \in 0 .. n : i \in 0 .. n + 1
      BY <1>1
    <3> QED
      BY <3>1 DEF Frames, FramesUpTo
  <2> QED
    BY <2>1, FramesAgree
<1>3. h[n + 1] = FrameAt(h, q, kind, n + 1)
  BY <1>1 DEF Frames
<1> QED
  BY <1>1, <1>2, <1>3 DEF FrameAt

LEMMA FramesAppended ==
    ASSUME NEW s, NEW t, NEW kind, NEW e, IsSeq(s.events),
           t.events = Append(s.events, e)
    PROVE  FramesOf(t, kind) =
              IF e[1] = kind
              THEN Append(FramesOf(s, kind), StreamFrame(Len(s.events), e[2]))
              ELSE FramesOf(s, kind)
<1>1. PICK n, p, q : n = Len(s.events) /\ p = s.events /\ q = t.events
  OBVIOUS
<1>2. /\ n \in Nat /\ n + 1 \in Nat /\ Len(t.events) = n + 1 /\ q[n + 1] = e
      /\ Shares(p, q, n)
  BY <1>1, AppendFacts DEF Shares
<1>3. PICK g : Frames(g, p, kind, n)
  BY <1>2, FramesExist
<1>4. PICK h : Frames(h, q, kind, n + 1)
  BY <1>2, FramesExist
<1>5. h[n + 1] = IF e[1] = kind THEN Append(g[n], StreamFrame(n, e[2])) ELSE g[n]
  BY <1>2, <1>3, <1>4, FramesStep
<1>6. FramesOf(t, kind) = h[n + 1]
  BY <1>1, <1>2, <1>4, FramesLast
<1>7. FramesOf(s, kind) = g[n]
  BY <1>1, <1>2, <1>3, FramesLast
<1> QED
  BY <1>1, <1>5, <1>6, <1>7

\* They are a sequence of frames with numbers below the number of events.
LEMMA FramesAreSeq ==
    ASSUME NEW s, NEW kind, IsSeq(s.events)
    PROVE  /\ IsSeq(FramesOf(s, kind))
           /\ \A j \in DOMAIN FramesOf(s, kind) :
                 FramesOf(s, kind)[j].seq \in 0 .. Len(s.events) - 1
<1>1. PICK n : n = Len(s.events)
  OBVIOUS
<1>2. n \in Nat
  BY <1>1, AppendFacts
<1>3. PICK g : Frames(g, s.events, kind, n)
  BY <1>2, FramesExist
<1> DEFINE Numbered(q, i) == IsSeq(q) /\ \A j \in DOMAIN q : q[j].seq \in 0 .. i - 1
           S == {i \in Nat : i \in 0 .. n => Numbered(g[i], i)}
<1>4. \A i \in 0 .. n : g[i] = FrameAt(g, s.events, kind, i)
  BY <1>3 DEF Frames
<1>5. 0 \in S
  <2>1. 0 \in 0 .. n
    BY <1>2
  <2> QED
    BY <1>4, <2>1, ShortSeqs DEF FrameAt
<1>6. ASSUME NEW i \in S PROVE i + 1 \in S
  <2> SUFFICES ASSUME i + 1 \in 0 .. n PROVE Numbered(g[i + 1], i + 1)
    OBVIOUS
  <2>1. i \in Nat /\ i \in 0 .. n /\ i + 1 - 1 = i /\ i + 1 # 0
    BY <1>2
  <2>2. Numbered(g[i], i)
    BY <2>1
  <2>3. PICK m : m = StreamFrame(i, s.events[i + 1][2])
    OBVIOUS
  <2>4. m.seq = i
    BY <2>3 DEF StreamFrame
  <2>5. g[i + 1] = g[i] \/ g[i + 1] = Append(g[i], m)
    <3>1. g[i + 1] = FrameAt(g, s.events, kind, i + 1)
      BY <1>4
    <3> QED
      BY <2>1, <2>3, <3>1 DEF FrameAt
  <2>6. \A k \in 0 .. i - 1 : k \in 0 .. i + 1 - 1
    BY <2>1
  <2>7. i \in 0 .. i + 1 - 1
    BY <2>1
  <2>8. CASE g[i + 1] = g[i]
    BY <2>2, <2>6, <2>8
  <2>9. CASE g[i + 1] = Append(g[i], m)
    BY <2>2, <2>4, <2>6, <2>7, <2>9, AppendFacts
  <2> QED
    BY <2>5, <2>8, <2>9
<1>7. S = Nat
  <2> HIDE DEF S
  <2> QED
    BY <1>5, <1>6, NumberInduction DEF S
<1>8. Numbered(g[n], n)
  BY <1>2, <1>7
<1> QED
  BY <1>1, <1>2, <1>3, <1>8, FramesLast
-----------------------------------------------------------------------------
(***************************************************************************)
(* A saved pair is of one call.  The invariant follows the messages of one *)
(* stream in one direction: h of them were handled, the next are in the    *)
(* decoder's queue and the last, unless something was lost, in the Read or *)
(* Write under way.                                                        *)
(***************************************************************************)
Carries(ev) == ev.kind = "message" /\ ev.message # << >>

\* The events in a queue are those of one frame.
QueueOK(q) ==
    \A i \in DOMAIN q :
        /\ q[i].id = q[1].id
        /\ ~Carries(q[i]) => Len(q) = 1
        /\ q[i].end => i = Len(q)

\* The frame in a mirror write, or the events in a queue, are of stream id.
Mirrors(m, id) == m # << >> /\ m[1].kind # "preface" /\ m[1].id = id

Queues(q, id) == q # << >> /\ q[1].id = id

\* How many messages of the stream they carry.
Waiting(q, id) == IF Queues(q, id) /\ Carries(q[1]) THEN Len(q) ELSE 0

Held(m, id) == IF Mirrors(m, id) /\ IsData(m[1]) THEN Len(m[1].msgs) ELSE 0

\* A side of the stream is ended, and not by a reset.
EndsIn(frames) ==
    \E k \in DOMAIN frames : frames[k].end /\ frames[k].kind # "reset"

Flow(frames, q, m, live, id, h) ==
    LET all == MessagesIn(frames) IN
    /\ h + Waiting(q, id) <= Len(all)
    /\ live => h + Waiting(q, id) + Held(m, id) = Len(all)
    /\ \A i \in 1 .. Waiting(q, id) : q[i].message = <<all[h + i]>>
    /\ \A i \in 1 .. Held(m, id) :
          m[1].msgs[i] = all[Len(all) - Held(m, id) + i]
    /\ Mirrors(m, id) => frames # << >> /\ m[1] = frames[Len(frames)]
    /\ Queues(q, id) => frames # << >>
    /\ \A i \in DOMAIN q :
          Queues(q, id) /\ q[i].end /\ q[i].kind # "reset" =>
              EndsIn(frames) /\ h + Waiting(q, id) = Len(all)

\* The request headers of the stream open it: while they are on their way
\* nothing else of the stream was handled.
Opens(frames, q, m, id, routed, h) ==
    /\ frames # << >> => /\ frames[1].kind = "headers"
                         /\ frames[1].path \in {"grpc", "other"}
    /\ routed = "first" => frames # << >>
    /\ Mirrors(m, id) /\ m[1].kind = "headers" =>
          m[1] = frames[1] /\ routed # "first" /\ h = 0 /\ ~Queues(q, id)
    /\ Queues(q, id) /\ q[1].kind = "headers" =>
          q[1] = frames[1] /\ routed # "first" /\ h = 0

\* The messages of a kind that are noted of a stream.
Kept(s, kind) == MessagesOf(FramesOf(s, kind))

\* Of a stream that is followed, the messages handled are the ones noted: all
\* that the client sent, and the half-close after them...
ClosedAfterSends(s) ==
    \A i \in DOMAIN s.events :
        s.events[i][1] = "half_close" =>
            /\ s.sawHalfClose
            /\ \A j \in DOMAIN FramesOf(s, "send") :
                  FramesOf(s, "send")[j].seq < i - 1

TracksUp(s, frames, h) ==
    /\ IsSeq(s.events)
    /\ ~s.service => s = NewRecStream
    /\ s.service => /\ Len(Kept(s, "send")) = h
                    /\ \A i \in 1 .. h :
                          Kept(s, "send")[i] = MessagesIn(frames)[i]
    /\ s.service /\ ~s.compressed =>
          frames[1].path = "grpc" /\ frames[1].encoding = "identity"
    /\ s.sawHalfClose => EndsIn(frames) /\ h = Len(MessagesIn(frames))
    /\ ClosedAfterSends(s)

\* ... and the last ones that the server sent, or all of them if the request
\* headers were handled first.
TracksDown(s, frames, routed, h) ==
    /\ s.service =>
          /\ Len(Kept(s, "recv")) <= h
          /\ \A i \in 1 .. Len(Kept(s, "recv")) :
                Kept(s, "recv")[i] =
                    MessagesIn(frames)[h - Len(Kept(s, "recv")) + i]
    /\ routed = "none" => h = 0
    /\ routed = "first" /\ s.service => Len(Kept(s, "recv")) = h

\* Nothing is lost in a direction.
Live(d) == pipe[d] = "open" /\ dec[d].at # "gone"

Upward(id) ==
    \E h \in Nat :
        /\ Flow(sent[id], dec["up"].queued, mirror["up"], Live("up"), id, h)
        /\ Opens(sent[id], dec["up"].queued, mirror["up"], id, routing[id], h)
        /\ TracksUp(streams[id], sent[id], h)

Downward(id) ==
    \E h \in Nat :
        /\ Flow(replied[id], dec["down"].queued, mirror["down"], Live("down"), id, h)
        /\ TracksDown(streams[id], replied[id], routing[id], h)

Wired ==
    /\ DOMAIN replied = Ids /\ DOMAIN routing = Ids
    /\ \A id \in Ids : FramesOK(sent[id]) /\ FramesOK(replied[id])
    /\ \A d \in Directions :
          /\ QueueOK(dec[d].queued)
          /\ dec[d].at = "preface" /\ mirror[d] # << >> =>
                mirror[d][1].kind = "preface"
    /\ dec["down"].at # "preface"

\* What SavedPairIsOneCall says of a pair, place by place.
PairOK(up, down, pair) ==
    /\ up[1].path = "grpc" /\ up[1].encoding = "identity"
    /\ IsSeq(MessagesOf(pair.sends))
    /\ Len(MessagesOf(pair.sends)) <= Len(MessagesIn(up))
    /\ Segment(MessagesOf(pair.sends), MessagesIn(up), 0)
    /\ IsSeq(MessagesOf(pair.recvs))
    /\ \E k \in Nat : /\ k + Len(MessagesOf(pair.recvs)) <= Len(MessagesIn(down))
                      /\ Segment(MessagesOf(pair.recvs), MessagesIn(down), k)
    /\ pair.halfClose # {} =>
           /\ EndsIn(up)
           /\ Len(MessagesOf(pair.sends)) = Len(MessagesIn(up))
           /\ \A q \in pair.halfClose, j \in DOMAIN pair.sends : pair.sends[j].seq < q

PairsOK ==
    \A i \in DOMAIN saved :
        PairOK(sent[saved[i].id], replied[saved[i].id], saved[i].pair)

CallInv ==
    /\ Wired /\ PairsOK
    /\ \A id \in Ids : Upward(id)
    /\ \A id \in Ids : Downward(id)

-----------------------------------------------------------------------------
(***************************************************************************)
(* The messages of a stream on their way.                                  *)
(***************************************************************************)

\* The counts are numbers.
LEMMA Counts ==
    ASSUME NEW q, NEW m, NEW id, IsSeq(q),
           m = << >> \/ \E f : FrameOK(f) /\ m = <<f>>
    PROVE  Waiting(q, id) \in Nat /\ Held(m, id) \in Nat
<1>1. Len(q) \in Nat
  BY AppendFacts
<1>2. CASE m = << >>
  BY <1>1, <1>2 DEF Waiting, Held, Mirrors
<1>3. ASSUME NEW f, FrameOK(f), m = <<f>>
      PROVE  Waiting(q, id) \in Nat /\ Held(m, id) \in Nat
  <2>1. m[1] = f
    BY <1>3
  <2>2. IsData(f) => Len(f.msgs) \in Nat
    <3>1. IsData(f) => IsSeq(f.msgs)
      BY <1>3 DEF FrameOK, IsData
    <3> QED
      BY <3>1, AppendFacts
  <2> QED
    BY <1>1, <2>1, <2>2 DEF Waiting, Held
<1> QED
  BY <1>2, <1>3

\* A frame is written: it is the last one, and it is in the mirror.
LEMMA FlowWrites ==
    ASSUME NEW frames, NEW q, NEW live, NEW id, NEW h \in Nat, NEW f,
           FramesOK(frames), IsSeq(q), FrameOK(f), f.kind # "preface", f.id = id,
           IsData(f) => ~Ended(frames), Flow(frames, q, << >>, live, id, h)
    PROVE  Flow(Append(frames, f), q, <<f>>, live, id, h)
<1>1. PICK all, more, new :
          /\ all = MessagesIn(frames) /\ new = Append(frames, f)
          /\ more = MessagesIn(new)
  OBVIOUS
<1>2. IsData(f) => IsSeq(f.msgs)
  BY DEF FrameOK, IsData
<1>3. /\ Len(all) \in Nat /\ Len(more) \in Nat
      /\ ~IsData(f) => more = all
      /\ IsData(f) => Len(f.msgs) \in Nat /\ Len(more) = Len(all) + Len(f.msgs)
      /\ \A i \in 1 .. Len(all) : more[i] = all[i]
      /\ IsData(f) => \A i \in 1 .. Len(f.msgs) : more[Len(all) + i] = f.msgs[i]
  <2>1. Grows(all, more, f)
    BY <1>1, <1>2, MessagesGrow
  <2> QED
    BY <2>1 DEF Grows
<1>4. IsSeq(frames)
  BY DEF FramesOK
<1>5. /\ new # << >> /\ new[Len(new)] = f
      /\ DOMAIN new = 1 .. Len(frames) + 1 /\ DOMAIN frames = 1 .. Len(frames)
      /\ Len(frames) \in Nat
      /\ \A i \in 1 .. Len(frames) : new[i] = frames[i]
  BY <1>1, <1>4, AppendFacts
<1>6. Held(<< >>, id) = 0
  BY DEF Held, Mirrors
<1>7. /\ <<f>>[1] = f /\ Mirrors(<<f>>, id)
      /\ Held(<<f>>, id) = IF IsData(f) THEN Len(f.msgs) ELSE 0
  BY DEF Held, Mirrors
<1>8. PICK w, k : w = Waiting(q, id) /\ k = Held(<<f>>, id)
  OBVIOUS
<1>9. w \in Nat /\ k \in Nat /\ Len(more) = Len(all) + k
  BY <1>2, <1>3, <1>7, <1>8, Counts
<1>10. /\ h + w <= Len(all)
       /\ live => h + w = Len(all)
       /\ \A i \in 1 .. w : q[i].message = <<all[h + i]>>
  <2>1. /\ h + w <= Len(all)
        /\ live => h + w + Held(<< >>, id) = Len(all)
        /\ \A i \in 1 .. w : q[i].message = <<all[h + i]>>
    BY <1>1, <1>8 DEF Flow
  <2>2. h + w + 0 = h + w
    BY <1>9
  <2> QED
    BY <1>6, <2>1, <2>2
<1>11. /\ h + w <= Len(more)
       /\ live => h + w + k = Len(more)
  BY <1>3, <1>9, <1>10
<1>12. \A i \in 1 .. w : q[i].message = <<more[h + i]>>
  <2> SUFFICES ASSUME NEW i \in 1 .. w PROVE q[i].message = <<more[h + i]>>
    OBVIOUS
  <2>1. h + i \in 1 .. Len(all)
    BY <1>3, <1>9, <1>10
  <2> QED
    BY <1>3, <1>10, <2>1
<1>13. \A i \in 1 .. k : <<f>>[1].msgs[i] = more[Len(more) - k + i]
  <2> SUFFICES ASSUME NEW i \in 1 .. k PROVE f.msgs[i] = more[Len(more) - k + i]
    BY <1>7
  <2>1. IsData(f) /\ k = Len(f.msgs)
    BY <1>7, <1>8
  <2>2. Len(more) - k + i = Len(all) + i
    BY <1>3, <1>9
  <2> QED
    BY <1>3, <2>1, <2>2
<1>14. EndsIn(frames) => EndsIn(new) /\ ~IsData(f)
  <2>1. EndsIn(frames) => Ended(frames)
    BY DEF EndsIn, Ended
  <2>2. EndsIn(frames) => EndsIn(new)
    <3> SUFFICES ASSUME EndsIn(frames) PROVE EndsIn(new)
      OBVIOUS
    <3>1. PICK k2 \in DOMAIN frames : frames[k2].end /\ frames[k2].kind # "reset"
      BY DEF EndsIn
    <3>2. k2 \in DOMAIN new /\ new[k2] = frames[k2]
      BY <1>5
    <3> QED
      BY <3>1, <3>2 DEF EndsIn
  <2> QED
    BY <2>1, <2>2
<1>15. \A i \in DOMAIN q : Queues(q, id) /\ q[i].end /\ q[i].kind # "reset" =>
          EndsIn(new) /\ h + w = Len(more)
  <2>1. \A i \in DOMAIN q : Queues(q, id) /\ q[i].end /\ q[i].kind # "reset" =>
          EndsIn(frames) /\ h + w = Len(all)
    BY <1>1, <1>8 DEF Flow
  <2> QED
    BY <1>3, <1>14, <2>1
<1> QED
  BY <1>1, <1>5, <1>7, <1>8, <1>11, <1>12, <1>13, <1>15 DEF Flow

\* What a direction loses, or what it does for other streams, leaves the
\* messages of this one where they are.
LEMMA FlowStays ==
    ASSUME NEW frames, NEW q, NEW m, NEW n, NEW live, NEW alive, NEW id, NEW h,
           Flow(frames, q, m, live, id, h), alive => live,
           \/ n = m
           \/ n = << >> /\ ~alive
           \/ ~Mirrors(m, id) /\ ~Mirrors(n, id)
    PROVE  Flow(frames, q, n, alive, id, h)
<1>1. CASE n = m
  BY <1>1 DEF Flow
<1>2. CASE n = << >> /\ ~alive
  <2>1. ~Mirrors(n, id) /\ Held(n, id) = 0
    BY <1>2 DEF Held, Mirrors
  <2> QED
    BY <1>2, <2>1 DEF Flow
<1>3. CASE ~Mirrors(m, id) /\ ~Mirrors(n, id)
  <2>1. Held(n, id) = 0 /\ Held(m, id) = 0
    BY <1>3 DEF Held
  <2> QED
    BY <1>3, <2>1 DEF Flow
<1> QED
  BY <1>1, <1>2, <1>3

\* The events of a frame.
LEMMA EventsOfFrame ==
    ASSUME NEW f, FrameOK(f), f.kind # "preface", NEW id
    PROVE  LET evs == WireEvents(f) IN
           /\ IsSeq(evs) /\ QueueOK(evs)
           /\ Queues(evs, id) => f.id = id
           /\ Queues(evs, id) /\ ~IsData(f) => evs[1] = f
           /\ Waiting(evs, id) = IF f.id = id /\ IsData(f) THEN Len(f.msgs) ELSE 0
           /\ IsData(f) => \A i \in 1 .. Len(f.msgs) : evs[i].message = <<f.msgs[i]>>
           /\ \A i \in DOMAIN evs : evs[i].end => f.end
           /\ \A i \in DOMAIN evs : evs[i].kind # "message" => evs[i] = f
           /\ IsData(f) => \A i \in DOMAIN evs : evs[i].kind = "message"
<1>1. PICK evs : evs = WireEvents(f)
  OBVIOUS
<1>2. IsSeq(evs)
  BY <1>1, WireEventsOK
<1>3. DOMAIN evs = 1 .. Len(evs) /\ Len(evs) \in Nat
  BY <1>2, AppendFacts
<1>4. CASE ~IsData(f)
  <2>1. evs = <<f>>
    BY <1>1, <1>4 DEF WireEvents, IsData
  <2>2. evs[1] = f /\ Len(evs) = 1 /\ DOMAIN evs = {1} /\ evs # << >>
    BY <2>1, ShortSeqs
  <2>3. ~Carries(f)
    BY DEF Carries, FrameOK
  <2>4. QueueOK(evs) /\ Waiting(evs, id) = 0
    BY <2>2, <2>3 DEF QueueOK, Waiting
  <2> QED
    BY <1>1, <1>2, <1>4, <2>2, <2>4 DEF Queues
<1>5. CASE IsData(f) /\ f.msgs = << >> /\ f.end
  <2> DEFINE e == [id |-> f.id, kind |-> "message", message |-> << >>, end |-> TRUE]
  <2>1. evs = <<e>>
    BY <1>1, <1>5 DEF WireEvents, IsData
  <2>2. e.id = f.id /\ e.kind = "message" /\ e.message = << >>
    OBVIOUS
  <2> HIDE DEF e
  <2>3. evs[1] = e /\ Len(evs) = 1 /\ DOMAIN evs = {1} /\ evs # << >>
    BY <2>1, ShortSeqs
  <2>4. QueueOK(evs) /\ Waiting(evs, id) = 0
    BY <2>2, <2>3 DEF QueueOK, Waiting, Carries
  <2>5. Len(f.msgs) = 0
    BY <1>5
  <2> QED
    BY <1>1, <1>2, <1>5, <2>2, <2>3, <2>4, <2>5 DEF Queues
<1>6. CASE IsData(f) /\ f.msgs = << >> /\ ~f.end
  <2>1. evs = << >>
    BY <1>1, <1>6 DEF WireEvents, IsData
  <2>2. DOMAIN evs = {} /\ ~Queues(evs, id)
    BY <2>1, ShortSeqs DEF Queues
  <2>3. QueueOK(evs) /\ Waiting(evs, id) = 0
    BY <2>2 DEF QueueOK, Waiting
  <2>4. Len(f.msgs) = 0
    BY <1>6
  <2> QED
    BY <1>1, <1>2, <1>6, <2>2, <2>3, <2>4
<1>7. CASE IsData(f) /\ f.msgs # << >>
  <2> DEFINE e(i) == [id |-> f.id, kind |-> "message", message |-> <<f.msgs[i]>>,
                      end |-> f.end /\ i = Len(f.msgs)]
  <2>1. evs = [i \in DOMAIN f.msgs |-> e(i)]
    BY <1>1, <1>7 DEF WireEvents, IsData
  <2>2. IsSeq(f.msgs)
    BY <1>7 DEF FrameOK, IsData
  <2>3. DOMAIN f.msgs = 1 .. Len(f.msgs) /\ Len(f.msgs) \in Nat
    BY <2>2, AppendFacts
  <2>4. 1 \in DOMAIN f.msgs
    BY <1>7, <2>2, TailFacts
  <2>5. \A i : /\ e(i).id = f.id /\ e(i).kind = "message"
               /\ e(i).message = <<f.msgs[i]>>
               /\ e(i).end => f.end /\ i = Len(f.msgs)
    OBVIOUS
  <2> HIDE DEF e
  <2>6. DOMAIN evs = DOMAIN f.msgs /\ \A i \in DOMAIN f.msgs : evs[i] = e(i)
    BY <2>1
  <2>7. Len(evs) = Len(f.msgs)
    BY <1>3, <2>3, <2>6
  <2>8. \A i \in DOMAIN evs : Carries(evs[i])
    BY <2>5, <2>6, ShortSeqs DEF Carries
  <2>9. QueueOK(evs)
    BY <2>4, <2>5, <2>6, <2>7, <2>8 DEF QueueOK
  <2>10. evs # << >>
    BY <2>4, <2>6, ShortSeqs
  <2>11. Queues(evs, id) <=> f.id = id
    BY <2>4, <2>5, <2>6, <2>10 DEF Queues
  <2>12. Waiting(evs, id) = IF f.id = id THEN Len(f.msgs) ELSE 0
    BY <2>4, <2>6, <2>7, <2>8, <2>11 DEF Waiting
  <2> QED
    BY <1>1, <1>2, <1>7, <2>3, <2>5, <2>6, <2>9, <2>11, <2>12
<1> QED
  BY <1>4, <1>5, <1>6, <1>7

\* A frame is taken from the mirror to the queue.
LEMMA FlowTakes ==
    ASSUME NEW frames, NEW id, NEW h \in Nat, NEW f, NEW alive,
           FramesOK(frames), FrameOK(f), f.kind # "preface",
           Flow(frames, << >>, <<f>>, TRUE, id, h)
    PROVE  Flow(frames, WireEvents(f), << >>, alive, id, h)
<1>1. PICK evs, all : evs = WireEvents(f) /\ all = MessagesIn(frames)
  OBVIOUS
<1>2. Len(all) \in Nat
  BY <1>1, MessagesAreSeq, AppendFacts
<1>3. /\ Queues(evs, id) => f.id = id
      /\ Waiting(evs, id) = IF f.id = id /\ IsData(f) THEN Len(f.msgs) ELSE 0
      /\ IsData(f) => \A i \in 1 .. Len(f.msgs) : evs[i].message = <<f.msgs[i]>>
      /\ \A i \in DOMAIN evs : evs[i].end => f.end
      /\ \A i \in DOMAIN evs : evs[i].kind # "message" => evs[i] = f
      /\ IsData(f) => \A i \in DOMAIN evs : evs[i].kind = "message"
  BY <1>1, EventsOfFrame
<1>4. <<f>>[1] = f /\ (Mirrors(<<f>>, id) <=> f.id = id)
  BY DEF Mirrors
<1>5. Held(<<f>>, id) = Waiting(evs, id)
  BY <1>3, <1>4 DEF Held
<1>6. Waiting(<< >>, id) = 0 /\ Held(<< >>, id) = 0 /\ ~Mirrors(<< >>, id)
  BY DEF Waiting, Held, Mirrors, Queues
<1>7. PICK w : w = Waiting(evs, id)
  OBVIOUS
<1>8. w \in Nat
  <2>1. IsData(f) => IsSeq(f.msgs)
    BY DEF FrameOK, IsData
  <2> QED
    BY <1>3, <1>7, <2>1, AppendFacts
<1>9. h + w = Len(all)
  BY <1>1, <1>2, <1>5, <1>6, <1>7, <1>8 DEF Flow
<1>10. \A i \in 1 .. w : evs[i].message = <<all[h + i]>>
  <2> SUFFICES ASSUME NEW i \in 1 .. w PROVE evs[i].message = <<all[h + i]>>
    OBVIOUS
  <2>1. IsData(f) /\ w = Len(f.msgs)
    BY <1>3, <1>7, <1>8
  <2>2. <<f>>[1].msgs[i] = all[Len(all) - w + i]
    BY <1>1, <1>5, <1>7 DEF Flow
  <2>3. Len(all) - w + i = h + i
    BY <1>2, <1>8, <1>9
  <2> QED
    BY <1>3, <1>4, <2>1, <2>2, <2>3
<1>11. Queues(evs, id) => frames # << >> /\ f = frames[Len(frames)]
  BY <1>3, <1>4 DEF Flow
<1>12. \A i \in DOMAIN evs :
          Queues(evs, id) /\ evs[i].end /\ evs[i].kind # "reset" => EndsIn(frames)
  <2> SUFFICES ASSUME NEW i \in DOMAIN evs, Queues(evs, id), evs[i].end,
                      evs[i].kind # "reset"
               PROVE  EndsIn(frames)
    OBVIOUS
  <2>1. f.end /\ f.kind # "reset"
    <3>1. f.kind = "reset" => evs[i] = f
      <4>1. f.kind = "reset" => ~IsData(f)
        BY DEF IsData
      <4>2. CASE evs[i].kind # "message"
        BY <1>3, <4>2
      <4>3. CASE ~IsData(f)
        <5>1. evs = <<f>>
          BY <1>1, <4>3 DEF WireEvents, IsData
        <5> QED
          BY <5>1, ShortSeqs
      <4> QED
        BY <4>1, <4>3
    <3> QED
      BY <1>3, <3>1
  <2>2. Len(frames) \in DOMAIN frames
    <3>1. IsSeq(frames) /\ frames # << >>
      BY <1>11 DEF FramesOK
    <3>2. DOMAIN frames = 1 .. Len(frames) /\ 1 \in DOMAIN frames /\ Len(frames) \in Nat
      BY <3>1, TailFacts
    <3> QED
      BY <3>2
  <2> QED
    BY <1>11, <2>1, <2>2 DEF EndsIn
<1> QED
  <2>1. /\ h + w <= Len(all) /\ (alive => h + w + 0 = Len(all))
    BY <1>2, <1>8, <1>9
  <2>2. \A i \in 1 .. 0 : << >>[1].msgs[i] = all[Len(all) - 0 + i]
    OBVIOUS
  <2> QED
    BY <1>1, <1>6, <1>7, <1>9, <1>10, <1>11, <1>12, <2>1, <2>2 DEF Flow

\* The first event of the queue is handled.
LEMMA TailOK ==
    ASSUME NEW q, IsSeq(q), QueueOK(q), q # << >>, NEW id
    PROVE  /\ IsSeq(Tail(q)) /\ QueueOK(Tail(q))
           /\ Queues(Tail(q), id) => Queues(q, id) /\ Carries(q[1])
           /\ Tail(q) # << >> => Carries(Tail(q)[1])
           /\ Waiting(q, id) \in Nat
           /\ Waiting(Tail(q), id) =
                 IF Queues(q, id) /\ Carries(q[1]) THEN Waiting(q, id) - 1 ELSE 0
<1>1. PICK t : t = Tail(q)
  OBVIOUS
<1>2. /\ IsSeq(t) /\ Len(q) \in Nat /\ 1 \in DOMAIN q /\ DOMAIN q = 1 .. Len(q)
      /\ Len(t) = Len(q) - 1 /\ DOMAIN t = 1 .. Len(q) - 1
      /\ \A i \in 1 .. Len(q) - 1 : t[i] = q[i + 1]
      /\ Len(q) = 1 => t = << >>
  BY <1>1, TailFacts
<1>3. \A i \in DOMAIN q : q[i].id = q[1].id /\ (~Carries(q[i]) => Len(q) = 1)
                          /\ (q[i].end => i = Len(q))
  BY DEF QueueOK
<1>4. \A i \in DOMAIN t : /\ i + 1 \in DOMAIN q /\ t[i] = q[i + 1] /\ 1 \in DOMAIN t
                          /\ Len(q) # 1 /\ i \in Nat
  BY <1>2
<1>5. t # << >> => 1 \in DOMAIN t
  BY <1>2, TailFacts
<1>6. \A i \in DOMAIN t : t[i].id = t[1].id /\ (~Carries(t[i]) => Len(t) = 1)
                          /\ (t[i].end => i = Len(t))
  <2> SUFFICES ASSUME NEW i \in DOMAIN t
               PROVE  /\ t[i].id = t[1].id /\ (~Carries(t[i]) => Len(t) = 1)
                      /\ (t[i].end => i = Len(t))
    OBVIOUS
  <2>1. t[i] = q[i + 1] /\ t[1] = q[1 + 1] /\ i + 1 \in DOMAIN q /\ 1 + 1 \in DOMAIN q
    BY <1>4
  <2>2. t[i].id = t[1].id /\ Carries(t[i])
    BY <1>3, <1>4, <2>1
  <2>3. t[i].end => i + 1 = Len(q)
    BY <1>3, <2>1
  <2> QED
    BY <1>2, <1>4, <2>2, <2>3
<1>7. QueueOK(t)
  BY <1>6 DEF QueueOK
<1>8. t # << >> => t[1].id = q[1].id /\ Carries(t[1]) /\ Carries(q[1])
  <2> SUFFICES ASSUME t # << >> PROVE t[1].id = q[1].id /\ Carries(t[1]) /\ Carries(q[1])
    OBVIOUS
  <2>1. t[1] = q[1 + 1] /\ 1 + 1 \in DOMAIN q /\ Len(q) # 1
    BY <1>4, <1>5
  <2> QED
    BY <1>2, <1>3, <2>1
<1>9. Waiting(t, id) = IF Queues(q, id) /\ Carries(q[1]) THEN Len(q) - 1 ELSE 0
  <2>1. CASE t = << >>
    <3>1. Len(t) = 0
      BY <2>1
    <3>2. Waiting(t, id) = 0
      BY <2>1 DEF Waiting, Queues
    <3>3. Len(q) - 1 = 0
      BY <1>2, <3>1
    <3> QED
      BY <3>2, <3>3
  <2>2. CASE t # << >>
    BY <1>2, <1>8, <2>2 DEF Waiting, Queues
  <2> QED
    BY <2>1, <2>2
<1> QED
  BY <1>1, <1>2, <1>7, <1>8, <1>9 DEF Queues, Waiting

LEMMA FlowHandles ==
    ASSUME NEW frames, NEW q, NEW m, NEW live, NEW id, NEW h \in Nat,
           FramesOK(frames), IsSeq(q), QueueOK(q), q # << >>,
           Flow(frames, q, m, live, id, h),
           NEW g, g = IF Queues(q, id) /\ Carries(q[1]) THEN h + 1 ELSE h
    PROVE  Flow(frames, Tail(q), m, live, id, g)
<1>1. PICK t, all : t = Tail(q) /\ all = MessagesIn(frames)
  OBVIOUS
<1>2. PICK w, v : w = Waiting(q, id) /\ v = Waiting(t, id)
  OBVIOUS
<1>3. /\ Queues(t, id) => Queues(q, id) /\ Carries(q[1])
      /\ w \in Nat
      /\ v = IF Queues(q, id) /\ Carries(q[1]) THEN w - 1 ELSE 0
  BY <1>1, <1>2, TailOK
<1>4. /\ Len(q) \in Nat /\ 1 \in DOMAIN q /\ DOMAIN q = 1 .. Len(q)
      /\ Len(t) = Len(q) - 1 /\ DOMAIN t = 1 .. Len(q) - 1
      /\ \A i \in 1 .. Len(q) - 1 : t[i] = q[i + 1]
  BY <1>1, TailFacts
<1>5. Queues(q, id) /\ Carries(q[1]) => w = Len(q)
  BY <1>2 DEF Waiting
<1>6. ~(Queues(q, id) /\ Carries(q[1])) => w = 0
  BY <1>2 DEF Waiting
<1>7. g \in Nat /\ v \in Nat /\ g + v = h + w
  <2>1. CASE Queues(q, id) /\ Carries(q[1])
    <3>1. v = w - 1 /\ w \in Nat
      BY <1>3, <2>1
    <3>2. g = h + 1
      BY <2>1
    <3>3. w = Len(q)
      BY <1>5, <2>1
    <3>4. Len(q) # 0
      BY <1>4
    <3> QED
      BY <3>1, <3>2, <3>3, <3>4
  <2>2. CASE ~(Queues(q, id) /\ Carries(q[1]))
    <3>1. v = 0 /\ w = 0 /\ g = h
      BY <1>3, <1>6, <2>2
    <3> QED
      BY <3>1
  <2> QED
    BY <2>1, <2>2
<1>8. \A i \in 1 .. v : t[i].message = <<all[g + i]>>
  <2> SUFFICES ASSUME NEW i \in 1 .. v PROVE t[i].message = <<all[g + i]>>
    OBVIOUS
  <2>1. /\ Queues(q, id) /\ Carries(q[1]) /\ v = w - 1 /\ g = h + 1
        /\ i \in 1 .. Len(q) - 1 /\ i + 1 \in 1 .. w
    <3>1. v # 0 /\ v \in Nat
      BY <1>7
    <3>2. Queues(q, id) /\ Carries(q[1])
      BY <1>3, <3>1
    <3>3. v = w - 1 /\ g = h + 1 /\ w = Len(q)
      BY <1>3, <1>5, <3>2
    <3> QED
      BY <1>3, <1>4, <3>2, <3>3
  <2>2. q[i + 1].message = <<all[h + (i + 1)]>>
    BY <1>1, <1>2, <2>1 DEF Flow
  <2>3. h + (i + 1) = g + i
    BY <2>1
  <2> QED
    BY <1>4, <2>1, <2>2, <2>3
<1>9. \A i \in DOMAIN t :
          Queues(t, id) /\ t[i].end /\ t[i].kind # "reset" =>
              EndsIn(frames) /\ g + v = Len(all)
  <2> SUFFICES ASSUME NEW i \in DOMAIN t, Queues(t, id), t[i].end, t[i].kind # "reset"
               PROVE  EndsIn(frames) /\ g + v = Len(all)
    OBVIOUS
  <2>1. t[i] = q[i + 1] /\ i + 1 \in DOMAIN q
    BY <1>4
  <2> QED
    BY <1>1, <1>2, <1>3, <1>7, <2>1 DEF Flow
<1>10. Queues(t, id) => frames # << >>
  BY <1>3 DEF Flow
<1>11. g + v <= Len(all) /\ (live => g + v + Held(m, id) = Len(all))
  BY <1>1, <1>2, <1>7 DEF Flow
<1> QED
  BY <1>1, <1>2, <1>8, <1>9, <1>10, <1>11 DEF Flow

\* The decoder stops at an event without a message: no other is in its queue.
LEMMA FlowStops ==
    ASSUME NEW frames, NEW q, NEW m, NEW live, NEW id, NEW h \in Nat,
           FramesOK(frames), IsSeq(q), QueueOK(q), q # << >>, ~Carries(q[1]),
           Flow(frames, q, m, live, id, h)
    PROVE  Flow(frames, << >>, m, FALSE, id, h)
<1>1. Waiting(q, id) = 0 /\ Waiting(<< >>, id) = 0 /\ ~Queues(<< >>, id)
  BY DEF Waiting, Queues
<1>2. DOMAIN << >> = {}
  OBVIOUS
<1> QED
  BY <1>1, <1>2 DEF Flow

-----------------------------------------------------------------------------
(***************************************************************************)
(* The request headers on their way.                                       *)
(***************************************************************************)

\* A client opens a stream with headers and then sends no others, and no
\* messages after the end.
LEMMA ClientFramesFollow ==
    ASSUME NEW id \in Ids, NEW f \in ClientFrames(id)
    PROVE  /\ sent[id] = << >> => f.kind = "headers" /\ f.path \in {"grpc", "other"}
           /\ IsData(f) => ~Ended(sent[id])
<1>1. CASE sent[id] = << >>
  <2>1. \/ \E end \in BOOLEAN : f = Headers(id, "grpc", "identity", "none", end)
        \/ \E encoding \in Encodings : f = Headers(id, "grpc", encoding, "none", FALSE)
        \/ \E path \in Paths : f = Headers(id, path, "identity", "none", FALSE)
    BY <1>1 DEF ClientFrames
  <2>2. \A path \in Paths : path \in {"grpc", "other"}
    BY TapAssumption
  <2> QED
    BY <1>1, <2>1, <2>2 DEF Headers, IsData
<1>2. CASE sent[id] # << >>
  <2>1. Ended(sent[id]) => f = Reset(id)
    BY <1>2 DEF ClientFrames, Resets
  <2> QED
    BY <1>2, <2>1 DEF Reset, IsData
<1> QED
  BY <1>1, <1>2

\* Neither does a server.
LEMMA ServerFramesFollow ==
    ASSUME NEW id \in Ids, NEW f \in ServerFrames(id)
    PROVE  f.kind # "preface" /\ (IsData(f) => ~Ended(replied[id]))
<1>1. \/ \E encoding, status, end : f = Headers(id, "none", encoding, status, end)
      \/ f = Reset(id)
      \/ /\ ~Ended(replied[id])
         /\ \E msgs \in NextMessages("down", id, replied[id], MaxRecvs) :
               f = Data(id, msgs, FALSE)
  BY DEF ServerFrames, Resets
<1> QED
  BY <1>1 DEF Headers, Data, Reset, IsData

LEMMA OpensWrites ==
    ASSUME NEW frames, NEW q, NEW live, NEW id, NEW routed, NEW h \in Nat, NEW f,
           FramesOK(frames), IsSeq(q), f.kind # "preface",
           Flow(frames, q, << >>, live, id, h),
           Opens(frames, q, << >>, id, routed, h),
           frames = << >> => f.kind = "headers" /\ f.path \in {"grpc", "other"},
           f.kind = "headers" => frames = << >>
    PROVE  Opens(Append(frames, f), q, <<f>>, id, routed, h)
<1>1. PICK new : new = Append(frames, f)
  OBVIOUS
<1>2. /\ IsSeq(frames) /\ Len(frames) \in Nat /\ DOMAIN frames = 1 .. Len(frames)
      /\ new # << >> /\ \A i \in 1 .. Len(frames) : new[i] = frames[i]
      /\ new[Len(frames) + 1] = f
  BY <1>1, AppendFacts DEF FramesOK
<1>3. <<f>>[1] = f
  OBVIOUS
<1>4. CASE frames = << >>
  <2>1. Len(frames) = 0
    BY <1>4
  <2>2. new[1] = f
    BY <1>2, <2>1
  <2>3. ~Queues(q, id)
    BY <1>4 DEF Flow
  <2>4. h = 0
    <3>1. MessagesIn(frames) = << >>
      BY <1>4, NoMessages
    <3>2. Len(MessagesIn(frames)) = 0
      BY <3>1
    <3>3. Waiting(q, id) = 0
      BY <2>3 DEF Waiting
    <3> QED
      BY <3>2, <3>3 DEF Flow
  <2>5. routed # "first"
    BY <1>4 DEF Opens
  <2> QED
    BY <1>1, <1>2, <1>3, <1>4, <2>2, <2>3, <2>4, <2>5 DEF Opens
<1>5. CASE frames # << >>
  <2>1. new[1] = frames[1]
    <3>1. 1 \in 1 .. Len(frames)
      BY <1>2, <1>5, TailFacts
    <3> QED
      BY <1>2, <3>1
  <2>2. f.kind # "headers"
    BY <1>5
  <2> QED
    BY <1>1, <1>2, <1>3, <1>5, <2>1, <2>2 DEF Opens
<1> QED
  BY <1>4, <1>5

LEMMA OpensStays ==
    ASSUME NEW frames, NEW q, NEW m, NEW n, NEW id, NEW routed, NEW reroute, NEW h,
           Opens(frames, q, m, id, routed, h),
           n = m \/ ~Mirrors(n, id),
           reroute = routed \/ reroute = "overtaken"
    PROVE  Opens(frames, q, n, id, reroute, h)
<1>1. reroute = "first" => routed = "first"
  OBVIOUS
<1> QED
  BY <1>1 DEF Opens

LEMMA OpensTakes ==
    ASSUME NEW frames, NEW id, NEW routed, NEW h, NEW f, FrameOK(f), f.kind # "preface",
           Opens(frames, << >>, <<f>>, id, routed, h)
    PROVE  Opens(frames, WireEvents(f), << >>, id, routed, h)
<1>1. PICK evs : evs = WireEvents(f)
  OBVIOUS
<1>2. /\ IsSeq(evs) /\ (Queues(evs, id) => f.id = id)
      /\ \A i \in DOMAIN evs : evs[i].kind # "message" => evs[i] = f
  BY <1>1, EventsOfFrame
<1>3. Queues(evs, id) => 1 \in DOMAIN evs
  BY <1>2, TailFacts DEF Queues
<1>4. Queues(evs, id) /\ evs[1].kind = "headers" => evs[1] = f /\ Mirrors(<<f>>, id)
  BY <1>2, <1>3 DEF Mirrors
<1>5. ~Mirrors(<< >>, id) /\ <<f>>[1] = f
  BY DEF Mirrors
<1>6. Queues(evs, id) /\ evs[1].kind = "headers" =>
        evs[1] = frames[1] /\ routed # "first" /\ h = 0
  BY <1>4, <1>5 DEF Opens
<1> QED
  BY <1>1, <1>5, <1>6 DEF Opens

LEMMA OpensHandles ==
    ASSUME NEW frames, NEW q, NEW t, NEW m, NEW id, NEW routed, NEW reroute, NEW h, NEW g,
           Opens(frames, q, m, id, routed, h),
           t = << >> \/ Carries(t[1]),
           ~Queues(q, id) => reroute = routed /\ g = h /\ ~Queues(t, id),
           Queues(q, id) => frames # << >>
    PROVE  Opens(frames, t, m, id, reroute, g)
<1>1. ~(Queues(t, id) /\ t[1].kind = "headers")
  BY DEF Queues, Carries
<1>2. Mirrors(m, id) /\ m[1].kind = "headers" => ~Queues(q, id)
  BY DEF Opens
<1>3. reroute = "first" => frames # << >>
  BY DEF Opens
<1> QED
  BY <1>1, <1>2, <1>3 DEF Opens

-----------------------------------------------------------------------------
(***************************************************************************)
(* What the tracker notes of a stream.                                     *)
(***************************************************************************)

\* The messages noted are a sequence, and nothing is noted of a new stream.
LEMMA KeptIsSeq ==
    ASSUME NEW s, NEW kind, IsSeq(s.events)
    PROVE  /\ IsSeq(Kept(s, kind)) /\ Len(Kept(s, kind)) \in Nat
           /\ Len(Kept(s, kind)) = Len(FramesOf(s, kind))
           /\ DOMAIN Kept(s, kind) = 1 .. Len(Kept(s, kind))
<1>1. PICK fs, ms : fs = FramesOf(s, kind) /\ ms = Kept(s, kind)
  OBVIOUS
<1>2. IsSeq(fs)
  BY <1>1, FramesAreSeq
<1>3. Len(fs) \in Nat /\ DOMAIN fs = 1 .. Len(fs)
  BY <1>2, AppendFacts
<1>4. ms = [i \in 1 .. Len(fs) |-> fs[i].message]
  BY <1>1, <1>3 DEF Kept, MessagesOf
<1>5. IsSeq(ms) /\ DOMAIN ms = 1 .. Len(fs)
  BY <1>3, <1>4, FunctionIsSeq
<1>6. DOMAIN ms = 1 .. Len(ms) /\ Len(ms) \in Nat
  BY <1>5, AppendFacts
<1>7. Len(ms) = Len(fs)
  BY <1>3, <1>5, <1>6
<1> QED
  BY <1>1, <1>5, <1>6, <1>7

LEMMA NothingKept ==
    ASSUME NEW s, NEW kind, s.events = << >>
    PROVE  Len(Kept(s, kind)) = 0 /\ IsSeq(s.events)
<1>1. IsSeq(s.events)
  BY ShortSeqs
<1>2. FramesOf(s, kind) = << >>
  BY NoFrames
<1> QED
  BY <1>1, <1>2, KeptIsSeq

\* Noting one more event: its message comes last.
Appends(s, t, kind, x) == t.events = Append(s.events, <<kind, x>>)

Longer(old, new, x) ==
    /\ Len(new) = Len(old) + 1
    /\ \A i \in 1 .. Len(old) : new[i] = old[i]
    /\ new[Len(old) + 1] = x

LEMMA KeptAppended ==
    ASSUME NEW s, NEW t, NEW kind, NEW other, NEW x, IsSeq(s.events),
           Appends(s, t, other, x)
    PROVE  /\ IsSeq(t.events)
           /\ other # kind => FramesOf(t, kind) = FramesOf(s, kind)
           /\ other # kind => Kept(t, kind) = Kept(s, kind)
           /\ other = kind => Longer(Kept(s, kind), Kept(t, kind), x)
<1>1. PICK e : e = <<other, x>>
  OBVIOUS
<1>2. e[1] = other /\ e[2] = x
  BY <1>1
<1>3. IsSeq(t.events)
  BY AppendFacts DEF Appends
<1>4. FramesOf(t, kind) = IF other = kind
                          THEN Append(FramesOf(s, kind), StreamFrame(Len(s.events), x))
                          ELSE FramesOf(s, kind)
  <2>1. t.events = Append(s.events, e)
    BY <1>1 DEF Appends
  <2>2. FramesOf(t, kind) = IF e[1] = kind
                            THEN Append(FramesOf(s, kind),
                                        StreamFrame(Len(s.events), e[2]))
                            ELSE FramesOf(s, kind)
    BY <2>1, FramesAppended
  <2> QED
    BY <1>2, <2>2
<1>5. CASE other # kind
  BY <1>3, <1>4, <1>5 DEF Kept
<1>6. CASE other = kind
  <2>1. PICK fs, gs, f : /\ fs = FramesOf(s, kind) /\ gs = FramesOf(t, kind)
                         /\ f = StreamFrame(Len(s.events), x)
    OBVIOUS
  <2>2. gs = Append(fs, f)
    BY <1>4, <1>6, <2>1
  <2>3. IsSeq(fs)
    BY <2>1, FramesAreSeq
  <2>4. /\ Len(gs) = Len(fs) + 1 /\ Len(fs) \in Nat
        /\ DOMAIN gs = 1 .. Len(fs) + 1 /\ DOMAIN fs = 1 .. Len(fs)
        /\ \A i \in 1 .. Len(fs) : gs[i] = fs[i]
        /\ gs[Len(fs) + 1] = f
    BY <2>2, <2>3, AppendFacts
  <2>5. Len(Kept(s, kind)) = Len(fs) /\ Len(Kept(t, kind)) = Len(gs)
    BY <1>3, <2>1, KeptIsSeq
  <2>6. /\ \A i \in 1 .. Len(fs) : Kept(s, kind)[i] = fs[i].message
        /\ \A i \in 1 .. Len(fs) + 1 : Kept(t, kind)[i] = gs[i].message
    BY <2>1, <2>4 DEF Kept, MessagesOf
  <2>7. f.message = x
    BY <2>1 DEF StreamFrame
  <2>8. \A i \in 1 .. Len(fs) : i \in 1 .. Len(fs) + 1
    BY <2>4
  <2>9. Len(fs) + 1 \in 1 .. Len(fs) + 1
    BY <2>4
  <2> QED
    BY <1>3, <1>6, <2>4, <2>5, <2>6, <2>7, <2>8, <2>9 DEF Longer
<1> QED
  BY <1>5, <1>6

\* A stream that is not followed.
LEMMA NewTracks ==
    ASSUME NEW frames, NEW h, NEW routed, routed = "none" => h = 0
    PROVE  TracksUp(NewRecStream, frames, h) /\ TracksDown(NewRecStream, frames, routed, h)
<1>1. PICK s : s = NewRecStream
  OBVIOUS
<1>2. ~s.service /\ ~s.sawHalfClose /\ s.events = << >>
  BY <1>1 DEF NewRecStream
<1>3. IsSeq(s.events) /\ DOMAIN s.events = {}
  BY <1>2, ShortSeqs
<1>4. ClosedAfterSends(s)
  BY <1>3 DEF ClosedAfterSends
<1>5. TracksUp(s, frames, h)
  BY <1>1, <1>2, <1>3, <1>4 DEF TracksUp
<1>6. TracksDown(s, frames, routed, h)
  BY <1>2 DEF TracksDown
<1> QED
  BY <1>1, <1>5, <1>6

\* The tracker begins to follow a stream.
LEMMA UpRoutes ==
    ASSUME NEW t, NEW frames, t.events = << >>, t.service, ~t.sawHalfClose,
           ~t.compressed => frames[1].path = "grpc" /\ frames[1].encoding = "identity"
    PROVE  TracksUp(t, frames, 0)
<1>1. Len(Kept(t, "send")) = 0 /\ IsSeq(t.events)
  BY NothingKept
<1>2. DOMAIN t.events = {}
  BY ShortSeqs
<1>3. ClosedAfterSends(t)
  BY <1>2 DEF ClosedAfterSends
<1>4. \A i \in 1 .. 0 : Kept(t, "send")[i] = MessagesIn(frames)[i]
  OBVIOUS
<1> QED
  BY <1>1, <1>3, <1>4 DEF TracksUp

LEMMA DownRoutes ==
    ASSUME NEW s, NEW t, NEW frames, NEW routed, NEW reroute, NEW h \in Nat,
           Len(Kept(t, "recv")) = 0, TracksDown(s, frames, routed, h),
           routed # "first", reroute = IF routed # "none" THEN routed ELSE "first"
    PROVE  TracksDown(t, frames, reroute, h)
<1>1. routed = "none" => h = 0
  BY DEF TracksDown
<1>2. \A i \in 1 .. 0 : Kept(t, "recv")[i] =
          MessagesIn(frames)[h - Len(Kept(t, "recv")) + i]
  OBVIOUS
<1>3. reroute # "none" /\ (reroute = "first" => routed = "none")
  OBVIOUS
<1> QED
  BY <1>1, <1>2, <1>3 DEF TracksDown

\* It notes a message of the client, or the end of its side.
LEMMA UpSends ==
    ASSUME NEW s, NEW t, NEW frames, NEW h \in Nat, NEW x,
           TracksUp(s, frames, h), s.service, Len(MessagesIn(frames)) \in Nat,
           h + 1 <= Len(MessagesIn(frames)), x = MessagesIn(frames)[h + 1],
           Appends(s, t, "send", x), t.service,
           t.compressed = s.compressed, t.sawHalfClose = s.sawHalfClose
    PROVE  TracksUp(t, frames, h + 1)
<1>1. IsSeq(s.events) /\ ClosedAfterSends(s)
  BY DEF TracksUp
<1>2. ~s.sawHalfClose
  BY DEF TracksUp
<1>3. PICK old, new, all : /\ old = Kept(s, "send") /\ new = Kept(t, "send")
                           /\ all = MessagesIn(frames)
  OBVIOUS
<1>4. /\ IsSeq(t.events)
      /\ Len(new) = Len(old) + 1
      /\ \A i \in 1 .. Len(old) : new[i] = old[i]
      /\ new[Len(old) + 1] = x
  <2>1. IsSeq(t.events) /\ Longer(old, new, x)
    BY <1>1, <1>3, KeptAppended
  <2> QED
    BY <2>1 DEF Longer
<1>5. Len(old) = h /\ \A i \in 1 .. h : old[i] = all[i]
  BY <1>3 DEF TracksUp
<1>6. \A i \in 1 .. h + 1 : new[i] = all[i]
  <2> SUFFICES ASSUME NEW i \in 1 .. h + 1 PROVE new[i] = all[i]
    OBVIOUS
  <2>1. CASE i = h + 1
    BY <1>3, <1>4, <1>5, <2>1
  <2>2. CASE i # h + 1
    <3>1. i \in 1 .. h
      BY <2>2
    <3> QED
      BY <1>4, <1>5, <3>1
  <2> QED
    BY <2>1, <2>2
<1>7. ClosedAfterSends(t)
  <2>1. /\ Len(s.events) \in Nat /\ DOMAIN t.events = 1 .. Len(s.events) + 1
        /\ DOMAIN s.events = 1 .. Len(s.events)
        /\ \A i \in 1 .. Len(s.events) : t.events[i] = s.events[i]
        /\ t.events[Len(s.events) + 1] = <<"send", x>>
    BY <1>1, AppendFacts DEF Appends
  <2>2. \A i \in DOMAIN s.events : s.events[i][1] # "half_close"
    BY <1>1, <1>2 DEF ClosedAfterSends
  <2>3. ASSUME NEW i \in DOMAIN t.events PROVE t.events[i][1] # "half_close"
    <3>1. CASE i = Len(s.events) + 1
      BY <2>1, <3>1
    <3>2. CASE i # Len(s.events) + 1
      <4>1. i \in DOMAIN s.events
        BY <2>1, <3>2
      <4> QED
        BY <2>1, <2>2, <4>1
    <3> QED
      BY <3>1, <3>2
  <2> QED
    BY <2>3 DEF ClosedAfterSends
<1>8. t.service /\ ~t.compressed =>
          frames[1].path = "grpc" /\ frames[1].encoding = "identity"
  BY DEF TracksUp
<1>9. ~t.sawHalfClose
  BY <1>2
<1> QED
  BY <1>3, <1>4, <1>5, <1>6, <1>7, <1>8, <1>9 DEF TracksUp

LEMMA UpCloses ==
    ASSUME NEW s, NEW frames, NEW h \in Nat, DOMAIN s = RecFields,
           TracksUp(s, frames, h), s.service, EndsIn(frames), h = Len(MessagesIn(frames))
    PROVE  TracksUp(NoteHalfClose(s), frames, h)
<1>1. CASE s.sawHalfClose
  BY <1>1 DEF NoteHalfClose
<1>2. CASE ~s.sawHalfClose
  <2>1. PICK t : t = NoteHalfClose(s)
    OBVIOUS
  <2>2. /\ t.service = s.service /\ t.compressed = s.compressed /\ t.sawHalfClose
        /\ t.events = Append(s.events, <<"half_close", "none">>)
    BY <1>2, <2>1 DEF NoteHalfClose, RecFields
  <2>3. IsSeq(s.events) /\ ClosedAfterSends(s)
    BY DEF TracksUp
  <2>4. /\ IsSeq(t.events) /\ Kept(t, "send") = Kept(s, "send")
        /\ FramesOf(t, "send") = FramesOf(s, "send")
    <3>1. Appends(s, t, "half_close", "none")
      BY <2>2 DEF Appends
    <3>2. "half_close" # "send"
      OBVIOUS
    <3> QED
      BY <2>3, <3>1, <3>2, KeptAppended
  <2>5. /\ Len(s.events) \in Nat /\ DOMAIN t.events = 1 .. Len(s.events) + 1
        /\ DOMAIN s.events = 1 .. Len(s.events)
        /\ \A i \in 1 .. Len(s.events) : t.events[i] = s.events[i]
    BY <2>2, <2>3, AppendFacts
  <2>6. \A i \in DOMAIN s.events : s.events[i][1] # "half_close"
    BY <1>2, <2>3 DEF ClosedAfterSends
  <2>7. \A j \in DOMAIN FramesOf(s, "send") :
            FramesOf(s, "send")[j].seq \in 0 .. Len(s.events) - 1
    BY <2>3, FramesAreSeq
  <2>8. ASSUME NEW i \in DOMAIN t.events, t.events[i][1] = "half_close",
               NEW j \in DOMAIN FramesOf(t, "send")
        PROVE  FramesOf(t, "send")[j].seq < i - 1
    <3>1. i = Len(s.events) + 1
      <4>1. i \notin DOMAIN s.events
        <5>1. ASSUME i \in DOMAIN s.events PROVE t.events[i] = s.events[i]
          BY <2>5, <5>1
        <5> QED
          BY <2>6, <2>8, <5>1
      <4>2. i \in 1 .. Len(s.events) + 1 /\ i \notin 1 .. Len(s.events)
        BY <2>5, <4>1
      <4>3. Len(s.events) \in Nat
        BY <2>5
      <4> QED
        BY <4>2, <4>3
    <3>2. FramesOf(t, "send")[j].seq \in 0 .. Len(s.events) - 1
      BY <2>4, <2>7
    <3>3. PICK n, len : n = FramesOf(t, "send")[j].seq /\ len = Len(s.events)
      OBVIOUS
    <3>4. n \in 0 .. len - 1 /\ len \in Nat /\ i = len + 1
      <4>1. Len(s.events) \in Nat
        BY <2>5
      <4> QED
        BY <3>1, <3>2, <3>3, <4>1
    <3>5. n < i - 1
      BY <3>4
    <3> QED
      BY <3>3, <3>5
  <2>9. ClosedAfterSends(t)
    BY <2>2, <2>8 DEF ClosedAfterSends
  <2> QED
    BY <2>1, <2>2, <2>4, <2>9 DEF TracksUp
<1> QED
  BY <1>1, <1>2

\* It notes a message of the server.
LEMMA UpReceives ==
    ASSUME NEW s, NEW t, NEW frames, NEW h \in Nat, NEW x,
           TracksUp(s, frames, h), s.service,
           Appends(s, t, "recv", x), t.service,
           t.compressed = s.compressed, t.sawHalfClose = s.sawHalfClose
    PROVE  TracksUp(t, frames, h)
<1>1. IsSeq(s.events) /\ ClosedAfterSends(s)
  BY DEF TracksUp
<1>2. /\ IsSeq(t.events) /\ Kept(t, "send") = Kept(s, "send")
      /\ FramesOf(t, "send") = FramesOf(s, "send")
  <2>1. "recv" # "send"
    OBVIOUS
  <2> QED
    BY <1>1, <2>1, KeptAppended
<1>3. /\ Len(s.events) \in Nat /\ DOMAIN t.events = 1 .. Len(s.events) + 1
      /\ DOMAIN s.events = 1 .. Len(s.events)
      /\ \A i \in 1 .. Len(s.events) : t.events[i] = s.events[i]
      /\ t.events[Len(s.events) + 1] = <<"recv", x>>
  BY <1>1, AppendFacts DEF Appends
<1>4. ASSUME NEW i \in DOMAIN t.events, t.events[i][1] = "half_close"
      PROVE  i \in DOMAIN s.events /\ s.events[i][1] = "half_close"
  <2>1. i # Len(s.events) + 1
    BY <1>3, <1>4
  <2> QED
    BY <1>3, <1>4, <2>1
<1>5. ClosedAfterSends(t)
  BY <1>1, <1>2, <1>4 DEF ClosedAfterSends
<1> QED
  BY <1>2, <1>5 DEF TracksUp

LEMMA DownReceives ==
    ASSUME NEW s, NEW t, NEW frames, NEW routed, NEW reroute, NEW h \in Nat, NEW x,
           IsSeq(s.events), TracksDown(s, frames, routed, h), s.service,
           x = MessagesIn(frames)[h + 1],
           Appends(s, t, "recv", x), t.service,
           reroute = IF routed # "none" THEN routed ELSE "overtaken"
    PROVE  TracksDown(t, frames, reroute, h + 1)
<1>1. PICK old, new, all : /\ old = Kept(s, "recv") /\ new = Kept(t, "recv")
                           /\ all = MessagesIn(frames)
  OBVIOUS
<1>2. /\ Len(new) = Len(old) + 1
      /\ \A i \in 1 .. Len(old) : new[i] = old[i]
      /\ new[Len(old) + 1] = x
  <2>1. Longer(old, new, x)
    BY <1>1, KeptAppended
  <2> QED
    BY <2>1 DEF Longer
<1>3. PICK n : n = Len(old)
  OBVIOUS
<1>4. n \in Nat /\ Len(new) = n + 1
  BY <1>1, <1>2, <1>3, KeptIsSeq
<1>5. n <= h /\ \A i \in 1 .. n : old[i] = all[h - n + i]
  BY <1>1, <1>3 DEF TracksDown
<1>6. \A i \in 1 .. n + 1 : new[i] = all[h + 1 - (n + 1) + i]
  <2> SUFFICES ASSUME NEW i \in 1 .. n + 1 PROVE new[i] = all[h + 1 - (n + 1) + i]
    OBVIOUS
  <2>1. CASE i = n + 1
    <3>1. h + 1 - (n + 1) + i = h + 1
      BY <1>4, <2>1
    <3> QED
      BY <1>1, <1>2, <1>3, <2>1, <3>1
  <2>2. CASE i # n + 1
    <3>1. i \in 1 .. n /\ h + 1 - (n + 1) + i = h - n + i
      BY <1>4, <2>2
    <3> QED
      BY <1>2, <1>3, <1>5, <3>1
  <2> QED
    BY <2>1, <2>2
<1>7. n + 1 <= h + 1
  BY <1>4, <1>5
<1>8. reroute # "none" /\ (reroute = "first" => routed = "first")
  OBVIOUS
<1>9. routed = "first" => n = h
  BY <1>1, <1>3 DEF TracksDown
<1>10. reroute = "first" => n + 1 = h + 1
  BY <1>8, <1>9
<1>11. Len(Kept(t, "recv")) = n + 1
  BY <1>1, <1>4
<1>12. \A i \in 1 .. Len(Kept(t, "recv")) :
          Kept(t, "recv")[i] =
              MessagesIn(frames)[h + 1 - Len(Kept(t, "recv")) + i]
  BY <1>1, <1>6, <1>11
<1> QED
  BY <1>7, <1>8, <1>10, <1>11, <1>12 DEF TracksDown

\* An event that is no message of the server leaves those noted alone.
LEMMA DownNotes ==
    ASSUME NEW s, NEW t, NEW frames, NEW routed, NEW reroute, NEW h \in Nat,
           IsSeq(s.events), TracksDown(s, frames, routed, h),
           t.service = s.service, Kept(t, "recv") = Kept(s, "recv"),
           reroute = "none" => routed = "none",
           reroute = "first" => routed \in {"none", "first"}
    PROVE  TracksDown(t, frames, reroute, h)
<1>1. Len(Kept(s, "recv")) \in Nat
  BY KeptIsSeq
<1>2. routed = "none" /\ s.service => Len(Kept(s, "recv")) = h
  BY <1>1 DEF TracksDown
<1> QED
  BY <1>2 DEF TracksDown

\* What was noted stays true when more frames come.
LEMMA UpGrows ==
    ASSUME NEW s, NEW frames, NEW f, NEW h \in Nat, FramesOK(frames), FrameOK(f),
           TracksUp(s, frames, h), h <= Len(MessagesIn(frames)),
           s.service => frames # << >>, IsData(f) => ~Ended(frames)
    PROVE  TracksUp(s, Append(frames, f), h)
<1>1. PICK all, more, new : /\ all = MessagesIn(frames) /\ new = Append(frames, f)
                            /\ more = MessagesIn(new)
  OBVIOUS
<1>2. IsData(f) => IsSeq(f.msgs)
  BY DEF FrameOK, IsData
<1>3. Grows(all, more, f)
  BY <1>1, <1>2, MessagesGrow
<1>4. IsSeq(frames)
  BY DEF FramesOK
<1>5. /\ DOMAIN new = 1 .. Len(frames) + 1 /\ DOMAIN frames = 1 .. Len(frames)
      /\ Len(frames) \in Nat
      /\ \A i \in 1 .. Len(frames) : new[i] = frames[i]
  BY <1>1, <1>4, AppendFacts
<1>6. s.service => new[1] = frames[1]
  BY <1>4, <1>5, TailFacts
<1>7. EndsIn(frames) => EndsIn(new) /\ more = all
  <2> SUFFICES ASSUME EndsIn(frames) PROVE EndsIn(new) /\ more = all
    OBVIOUS
  <2>1. PICK k \in DOMAIN frames : frames[k].end /\ frames[k].kind # "reset"
    BY DEF EndsIn
  <2>2. k \in DOMAIN new /\ new[k] = frames[k]
    BY <1>5
  <2>3. Ended(frames)
    BY <2>1 DEF Ended
  <2>4. more = all
    BY <1>3, <2>3 DEF Grows
  <2> QED
    BY <2>1, <2>2, <2>4 DEF EndsIn
<1>8. \A i \in 1 .. h : more[i] = all[i]
  <2>1. \A i \in 1 .. h : i \in 1 .. Len(all)
    <3>1. h <= Len(all)
      BY <1>1
    <3>2. Len(all) \in Nat
      BY <1>3 DEF Grows
    <3> QED
      BY <3>1, <3>2
  <2> QED
    BY <1>3, <2>1 DEF Grows
<1> QED
  BY <1>1, <1>6, <1>7, <1>8 DEF TracksUp

LEMMA DownGrows ==
    ASSUME NEW s, NEW frames, NEW f, NEW routed, NEW h \in Nat, FramesOK(frames),
           FrameOK(f), IsSeq(s.events), TracksDown(s, frames, routed, h),
           h <= Len(MessagesIn(frames))
    PROVE  TracksDown(s, Append(frames, f), routed, h)
<1>1. PICK all, more, n : /\ all = MessagesIn(frames) /\ n = Len(Kept(s, "recv"))
                          /\ more = MessagesIn(Append(frames, f))
  OBVIOUS
<1>2. IsData(f) => IsSeq(f.msgs)
  BY DEF FrameOK, IsData
<1>3. Grows(all, more, f)
  BY <1>1, <1>2, MessagesGrow
<1>4. n \in Nat
  BY <1>1, KeptIsSeq
<1>5. s.service => \A i \in 1 .. n : more[h - n + i] = all[h - n + i]
  <2> SUFFICES ASSUME s.service, NEW i \in 1 .. n
               PROVE  more[h - n + i] = all[h - n + i]
    OBVIOUS
  <2>1. n <= h /\ Len(all) \in Nat
    BY <1>1, <1>3 DEF TracksDown, Grows
  <2>2. h - n + i \in 1 .. Len(all)
    BY <1>1, <1>4, <2>1
  <2> QED
    BY <1>3, <2>2 DEF Grows
<1> QED
  BY <1>1, <1>5 DEF TracksDown

-----------------------------------------------------------------------------
(***************************************************************************)
(* The pair that finish makes.                                             *)
(***************************************************************************)
LEMMA PairsAreCalls ==
    ASSUME IInv, CallInv
    PROVE  SavedPairIsOneCall
<1> SUFFICES ASSUME NEW i \in DOMAIN saved
             PROVE  LET s == saved[i]
                        out == MessagesIn(sent[s.id])
                        sends == MessagesOf(s.pair.sends)
                    IN
                    /\ sent[s.id][1].path = "grpc" /\ sent[s.id][1].encoding = "identity"
                    /\ sends = SubSeq(out, 1, Len(sends))
                    /\ IsSegmentOf(MessagesOf(s.pair.recvs), MessagesIn(replied[s.id]))
                    /\ s.pair.halfClose # {} =>
                           /\ \E k \in DOMAIN sent[s.id] :
                                  sent[s.id][k].end /\ sent[s.id][k].kind # "reset"
                           /\ sends = out
                           /\ \A q \in s.pair.halfClose, j \in DOMAIN s.pair.sends :
                                  s.pair.sends[j].seq < q
  BY DEF SavedPairIsOneCall
<1>1. PICK id, pair : id = saved[i].id /\ pair = saved[i].pair
  OBVIOUS
<1>2. PICK up, down : up = sent[id] /\ down = replied[id]
  OBVIOUS
<1>3. id \in Ids
  BY <1>1 DEF IInv, Shape
<1>4. FramesOK(up) /\ FramesOK(down)
  BY <1>2, <1>3 DEF CallInv, Wired
<1>5. PairOK(up, down, pair)
  BY <1>1, <1>2 DEF CallInv, PairsOK
<1>6. PICK out, in, sends, recvs :
          /\ out = MessagesIn(up) /\ in = MessagesIn(down)
          /\ sends = MessagesOf(pair.sends) /\ recvs = MessagesOf(pair.recvs)
  OBVIOUS
<1>7. IsSeq(out) /\ IsSeq(in)
  BY <1>4, <1>6, MessagesAreSeq
<1>8. /\ IsSeq(sends) /\ IsSeq(recvs) /\ Len(sends) <= Len(out) /\ Segment(sends, out, 0)
      /\ pair.halfClose # {} => EndsIn(up) /\ Len(sends) = Len(out)
  BY <1>5, <1>6 DEF PairOK
<1>9. Len(sends) \in Nat /\ Len(recvs) \in Nat /\ Len(in) \in Nat
  BY <1>7, <1>8, AppendFacts
<1>10. sends = SubSeq(out, 1, Len(sends))
  <2>1. 0 + Len(sends) <= Len(out) /\ 0 + 1 = 1 /\ 0 + Len(sends) = Len(sends)
    BY <1>8, <1>9
  <2>2. sends = SubSeq(out, 0 + 1, 0 + Len(sends))
    BY <1>7, <1>8, <2>1, SegmentIsSubSeq
  <2> QED
    BY <2>1, <2>2
<1>11. IsSegmentOf(recvs, in)
  <2>1. PICK k \in Nat : k + Len(recvs) <= Len(in) /\ Segment(recvs, in, k)
    BY <1>5, <1>6 DEF PairOK
  <2>2. recvs = SubSeq(in, k + 1, k + Len(recvs))
    BY <1>7, <1>8, <2>1, SegmentIsSubSeq
  <2>3. k \in 0 .. Len(in) - Len(recvs)
    BY <1>9, <2>1
  <2> QED
    BY <2>2, <2>3 DEF IsSegmentOf
<1>12. pair.halfClose # {} => sends = out
  BY <1>7, <1>8, SegmentIsWhole
<1>13. pair.halfClose # {} =>
          \E k \in DOMAIN up : up[k].end /\ up[k].kind # "reset"
  BY <1>8 DEF EndsIn
<1>14. up[1].path = "grpc" /\ up[1].encoding = "identity"
  BY <1>5 DEF PairOK
<1>15. \A q \in pair.halfClose, j \in DOMAIN pair.sends : pair.sends[j].seq < q
  BY <1>5 DEF PairOK
<1> QED
  BY <1>1, <1>2, <1>6, <1>10, <1>11, <1>12, <1>13, <1>14, <1>15

\* What is noted makes a pair of the call.
LEMMA FinishedPairOK ==
    ASSUME NEW s, NEW up, NEW down, NEW routed, NEW failed, NEW h \in Nat, NEW g \in Nat,
           s.service, ~s.compressed, FramesOK(up), FramesOK(down),
           TracksUp(s, up, h), h <= Len(MessagesIn(up)),
           TracksDown(s, down, routed, g), g <= Len(MessagesIn(down))
    PROVE  PairOK(up, down, PairOfEvents(s, failed))
<1>1. PICK pair, out, in, sends, recvs :
          /\ pair = PairOfEvents(s, failed)
          /\ out = MessagesIn(up) /\ in = MessagesIn(down)
          /\ sends = Kept(s, "send") /\ recvs = Kept(s, "recv")
  OBVIOUS
<1>2. /\ pair.sends = FramesOf(s, "send") /\ pair.recvs = FramesOf(s, "recv")
      /\ pair.halfClose = {i - 1 : i \in {i \in DOMAIN s.events :
                                            s.events[i][1] = "half_close"}}
  BY <1>1 DEF PairOfEvents
<1>3. sends = MessagesOf(pair.sends) /\ recvs = MessagesOf(pair.recvs)
  BY <1>1, <1>2 DEF Kept
<1>4. IsSeq(s.events) /\ ClosedAfterSends(s)
  BY DEF TracksUp
<1>5. /\ IsSeq(sends) /\ IsSeq(recvs) /\ Len(sends) \in Nat /\ Len(recvs) \in Nat
  BY <1>1, <1>4, KeptIsSeq
<1>6. up[1].path = "grpc" /\ up[1].encoding = "identity"
  BY DEF TracksUp
<1>7. Len(sends) = h /\ \A i \in 1 .. h : sends[i] = out[i]
  BY <1>1 DEF TracksUp
<1>8. Segment(sends, out, 0)
  <2>1. \A i \in 1 .. h : 0 + i = i
    OBVIOUS
  <2> QED
    BY <1>7, <2>1 DEF Segment
<1>9. \E k \in Nat : k + Len(recvs) <= Len(in) /\ Segment(recvs, in, k)
  <2>1. PICK n, k : n = Len(recvs) /\ k = g - n
    OBVIOUS
  <2>2. n <= g /\ \A i \in 1 .. n : recvs[i] = in[g - n + i]
    BY <1>1, <2>1 DEF TracksDown
  <2>3. Len(in) \in Nat
    BY <1>1, MessagesAreSeq, AppendFacts
  <2>4. g <= Len(in)
    BY <1>1
  <2>5. k \in Nat /\ k + n <= Len(in)
    BY <1>5, <2>1, <2>2, <2>3, <2>4
  <2>6. Segment(recvs, in, k)
    BY <2>1, <2>2 DEF Segment
  <2> QED
    BY <2>1, <2>5, <2>6
<1>10. ASSUME pair.halfClose # {}
       PROVE  /\ EndsIn(up) /\ Len(sends) = Len(out)
              /\ \A q \in pair.halfClose, j \in DOMAIN pair.sends : pair.sends[j].seq < q
  <2>1. \A q \in pair.halfClose : \E i \in DOMAIN s.events :
            s.events[i][1] = "half_close" /\ q = i - 1
    BY <1>2
  <2>2. s.sawHalfClose
    BY <1>4, <1>10, <2>1 DEF ClosedAfterSends
  <2>3. EndsIn(up) /\ Len(sends) = Len(out)
    BY <1>1, <1>7, <2>2 DEF TracksUp
  <2>4. \A q \in pair.halfClose, j \in DOMAIN pair.sends : pair.sends[j].seq < q
    BY <1>2, <1>4, <2>1 DEF ClosedAfterSends
  <2> QED
    BY <2>3, <2>4
<1>11. Len(sends) <= Len(out)
  BY <1>1, <1>7
<1> QED
  BY <1>1, <1>3, <1>5, <1>6, <1>8, <1>9, <1>10, <1>11 DEF PairOK

LEMMA GrowsLonger ==
    ASSUME NEW old, NEW new, NEW f, Grows(old, new, f)
    PROVE  Len(old) \in Nat /\ Len(new) \in Nat /\ Len(old) <= Len(new)
<1>1. Len(old) \in Nat /\ Len(new) \in Nat
  BY DEF Grows
<1>2. CASE IsData(f)
  <2>1. Len(f.msgs) \in Nat /\ Len(new) = Len(old) + Len(f.msgs)
    BY <1>2 DEF Grows
  <2> QED
    BY <1>1, <2>1
<1>3. CASE ~IsData(f)
  <2>1. new = old
    BY <1>3 DEF Grows
  <2> QED
    BY <1>1, <2>1
<1> QED
  BY <1>2, <1>3

\* What is saved stays true when more frames come.
LEMMA PairGrowsUp ==
    ASSUME NEW up, NEW down, NEW pair, NEW f, FramesOK(up), FrameOK(f), up # << >>,
           IsData(f) => ~Ended(up), PairOK(up, down, pair)
    PROVE  PairOK(Append(up, f), down, pair)
<1>1. PICK all, more, new, sends :
          /\ all = MessagesIn(up) /\ new = Append(up, f)
          /\ more = MessagesIn(new) /\ sends = MessagesOf(pair.sends)
  OBVIOUS
<1>2. IsData(f) => IsSeq(f.msgs)
  BY DEF FrameOK, IsData
<1>3. Grows(all, more, f)
  BY <1>1, <1>2, MessagesGrow
<1>4. IsSeq(up)
  BY DEF FramesOK
<1>5. /\ DOMAIN new = 1 .. Len(up) + 1 /\ DOMAIN up = 1 .. Len(up)
      /\ Len(up) \in Nat /\ \A i \in 1 .. Len(up) : new[i] = up[i]
  BY <1>1, <1>4, AppendFacts
<1>6. new[1] = up[1]
  BY <1>4, <1>5, TailFacts
<1>7. EndsIn(up) => EndsIn(new) /\ more = all
  <2> SUFFICES ASSUME EndsIn(up) PROVE EndsIn(new) /\ more = all
    OBVIOUS
  <2>1. PICK k \in DOMAIN up : up[k].end /\ up[k].kind # "reset"
    BY DEF EndsIn
  <2>2. k \in DOMAIN new /\ new[k] = up[k]
    BY <1>5
  <2>3. Ended(up)
    BY <2>1 DEF Ended
  <2>4. more = all
    BY <1>3, <2>3 DEF Grows
  <2> QED
    BY <2>1, <2>2, <2>4 DEF EndsIn
<1>8. IsSeq(sends) /\ Len(sends) <= Len(all) /\ Segment(sends, all, 0)
  BY <1>1 DEF PairOK
<1>9. Len(sends) \in Nat /\ Len(all) \in Nat /\ Len(more) \in Nat /\ Len(all) <= Len(more)
  <2>1. Len(sends) \in Nat
    BY <1>8, AppendFacts
  <2> QED
    BY <1>3, <2>1, GrowsLonger
<1>10. Segment(sends, more, 0)
  <2>1. \A i \in 1 .. Len(sends) : 0 + i \in 1 .. Len(all)
    BY <1>8, <1>9
  <2> QED
    BY <1>3, <1>8, <2>1 DEF Segment, Grows
<1>11. Len(sends) <= Len(more)
  BY <1>8, <1>9
<1>12. pair.halfClose # {} => EndsIn(new) /\ Len(sends) = Len(more)
  <2>1. pair.halfClose # {} => EndsIn(up) /\ Len(sends) = Len(all)
    BY <1>1 DEF PairOK
  <2> QED
    BY <1>7, <2>1
<1> QED
  BY <1>1, <1>6, <1>10, <1>11, <1>12 DEF PairOK

LEMMA PairGrowsDown ==
    ASSUME NEW up, NEW down, NEW pair, NEW f, FramesOK(down), FrameOK(f),
           PairOK(up, down, pair)
    PROVE  PairOK(up, Append(down, f), pair)
<1>1. PICK all, more, recvs :
          /\ all = MessagesIn(down) /\ more = MessagesIn(Append(down, f))
          /\ recvs = MessagesOf(pair.recvs)
  OBVIOUS
<1>2. IsData(f) => IsSeq(f.msgs)
  BY DEF FrameOK, IsData
<1>3. Grows(all, more, f)
  BY <1>1, <1>2, MessagesGrow
<1>4. PICK k \in Nat : k + Len(recvs) <= Len(all) /\ Segment(recvs, all, k)
  BY <1>1 DEF PairOK
<1>5. Len(recvs) \in Nat
  BY <1>1, AppendFacts DEF PairOK
<1>6. Len(all) \in Nat /\ Len(more) \in Nat /\ Len(all) <= Len(more)
  BY <1>3, GrowsLonger
<1>7. Segment(recvs, more, k)
  <2>1. \A i \in 1 .. Len(recvs) : k + i \in 1 .. Len(all)
    BY <1>4, <1>5, <1>6
  <2> QED
    BY <1>3, <1>4, <2>1 DEF Segment, Grows
<1>8. k + Len(recvs) <= Len(more)
  BY <1>4, <1>5, <1>6
<1> QED
  BY <1>1, <1>7, <1>8 DEF PairOK

-----------------------------------------------------------------------------
(***************************************************************************)
(* The steps.                                                              *)
(***************************************************************************)

\* What is noted of a stream changes, and still tracks its messages.
KeepsUp(s, t, frames) ==
    \A h \in Nat : TracksUp(s, frames, h) => TracksUp(t, frames, h)

KeepsDown(s, t, frames, routed, reroute) ==
    \A h \in Nat : TracksDown(s, frames, routed, h) => TracksDown(t, frames, reroute, h)

\* The mirror write of a direction is left alone, given up, or used for
\* something else than stream id.
StillMirrors(m, n, alive, id) ==
    \/ n = m
    \/ n = << >> /\ ~alive
    \/ m = << >> /\ ~Mirrors(n, id)
    \/ n = << >> /\ ~Mirrors(m, id)

LEMMA UpwardStays ==
    ASSUME NEW id \in Ids, Upward(id), sent'[id] = sent[id],
           dec'["up"].queued = dec["up"].queued, Live("up")' => Live("up"),
           StillMirrors(mirror["up"], mirror'["up"], Live("up")', id),
           routing'[id] = routing[id] \/ routing'[id] = "overtaken",
           KeepsUp(streams[id], streams'[id], sent[id])
    PROVE  Upward(id)'
<1> DEFINE q == dec["up"].queued
           m == mirror["up"]
           n == mirror'["up"]
<1>1. PICK h \in Nat : /\ Flow(sent[id], q, m, Live("up"), id, h)
                       /\ Opens(sent[id], q, m, id, routing[id], h)
                       /\ TracksUp(streams[id], sent[id], h)
  BY DEF Upward
<1>2. ~Mirrors(<< >>, id)
  BY DEF Mirrors
<1>3. Flow(sent[id], q, n, Live("up")', id, h)
  <2>1. \/ n = m
        \/ n = << >> /\ ~Live("up")'
        \/ ~Mirrors(m, id) /\ ~Mirrors(n, id)
    BY <1>2 DEF StillMirrors
  <2> HIDE DEF q, m, n
  <2> QED
    BY <1>1, <2>1, FlowStays
<1>4. Opens(sent[id], q, n, id, routing'[id], h)
  <2>1. n = m \/ ~Mirrors(n, id)
    BY <1>2 DEF StillMirrors
  <2> HIDE DEF q, m, n
  <2> QED
    BY <1>1, <2>1, OpensStays
<1>5. TracksUp(streams'[id], sent[id], h)
  BY <1>1 DEF KeepsUp
<1> QED
  BY <1>3, <1>4, <1>5 DEF Upward

LEMMA DownwardStays ==
    ASSUME NEW id \in Ids, Downward(id), replied'[id] = replied[id],
           dec'["down"].queued = dec["down"].queued, Live("down")' => Live("down"),
           StillMirrors(mirror["down"], mirror'["down"], Live("down")', id),
           KeepsDown(streams[id], streams'[id], replied[id], routing[id], routing'[id])
    PROVE  Downward(id)'
<1> DEFINE q == dec["down"].queued
           m == mirror["down"]
           n == mirror'["down"]
<1>1. PICK h \in Nat : /\ Flow(replied[id], q, m, Live("down"), id, h)
                       /\ TracksDown(streams[id], replied[id], routing[id], h)
  BY DEF Downward
<1>2. ~Mirrors(<< >>, id)
  BY DEF Mirrors
<1>3. Flow(replied[id], q, n, Live("down")', id, h)
  <2>1. \/ n = m
        \/ n = << >> /\ ~Live("down")'
        \/ ~Mirrors(m, id) /\ ~Mirrors(n, id)
    BY <1>2 DEF StillMirrors
  <2> HIDE DEF q, m, n
  <2> QED
    BY <1>1, <2>1, FlowStays
<1>4. TracksDown(streams'[id], replied[id], routing'[id], h)
  BY <1>1 DEF KeepsDown
<1> QED
  BY <1>3, <1>4 DEF Downward

\* A stream left alone, or forgotten.
LEMMA KeepsSame ==
    ASSUME NEW s, NEW t, NEW up, NEW down, NEW routed, t = s \/ t = NewRecStream
    PROVE  KeepsUp(s, t, up) /\ KeepsDown(s, t, down, routed, routed)
<1>1. CASE t = s
  BY <1>1 DEF KeepsUp, KeepsDown
<1>2. CASE t = NewRecStream
  <2>1. KeepsUp(s, t, up)
    <3> SUFFICES ASSUME NEW h \in Nat PROVE TracksUp(t, up, h)
      BY DEF KeepsUp
    <3>1. PICK r : r = "first"
      OBVIOUS
    <3>2. r = "none" => h = 0
      BY <3>1
    <3> QED
      BY <1>2, <3>2, NewTracks
  <2>2. KeepsDown(s, t, down, routed, routed)
    <3> SUFFICES ASSUME NEW h \in Nat, TracksDown(s, down, routed, h)
                 PROVE  TracksDown(t, down, routed, h)
      BY DEF KeepsDown
    <3>1. routed = "none" => h = 0
      BY DEF TracksDown
    <3> QED
      BY <1>2, <3>1, NewTracks
  <2> QED
    BY <2>1, <2>2
<1> QED
  BY <1>1, <1>2

\* Steps that move no frame to or from the tracker.
LEMMA QuietCall ==
    ASSUME IInv, CallInv, sent' = sent, replied' = replied, saved' = saved,
           routing' = routing,
           \A d \in Directions :
              /\ dec'[d].queued = dec[d].queued
              /\ dec'[d].at = "preface" => dec[d].at = "preface"
              /\ Live(d)' => Live(d)
              /\ \/ mirror'[d] = mirror[d]
                 \/ mirror'[d] = << >> /\ ~Live(d)'
                 \/ mirror[d] = << >> /\ mirror'[d] = <<Preface>>,
           \A id \in Ids : streams'[id] = streams[id] \/ streams'[id] = NewRecStream
    PROVE  CallInv'
<1>1. "up" \in Directions /\ "down" \in Directions
  BY DEF Directions
<1>2. <<Preface>>[1].kind = "preface" /\ <<Preface>> # << >>
  BY DEF Preface
<1>3. \A id \in Ids : ~Mirrors(<<Preface>>, id)
  BY <1>2 DEF Mirrors
<1>4. ASSUME NEW id \in Ids PROVE Upward(id)' /\ Downward(id)'
  <2>1. /\ StillMirrors(mirror["up"], mirror'["up"], Live("up")', id)
        /\ StillMirrors(mirror["down"], mirror'["down"], Live("down")', id)
    BY <1>1, <1>3 DEF StillMirrors
  <2>2. /\ KeepsUp(streams[id], streams'[id], sent[id])
        /\ KeepsDown(streams[id], streams'[id], replied[id], routing[id], routing[id])
    BY KeepsSame
  <2>3. Upward(id) /\ Downward(id)
    BY DEF CallInv
  <2>4. Upward(id)'
    BY <1>1, <2>1, <2>2, <2>3, UpwardStays
  <2>5. Downward(id)'
    BY <1>1, <2>1, <2>2, <2>3, DownwardStays
  <2> QED
    BY <2>4, <2>5
<1>5. Wired'
  <2>1. Wired
    BY DEF CallInv
  <2>2. ASSUME NEW d \in Directions
        PROVE  /\ QueueOK(dec'[d].queued)
               /\ dec'[d].at = "preface" /\ mirror'[d] # << >> =>
                     mirror'[d][1].kind = "preface"
    BY <1>2, <2>1 DEF Wired
  <2>3. dec'["down"].at # "preface"
    BY <1>1, <2>1 DEF Wired
  <2> QED
    BY <2>1, <2>2, <2>3 DEF Wired
<1>6. PairsOK'
  BY DEF CallInv, PairsOK
<1> QED
  BY <1>4, <1>5, <1>6 DEF CallInv

\* A Write.
LEMMA WriteCall ==
    ASSUME IInv, CallInv, NEW id \in Ids, NEW f \in ClientFrames(id), Write(f)
    PROVE  CallInv'
<1>1. /\ f.id = id /\ FrameOK(f) /\ f.kind # "preface"
      /\ f.kind = "headers" => sent[id] = << >>
      /\ sent[id] = << >> => f.kind = "headers" /\ f.path \in {"grpc", "other"}
      /\ IsData(f) => ~Ended(sent[id])
  BY ClientFramesOK, ClientFramesFollow
<1>2. /\ dec' = dec /\ streams' = streams /\ saved' = saved /\ pipe' = pipe
      /\ routing' = routing /\ replied' = replied
      /\ mirror' = [mirror EXCEPT !["up"] = <<f>>]
      /\ sent' = [sent EXCEPT ![id] = Append(@, f)]
      /\ mirror["up"] = << >> /\ dec["up"].at # "preface"
  BY <1>1 DEF Write, trackerVars
<1>3. /\ "up" \in Directions /\ "down" \in Directions /\ "up" # "down"
      /\ DOMAIN mirror = Directions /\ DOMAIN sent = Ids
      /\ IsSeq(dec["up"].queued)
  BY DEF Directions, IInv, Shape
<1>4. /\ mirror'["up"] = <<f>> /\ mirror'["down"] = mirror["down"]
      /\ sent'[id] = Append(sent[id], f) /\ DOMAIN sent' = Ids
      /\ \A j \in Ids \ {id} : sent'[j] = sent[j]
  BY <1>2, <1>3
<1>5. Live("up")' = Live("up") /\ Live("down")' = Live("down")
  BY <1>2 DEF Live
<1>6. FramesOK(sent[id])
  BY DEF CallInv, Wired
<1>7. FramesOK(sent'[id])
  <2>1. IsData(f) => IsSeq(f.msgs)
    BY <1>1 DEF FrameOK, IsData
  <2> QED
    BY <1>4, <1>6, <2>1, MessagesGrow
<1>8. ASSUME NEW j \in Ids PROVE Downward(j)'
  <2>1. Downward(j)
    BY DEF CallInv
  <2>2. StillMirrors(mirror["down"], mirror'["down"], Live("down")', j)
    BY <1>4 DEF StillMirrors
  <2>3. KeepsDown(streams[j], streams'[j], replied[j], routing[j], routing'[j])
    BY <1>2 DEF KeepsDown
  <2> QED
    BY <1>2, <1>5, <2>1, <2>2, <2>3, DownwardStays
<1>9. ASSUME NEW j \in Ids \ {id} PROVE Upward(j)'
  <2>1. Upward(j)
    BY DEF CallInv
  <2>2. StillMirrors(mirror["up"], mirror'["up"], Live("up")', j)
    <3>1. <<f>>[1] = f
      OBVIOUS
    <3>2. ~Mirrors(<<f>>, j)
      BY <1>1, <3>1 DEF Mirrors
    <3> QED
      BY <1>2, <1>4, <3>2 DEF StillMirrors
  <2>3. KeepsUp(streams[j], streams'[j], sent[j])
    BY <1>2 DEF KeepsUp
  <2> QED
    BY <1>2, <1>4, <1>5, <2>1, <2>2, <2>3, UpwardStays
<1>10. Upward(id)'
  <2> DEFINE q == dec["up"].queued
             frames == sent[id]
  <2>1. PICK h \in Nat : /\ Flow(frames, q, << >>, Live("up"), id, h)
                         /\ Opens(frames, q, << >>, id, routing[id], h)
                         /\ TracksUp(streams[id], frames, h)
    BY <1>2 DEF CallInv, Upward
  <2>2. IsSeq(q) /\ FramesOK(frames) /\ (streams[id].service => frames # << >>)
    BY <1>3, <1>6 DEF IInv, HeadersOnce
  <2>3. /\ IsData(f) => ~Ended(frames)
        /\ frames = << >> => f.kind = "headers" /\ f.path \in {"grpc", "other"}
        /\ f.kind = "headers" => frames = << >>
    BY <1>1
  <2>4. /\ dec'["up"].queued = q /\ sent'[id] = Append(frames, f)
        /\ streams'[id] = streams[id] /\ routing'[id] = routing[id]
    BY <1>2, <1>4
  <2> HIDE DEF q, frames
  <2>5. Flow(Append(frames, f), q, <<f>>, Live("up"), id, h)
    BY <1>1, <2>1, <2>2, <2>3, FlowWrites
  <2>6. Opens(Append(frames, f), q, <<f>>, id, routing[id], h)
    BY <1>1, <2>1, <2>2, <2>3, OpensWrites
  <2>7. h <= Len(MessagesIn(frames))
    <3>1. Waiting(q, id) \in Nat
      <4>1. Waiting(q, id) \in Nat /\ Held(<< >>, id) \in Nat
        BY <2>2, Counts
      <4> QED
        BY <4>1
    <3>2. h + Waiting(q, id) <= Len(MessagesIn(frames))
      BY <2>1 DEF Flow
    <3>3. Len(MessagesIn(frames)) \in Nat
      BY <2>2, MessagesAreSeq, AppendFacts
    <3> QED
      BY <3>1, <3>2, <3>3
  <2>8. TracksUp(streams[id], Append(frames, f), h)
    BY <1>1, <2>1, <2>2, <2>3, <2>7, UpGrows
  <2> QED
    BY <1>4, <1>5, <2>4, <2>5, <2>6, <2>8 DEF Upward
<1>11. Wired'
  <2>1. Wired
    BY DEF CallInv
  <2>2. \A d \in Directions : d # "up" => mirror'[d] = mirror[d]
    BY <1>2, <1>3
  <2> QED
    BY <1>2, <1>4, <1>7, <2>1, <2>2 DEF Wired
<1>12. PairsOK'
  <2> SUFFICES ASSUME NEW i \in DOMAIN saved
               PROVE  PairOK(sent'[saved[i].id], replied[saved[i].id], saved[i].pair)
    BY <1>2 DEF PairsOK
  <2>1. saved[i].id \in Ids /\ PairOK(sent[saved[i].id], replied[saved[i].id], saved[i].pair)
    BY DEF IInv, Shape, CallInv, PairsOK
  <2>2. CASE saved[i].id = id
    <3>1. sent[id] # << >>
      BY <2>2 DEF IInv, HeadersOnce, IsSaved
    <3>2. PairOK(Append(sent[id], f), replied[id], saved[i].pair)
      BY <1>1, <1>6, <2>1, <2>2, <3>1, PairGrowsUp
    <3> QED
      BY <1>4, <2>2, <3>2
  <2>3. CASE saved[i].id # id
    BY <1>4, <2>1, <2>3
  <2> QED
    BY <2>2, <2>3
<1> QED
  BY <1>8, <1>9, <1>10, <1>11, <1>12 DEF CallInv

\* A Read.
LEMMA ReadCall ==
    ASSUME IInv, CallInv, NEW id \in Ids, NEW f \in ServerFrames(id), Read(f)
    PROVE  CallInv'
<1>1. /\ f.id = id /\ FrameOK(f) /\ f.kind # "preface"
      /\ IsData(f) => ~Ended(replied[id])
  BY ServerFramesOK, ServerFramesFollow
<1>2. /\ dec' = dec /\ streams' = streams /\ saved' = saved /\ pipe' = pipe
      /\ routing' = routing /\ sent' = sent
      /\ mirror' = [mirror EXCEPT !["down"] = <<f>>]
      /\ replied' = [replied EXCEPT ![id] = Append(@, f)]
      /\ mirror["down"] = << >> /\ pipe["down"] = "open"
  BY <1>1 DEF Read, trackerVars
<1>3. /\ "up" \in Directions /\ "down" \in Directions /\ "up" # "down"
      /\ DOMAIN mirror = Directions /\ DOMAIN replied = Ids
      /\ IsSeq(dec["down"].queued)
  BY DEF Directions, IInv, Shape, CallInv, Wired
<1>4. /\ mirror'["down"] = <<f>> /\ mirror'["up"] = mirror["up"]
      /\ replied'[id] = Append(replied[id], f) /\ DOMAIN replied' = Ids
      /\ \A j \in Ids \ {id} : replied'[j] = replied[j]
  BY <1>2, <1>3
<1>5. Live("up")' = Live("up") /\ Live("down")' = Live("down")
  BY <1>2 DEF Live
<1>6. FramesOK(replied[id])
  BY DEF CallInv, Wired
<1>7. FramesOK(replied'[id])
  <2>1. IsData(f) => IsSeq(f.msgs)
    BY <1>1 DEF FrameOK, IsData
  <2> QED
    BY <1>4, <1>6, <2>1, MessagesGrow
<1>8. ASSUME NEW j \in Ids PROVE Upward(j)'
  <2>1. Upward(j)
    BY DEF CallInv
  <2>2. StillMirrors(mirror["up"], mirror'["up"], Live("up")', j)
    BY <1>4 DEF StillMirrors
  <2>3. KeepsUp(streams[j], streams'[j], sent[j])
    BY <1>2 DEF KeepsUp
  <2> QED
    BY <1>2, <1>5, <2>1, <2>2, <2>3, UpwardStays
<1>9. ASSUME NEW j \in Ids \ {id} PROVE Downward(j)'
  <2>1. Downward(j)
    BY DEF CallInv
  <2>2. StillMirrors(mirror["down"], mirror'["down"], Live("down")', j)
    <3>1. <<f>>[1] = f
      OBVIOUS
    <3>2. ~Mirrors(<<f>>, j)
      BY <1>1, <3>1 DEF Mirrors
    <3> QED
      BY <1>2, <1>4, <3>2 DEF StillMirrors
  <2>3. KeepsDown(streams[j], streams'[j], replied[j], routing[j], routing'[j])
    BY <1>2 DEF KeepsDown
  <2> QED
    BY <1>2, <1>4, <1>5, <2>1, <2>2, <2>3, DownwardStays
<1>10. Downward(id)'
  <2> DEFINE q == dec["down"].queued
             frames == replied[id]
  <2>1. PICK h \in Nat : /\ Flow(frames, q, << >>, Live("down"), id, h)
                         /\ TracksDown(streams[id], frames, routing[id], h)
    BY <1>2 DEF CallInv, Downward
  <2>2. IsSeq(q) /\ FramesOK(frames) /\ IsSeq(streams[id].events)
    BY <1>3, <1>6 DEF CallInv, Upward, TracksUp
  <2>3. IsData(f) => ~Ended(frames)
    BY <1>1
  <2>4. /\ dec'["down"].queued = q /\ replied'[id] = Append(frames, f)
        /\ streams'[id] = streams[id] /\ routing'[id] = routing[id]
    BY <1>2, <1>4
  <2> HIDE DEF q, frames
  <2>5. Flow(Append(frames, f), q, <<f>>, Live("down"), id, h)
    BY <1>1, <2>1, <2>2, <2>3, FlowWrites
  <2>6. h <= Len(MessagesIn(frames))
    <3>1. Waiting(q, id) \in Nat
      <4>1. Waiting(q, id) \in Nat /\ Held(<< >>, id) \in Nat
        BY <2>2, Counts
      <4> QED
        BY <4>1
    <3>2. h + Waiting(q, id) <= Len(MessagesIn(frames))
      BY <2>1 DEF Flow
    <3>3. Len(MessagesIn(frames)) \in Nat
      BY <2>2, MessagesAreSeq, AppendFacts
    <3> QED
      BY <3>1, <3>2, <3>3
  <2>7. TracksDown(streams[id], Append(frames, f), routing[id], h)
    BY <1>1, <2>1, <2>2, <2>6, DownGrows
  <2> QED
    BY <1>4, <1>5, <2>4, <2>5, <2>7 DEF Downward
<1>11. Wired'
  <2>1. Wired
    BY DEF CallInv
  <2>2. \A d \in Directions : d # "down" => mirror'[d] = mirror[d]
    BY <1>2, <1>3
  <2>3. dec["down"].at # "preface"
    BY DEF CallInv, Wired
  <2> QED
    BY <1>2, <1>4, <1>7, <2>1, <2>2, <2>3 DEF Wired
<1>12. PairsOK'
  <2> SUFFICES ASSUME NEW i \in DOMAIN saved
               PROVE  PairOK(sent[saved[i].id], replied'[saved[i].id], saved[i].pair)
    BY <1>2 DEF PairsOK
  <2>1. saved[i].id \in Ids /\ PairOK(sent[saved[i].id], replied[saved[i].id], saved[i].pair)
    BY DEF IInv, Shape, CallInv, PairsOK
  <2>2. CASE saved[i].id = id
    <3>1. PairOK(sent[id], Append(replied[id], f), saved[i].pair)
      BY <1>1, <1>6, <2>1, <2>2, PairGrowsDown
    <3> QED
      BY <1>4, <2>2, <3>1
  <2>3. CASE saved[i].id # id
    BY <1>4, <2>1, <2>3
  <2> QED
    BY <2>2, <2>3
<1> QED
  BY <1>8, <1>9, <1>10, <1>11, <1>12 DEF CallInv

\* A frame goes through the pipe.
LEMMA TakeCall ==
    ASSUME IInv, CallInv, NEW d \in Directions, TakeFrame(d)
    PROVE  CallInv'
<1>1. /\ pipe[d] = "open" /\ mirror[d] # << >> /\ dec[d].at # "gone"
      /\ dec[d].queued = << >>
      /\ mirror' = [mirror EXCEPT ![d] = << >>]
      /\ dec' = [dec EXCEPT ![d] =
                    [at |-> "read",
                     queued |-> IF dec[d].at = "preface" THEN << >>
                                ELSE WireEvents(mirror[d][1])]]
      /\ sent' = sent /\ replied' = replied /\ pipe' = pipe /\ streams' = streams
      /\ saved' = saved /\ routing' = routing
  BY DEF TakeFrame, liveVars, trackerVars
<1>2. DOMAIN mirror = Directions /\ DOMAIN dec = Directions
  BY DEF IInv, Shape
<1>3. PICK f : FrameOK(f) /\ mirror[d] = <<f>>
  BY <1>1 DEF IInv, Shape
<1>4. mirror[d][1] = f
  BY <1>3
<1>5. /\ mirror'[d] = << >> /\ dec'[d].at = "read"
      /\ dec'[d].queued = IF dec[d].at = "preface" THEN << >> ELSE WireEvents(f)
      /\ \A o \in Directions \ {d} : mirror'[o] = mirror[o] /\ dec'[o] = dec[o]
  BY <1>1, <1>2, <1>4
<1>6. Wired
  BY DEF CallInv
<1>7. dec[d].at = "preface" => f.kind = "preface"
  BY <1>1, <1>4, <1>6 DEF Wired
<1>8. dec[d].at # "preface" => f.kind # "preface"
  BY <1>1, <1>4 DEF IInv, Shape
<1>9. \A o \in Directions : (Live(o)' <=> Live(o)) /\ Live(d)
  BY <1>1, <1>5 DEF Live
<1>10. "up" \in Directions /\ "down" \in Directions
  BY DEF Directions
<1>11. ASSUME NEW id \in Ids
       PROVE  /\ KeepsUp(streams[id], streams'[id], sent[id])
              /\ KeepsDown(streams[id], streams'[id], replied[id], routing[id], routing'[id])
  BY <1>1 DEF KeepsUp, KeepsDown
<1>12. ASSUME NEW id \in Ids, d # "up" PROVE Upward(id)'
  <2>1. Upward(id)
    BY DEF CallInv
  <2>2. StillMirrors(mirror["up"], mirror'["up"], Live("up")', id)
    BY <1>5, <1>10, <1>12 DEF StillMirrors
  <2> QED
    BY <1>1, <1>5, <1>9, <1>10, <1>11, <1>12, <2>1, <2>2, UpwardStays
<1>13. ASSUME NEW id \in Ids, d # "down" PROVE Downward(id)'
  <2>1. Downward(id)
    BY DEF CallInv
  <2>2. StillMirrors(mirror["down"], mirror'["down"], Live("down")', id)
    BY <1>5, <1>10, <1>13 DEF StillMirrors
  <2> QED
    BY <1>1, <1>5, <1>9, <1>10, <1>11, <1>13, <2>1, <2>2, DownwardStays
<1>14. ASSUME NEW id \in Ids, d = "up" PROVE Upward(id)'
  <2>1. CASE dec[d].at = "preface"
    <3>1. Upward(id)
      BY DEF CallInv
    <3>2. ~Mirrors(mirror["up"], id)
      BY <1>4, <1>7, <1>14, <2>1 DEF Mirrors
    <3>3. StillMirrors(mirror["up"], mirror'["up"], Live("up")', id)
      BY <1>5, <1>14, <3>2 DEF StillMirrors
    <3>4. dec'["up"].queued = dec["up"].queued
      BY <1>1, <1>5, <1>14, <2>1
    <3> QED
      BY <1>1, <1>9, <1>10, <1>11, <3>1, <3>3, <3>4, UpwardStays
  <2>2. CASE dec[d].at # "preface"
    <3>1. PICK h \in Nat : /\ Flow(sent[id], << >>, <<f>>, Live("up"), id, h)
                           /\ Opens(sent[id], << >>, <<f>>, id, routing[id], h)
                           /\ TracksUp(streams[id], sent[id], h)
      BY <1>1, <1>3, <1>14 DEF CallInv, Upward
    <3>2. FramesOK(sent[id])
      BY <1>6 DEF Wired
    <3>3. Flow(sent[id], << >>, <<f>>, TRUE, id, h)
      BY <1>9, <1>14, <3>1 DEF Flow
    <3>4. Flow(sent[id], WireEvents(f), << >>, Live("up")', id, h)
      BY <1>3, <1>8, <2>2, <3>2, <3>3, FlowTakes
    <3>5. Opens(sent[id], WireEvents(f), << >>, id, routing[id], h)
      BY <1>3, <1>8, <2>2, <3>1, OpensTakes
    <3>6. dec'["up"].queued = WireEvents(f) /\ mirror'["up"] = << >>
      BY <1>5, <1>14, <2>2
    <3> QED
      BY <1>1, <3>1, <3>4, <3>5, <3>6 DEF Upward
  <2> QED
    BY <2>1, <2>2
<1>15. ASSUME NEW id \in Ids, d = "down" PROVE Downward(id)'
  <2>1. dec[d].at # "preface"
    BY <1>6, <1>15 DEF Wired
  <2>2. PICK h \in Nat : /\ Flow(replied[id], << >>, <<f>>, Live("down"), id, h)
                         /\ TracksDown(streams[id], replied[id], routing[id], h)
    BY <1>1, <1>3, <1>15 DEF CallInv, Downward
  <2>3. FramesOK(replied[id])
    BY <1>6 DEF Wired
  <2>4. Flow(replied[id], << >>, <<f>>, TRUE, id, h)
    BY <1>9, <1>15, <2>2 DEF Flow
  <2>5. Flow(replied[id], WireEvents(f), << >>, Live("down")', id, h)
    BY <1>3, <1>8, <2>1, <2>3, <2>4, FlowTakes
  <2>6. dec'["down"].queued = WireEvents(f) /\ mirror'["down"] = << >>
    BY <1>5, <1>15, <2>1
  <2> QED
    BY <1>1, <2>2, <2>5, <2>6 DEF Downward
<1>16. Wired'
  <2>1. QueueOK(dec'[d].queued)
    <3>1. CASE dec[d].at = "preface"
      <4>1. dec'[d].queued = << >>
        BY <1>5, <3>1
      <4> QED
        BY <4>1, ShortSeqs DEF QueueOK
    <3>2. CASE dec[d].at # "preface"
      <4>1. \A id : QueueOK(WireEvents(f))
        BY <1>3, <1>8, <3>2, EventsOfFrame
      <4> QED
        BY <1>5, <3>2, <4>1
    <3> QED
      BY <3>1, <3>2
  <2>2. ASSUME NEW o \in Directions
        PROVE  /\ QueueOK(dec'[o].queued)
               /\ dec'[o].at = "preface" /\ mirror'[o] # << >> =>
                     mirror'[o][1].kind = "preface"
    <3>1. CASE o = d
      BY <1>5, <2>1, <3>1
    <3>2. CASE o # d
      BY <1>5, <1>6, <3>2 DEF Wired
    <3> QED
      BY <3>1, <3>2
  <2>3. dec'["down"].at # "preface"
    BY <1>5, <1>6, <1>10 DEF Wired
  <2> QED
    BY <1>1, <1>6, <2>2, <2>3 DEF Wired
<1>17. PairsOK'
  BY <1>1 DEF CallInv, PairsOK
<1>18. d = "up" \/ d = "down"
  BY DEF Directions
<1> QED
  BY <1>12, <1>13, <1>14, <1>15, <1>16, <1>17, <1>18 DEF CallInv

-----------------------------------------------------------------------------
(***************************************************************************)
(* One event in the tracker, again: what it notes is what was sent.        *)
(***************************************************************************)

\* The messages of the server that are noted stay.
ServesSame(s, t) ==
    /\ IsSeq(t.events)
    /\ t.service = s.service /\ Kept(t, "recv") = Kept(s, "recv")

LEMMA HalfCloseServesSame ==
    ASSUME NEW s, DOMAIN s = RecFields, IsSeq(s.events)
    PROVE  ServesSame(s, NoteHalfClose(s)) /\ DOMAIN NoteHalfClose(s) = RecFields
<1>1. DOMAIN NoteHalfClose(s) = RecFields /\ NoteHalfClose(s).service = s.service
  BY NoteHalfCloseKeeps
<1>2. CASE s.sawHalfClose
  BY <1>1, <1>2 DEF NoteHalfClose, ServesSame
<1>3. CASE ~s.sawHalfClose
  <2>1. PICK t : t = NoteHalfClose(s)
    OBVIOUS
  <2>2. t.events = Append(s.events, <<"half_close", "none">>)
    BY <1>3, <2>1 DEF NoteHalfClose, RecFields
  <2>3. Appends(s, t, "half_close", "none") /\ "half_close" # "recv"
    BY <2>2 DEF Appends
  <2>4. IsSeq(t.events) /\ Kept(t, "recv") = Kept(s, "recv")
    BY <2>3, KeptAppended
  <2> QED
    BY <1>1, <2>1, <2>4 DEF ServesSame
<1> QED
  BY <1>2, <1>3

LEMMA SendServesSame ==
    ASSUME NEW s, NEW t, NEW x, IsSeq(s.events), Appends(s, t, "send", x),
           t.service = s.service
    PROVE  ServesSame(s, t)
<1>1. "send" # "recv"
  OBVIOUS
<1>2. IsSeq(t.events) /\ Kept(t, "recv") = Kept(s, "recv")
  BY <1>1, KeptAppended
<1> QED
  BY <1>2 DEF ServesSame

\* The event at the head of the queue, if it is of stream id.
LEMMA HeadEvent ==
    ASSUME NEW frames, NEW q, NEW m, NEW live, NEW id, NEW h \in Nat, NEW g,
           FramesOK(frames), IsSeq(q), QueueOK(q), Queues(q, id),
           Flow(frames, q, m, live, id, h),
           g = IF Carries(q[1]) THEN h + 1 ELSE h
    PROVE  /\ g \in Nat /\ g <= Len(MessagesIn(frames)) /\ Len(MessagesIn(frames)) \in Nat
           /\ Carries(q[1]) => q[1].message = <<MessagesIn(frames)[h + 1]>>
           /\ q[1].end /\ q[1].kind # "reset" =>
                 EndsIn(frames) /\ g = Len(MessagesIn(frames))
<1>1. PICK all, w : all = MessagesIn(frames) /\ w = Waiting(q, id)
  OBVIOUS
<1>2. Len(all) \in Nat
  BY <1>1, MessagesAreSeq, AppendFacts
<1>3. Len(q) \in Nat /\ 1 \in DOMAIN q /\ DOMAIN q = 1 .. Len(q)
  BY TailFacts DEF Queues
<1>4. h + w <= Len(all)
  BY <1>1 DEF Flow
<1>5. q[1].end => Len(q) = 1
  BY <1>3 DEF QueueOK
<1>6. q[1].end /\ q[1].kind # "reset" => EndsIn(frames) /\ h + w = Len(all)
  BY <1>1, <1>3 DEF Flow
<1>7. CASE Carries(q[1])
  <2>1. w = Len(q) /\ g = h + 1
    BY <1>1, <1>7 DEF Waiting
  <2>2. 1 \in 1 .. w
    BY <1>3, <2>1
  <2>3. q[1].message = <<all[h + 1]>>
    BY <1>1, <2>2 DEF Flow
  <2>4. g \in Nat /\ g <= Len(all)
    BY <1>2, <1>3, <1>4, <2>1, <2>2
  <2> QED
    BY <1>1, <1>2, <1>5, <1>6, <2>1, <2>3, <2>4
<1>8. CASE ~Carries(q[1])
  <2>1. w = 0 /\ g = h
    BY <1>1, <1>8 DEF Waiting
  <2>2. h + w = g
    BY <2>1
  <2> QED
    BY <1>1, <1>2, <1>4, <1>6, <1>8, <2>1, <2>2
<1> QED
  BY <1>7, <1>8

\* What handle makes of a stream with an event of either direction.
RoutedAs(ev, s) ==
    IF ev.path = "other" THEN s
    ELSE IF Compressed(ev) THEN [s EXCEPT !.service = TRUE, !.compressed = TRUE]
    ELSE IF ev.end THEN NoteHalfClose([s EXCEPT !.service = TRUE])
    ELSE [s EXCEPT !.service = TRUE]

WithMessage(ev, s) ==
    IF ev.message = << >> THEN s
    ELSE [s EXCEPT !.sends = @ \o ev.message,
                   !.events = Append(@, <<"send", ev.message[1]>>)]

SentAs(ev, s) == IF ev.end THEN NoteHalfClose(WithMessage(ev, s)) ELSE WithMessage(ev, s)

ReceivedAs(ev, s) ==
    [s EXCEPT !.recvCount = @ + 1, !.events = Append(@, <<"recv", ev.message[1]>>)]

\* Request headers.
LEMMA RoutedTracks ==
    ASSUME NEW frames, NEW q, NEW m, NEW live, NEW id, NEW routed, NEW h \in Nat, NEW s,
           FramesOK(frames), IsSeq(q), QueueOK(q), Queues(q, id),
           Flow(frames, q, m, live, id, h), Opens(frames, q, m, id, routed, h),
           TracksUp(s, frames, h), q[1].kind = "headers", ~s.service, NEW t,
           t = RoutedAs(q[1], s)
    PROVE  TracksUp(t, frames, h) /\ Len(Kept(t, "recv")) = 0
<1>1. s = NewRecStream
  BY DEF TracksUp
<1>2. /\ s.events = << >> /\ ~s.sawHalfClose /\ ~s.compressed /\ DOMAIN s = RecFields
  BY <1>1 DEF NewRecStream, RecFields
<1>3. h = 0 /\ routed # "first" /\ q[1] = frames[1]
  BY DEF Opens
<1>4. q[1].path \in {"grpc", "other"}
  BY <1>3 DEF Opens, Flow
<1>5. CASE q[1].path = "other"
  <2>1. t = s
    BY <1>5 DEF RoutedAs
  <2> QED
    BY <1>2, <2>1, NothingKept
<1>6. CASE q[1].path # "other" /\ Compressed(q[1])
  <2>1. t = [s EXCEPT !.service = TRUE, !.compressed = TRUE]
    BY <1>6 DEF RoutedAs
  <2>2. t.events = << >> /\ t.service /\ ~t.sawHalfClose /\ t.compressed
    BY <1>2, <2>1 DEF RecFields
  <2>3. TracksUp(t, frames, 0)
    BY <2>2, UpRoutes
  <2> QED
    BY <1>3, <2>2, <2>3, NothingKept
<1>7. CASE q[1].path # "other" /\ ~Compressed(q[1])
  <2>1. PICK u : u = [s EXCEPT !.service = TRUE]
    OBVIOUS
  <2>2. u.events = << >> /\ u.service /\ ~u.sawHalfClose /\ DOMAIN u = RecFields
    BY <1>2, <2>1 DEF RecFields
  <2>3. frames[1].path = "grpc" /\ frames[1].encoding = "identity"
    BY <1>3, <1>4, <1>7 DEF Compressed
  <2>4. TracksUp(u, frames, 0)
    BY <2>2, <2>3, UpRoutes
  <2>5. Len(Kept(u, "recv")) = 0 /\ IsSeq(u.events)
    BY <2>2, NothingKept
  <2>6. CASE ~q[1].end
    <3>1. t = u
      BY <1>7, <2>1, <2>6 DEF RoutedAs
    <3> QED
      BY <1>3, <2>4, <2>5, <3>1
  <2>7. CASE q[1].end
    <3>1. t = NoteHalfClose(u)
      BY <1>7, <2>1, <2>7 DEF RoutedAs
    <3>2. ~Carries(q[1])
      BY DEF Carries
    <3>3. EndsIn(frames) /\ h = Len(MessagesIn(frames))
      BY <2>7, <3>2, HeadEvent
    <3>4. TracksUp(t, frames, h)
      <4>1. TracksUp(u, frames, h)
        BY <1>3, <2>4
      <4>2. TracksUp(NoteHalfClose(u), frames, h)
        BY <2>2, <3>3, <4>1, UpCloses
      <4> QED
        BY <3>1, <4>2
    <3>5. Kept(t, "recv") = Kept(u, "recv")
      BY <2>2, <2>5, <3>1, HalfCloseServesSame DEF ServesSame
    <3> QED
      BY <1>3, <2>5, <3>4, <3>5
  <2> QED
    BY <2>6, <2>7
<1> QED
  BY <1>5, <1>6, <1>7

\* A message of the client, or the end of its side.
LEMMA SentTracks ==
    ASSUME NEW frames, NEW q, NEW m, NEW live, NEW id, NEW h \in Nat, NEW g, NEW s,
           FramesOK(frames), IsSeq(q), QueueOK(q), Queues(q, id),
           Flow(frames, q, m, live, id, h), TracksUp(s, frames, h),
           DOMAIN s = RecFields, q[1].kind = "message", s.service,
           g = IF Carries(q[1]) THEN h + 1 ELSE h,
           NEW t, t = SentAs(q[1], s)
    PROVE  TracksUp(t, frames, g) /\ ServesSame(s, t)
<1>0. PICK with : with = WithMessage(q[1], s)
  OBVIOUS
<1>1. /\ g \in Nat /\ g <= Len(MessagesIn(frames)) /\ Len(MessagesIn(frames)) \in Nat
      /\ Carries(q[1]) => q[1].message = <<MessagesIn(frames)[h + 1]>>
      /\ q[1].end => EndsIn(frames) /\ g = Len(MessagesIn(frames))
  BY HeadEvent
<1>2. IsSeq(s.events)
  BY DEF TracksUp
<1>3. /\ TracksUp(with, frames, g) /\ ServesSame(s, with) /\ DOMAIN with = RecFields
      /\ with.service
  <2>1. CASE ~Carries(q[1])
    <3>1. with = s /\ g = h
      BY <1>0, <2>1 DEF Carries, WithMessage
    <3> QED
      BY <1>2, <3>1 DEF ServesSame
  <2>2. CASE Carries(q[1])
    <3>1. PICK x : x = MessagesIn(frames)[h + 1]
      OBVIOUS
    <3>2. q[1].message[1] = x /\ q[1].message # << >> /\ g = h + 1
      <4>1. q[1].message = <<x>>
        BY <1>1, <2>2, <3>1
      <4>2. g = h + 1
        BY <2>2
      <4> QED
        BY <4>1, <4>2
    <3>3. with = [s EXCEPT !.sends = @ \o q[1].message,
                           !.events = Append(@, <<"send", x>>)]
      BY <1>0, <3>2 DEF WithMessage
    <3>4. /\ with.events = Append(s.events, <<"send", x>>) /\ with.service = s.service
          /\ with.compressed = s.compressed /\ with.sawHalfClose = s.sawHalfClose
          /\ DOMAIN with = RecFields
      BY <3>3 DEF RecFields
    <3>5. Appends(s, with, "send", x) /\ "send" # "recv"
      BY <3>4 DEF Appends
    <3>6. ServesSame(s, with)
      BY <1>2, <3>4, <3>5, SendServesSame
    <3>7. TracksUp(with, frames, h + 1)
      <4>1. h + 1 <= Len(MessagesIn(frames)) /\ Len(MessagesIn(frames)) \in Nat
        BY <1>1, <3>2
      <4> QED
        BY <3>1, <3>4, <3>5, <4>1, UpSends
    <3> QED
      BY <3>2, <3>4, <3>6, <3>7
  <2> QED
    BY <2>1, <2>2
<1>4. CASE ~q[1].end
  <2>1. t = with
    BY <1>0, <1>4 DEF SentAs
  <2> QED
    BY <1>3, <2>1
<1>5. CASE q[1].end
  <2>1. t = NoteHalfClose(with)
    BY <1>0, <1>5 DEF SentAs
  <2>2. TracksUp(t, frames, g)
    <3>1. TracksUp(NoteHalfClose(with), frames, g)
      BY <1>1, <1>3, <1>5, UpCloses
    <3> QED
      BY <2>1, <3>1
  <2>3. IsSeq(with.events)
    BY <1>3 DEF ServesSame
  <2>4. ServesSame(with, t)
    BY <1>3, <2>1, <2>3, HalfCloseServesSame
  <2> QED
    BY <1>3, <2>2, <2>4 DEF ServesSame
<1> QED
  BY <1>4, <1>5

\* A message of the server.
LEMMA ReceivedTracks ==
    ASSUME NEW up, NEW frames, NEW q, NEW m, NEW live, NEW id, NEW h \in Nat, NEW s,
           NEW routed, NEW reroute,
           FramesOK(frames), IsSeq(q), QueueOK(q), Queues(q, id),
           Flow(frames, q, m, live, id, h), TracksDown(s, frames, routed, h),
           DOMAIN s = RecFields, IsSeq(s.events), Carries(q[1]), s.service,
           reroute = IF routed # "none" THEN routed ELSE "overtaken",
           NEW t, t = ReceivedAs(q[1], s)
    PROVE  TracksDown(t, frames, reroute, h + 1) /\ KeepsUp(s, t, up)
<1>1. PICK x : x = MessagesIn(frames)[h + 1]
  OBVIOUS
<1>2. q[1].message[1] = x
  <2>1. q[1].message = <<x>>
    BY <1>1, HeadEvent
  <2> QED
    BY <2>1
<1>3. /\ t.events = Append(s.events, <<"recv", x>>) /\ t.service = s.service
      /\ t.compressed = s.compressed /\ t.sawHalfClose = s.sawHalfClose
  BY <1>2 DEF ReceivedAs, RecFields
<1>4. Appends(s, t, "recv", x)
  BY <1>3 DEF Appends
<1>5. TracksDown(t, frames, reroute, h + 1)
  BY <1>1, <1>3, <1>4, DownReceives
<1>6. KeepsUp(s, t, up)
  <2> SUFFICES ASSUME NEW k \in Nat, TracksUp(s, up, k) PROVE TracksUp(t, up, k)
    BY DEF KeepsUp
  <2> QED
    BY <1>3, <1>4, UpReceives
<1> QED
  BY <1>5, <1>6

\* Trailers, which end what the server sends.
IsTrailers(f) == f.kind = "headers" /\ f.status # "none"

\* What becomes of the stream of an event.
UpOutcome(ev, s, t) ==
    \/ ev.kind = "reset" /\ t = NewRecStream
    \/ ev.kind = "headers" /\ t = RoutedAs(ev, s)
    \/ ev.kind = "message" /\ ~s.service /\ t = s
    \/ ev.kind = "message" /\ s.service /\ t = SentAs(ev, s)

DownOutcome(ev, s, t) ==
    \/ (ev.kind = "reset" \/ IsTrailers(ev)) /\ t = NewRecStream
    \/ (~Carries(ev) \/ ~s.service) /\ t = s
    \/ Carries(ev) /\ s.service /\ t = ReceivedAs(ev, s)

LEMMA UpOutcomeTracks ==
    ASSUME NEW frames, NEW q, NEW m, NEW live, NEW id, NEW routed, NEW reroute,
           NEW h \in Nat, NEW g, NEW s, NEW t, NEW down,
           FramesOK(frames), IsSeq(q), QueueOK(q), Queues(q, id),
           Flow(frames, q, m, live, id, h), Opens(frames, q, m, id, routed, h),
           TracksUp(s, frames, h), DOMAIN s = RecFields,
           q[1].kind = "headers" => ~s.service,
           g = IF Carries(q[1]) THEN h + 1 ELSE h,
           reroute = IF routed # "none" THEN routed ELSE "first",
           UpOutcome(q[1], s, t)
    PROVE  TracksUp(t, frames, g) /\ KeepsDown(s, t, down, routed, reroute)
<1>1. reroute # "none" /\ (reroute = "first" => routed \in {"none", "first"})
  OBVIOUS
<1>2. IsSeq(s.events)
  BY DEF TracksUp
<1>3. CASE t = NewRecStream
  <2>1. TracksUp(t, frames, g)
    <3>1. TracksUp(NewRecStream, frames, g) /\ TracksDown(NewRecStream, frames, reroute, g)
      BY <1>1, NewTracks
    <3> QED
      BY <1>3, <3>1
  <2>2. KeepsDown(s, t, down, routed, reroute)
    <3> SUFFICES ASSUME NEW k \in Nat PROVE TracksDown(t, down, reroute, k)
      BY DEF KeepsDown
    <3> QED
      BY <1>1, <1>3, NewTracks
  <2> QED
    BY <2>1, <2>2
<1>4. CASE q[1].kind = "headers" /\ t = RoutedAs(q[1], s)
  <2>1. g = h
    <3>1. ~Carries(q[1])
      BY <1>4 DEF Carries
    <3> QED
      BY <3>1
  <2>2. /\ TracksUp(t, frames, h) /\ Len(Kept(t, "recv")) = 0
    <3>1. q[1].kind = "headers" /\ ~s.service
      BY <1>4
    <3> QED
      BY <1>4, <3>1, RoutedTracks
  <2>3. routed # "first"
    BY <1>4 DEF Opens
  <2>4. KeepsDown(s, t, down, routed, reroute)
    <3> SUFFICES ASSUME NEW k \in Nat, TracksDown(s, down, routed, k)
                 PROVE  TracksDown(t, down, reroute, k)
      BY DEF KeepsDown
    <3> QED
      BY <2>2, <2>3, DownRoutes
  <2> QED
    BY <2>1, <2>2, <2>4
<1>5. CASE q[1].kind = "message" /\ ~s.service /\ t = s
  <2>1. t = NewRecStream
    BY <1>5 DEF TracksUp
  <2> QED
    BY <1>3, <2>1
<1>6. CASE q[1].kind = "message" /\ s.service /\ t = SentAs(q[1], s)
  <2>1. TracksUp(t, frames, g) /\ ServesSame(s, t)
    <3>1. q[1].kind = "message" /\ s.service
      BY <1>6
    <3> QED
      BY <1>6, <3>1, SentTracks
  <2>2. KeepsDown(s, t, down, routed, reroute)
    <3> SUFFICES ASSUME NEW k \in Nat, TracksDown(s, down, routed, k)
                 PROVE  TracksDown(t, down, reroute, k)
      BY DEF KeepsDown
    <3>1. t.service = s.service /\ Kept(t, "recv") = Kept(s, "recv")
      BY <2>1 DEF ServesSame
    <3> QED
      BY <1>1, <1>2, <3>1, DownNotes
  <2> QED
    BY <2>1, <2>2
<1> QED
  BY <1>3, <1>4, <1>5, <1>6 DEF UpOutcome

LEMMA DownOutcomeTracks ==
    ASSUME NEW frames, NEW q, NEW m, NEW live, NEW id, NEW routed, NEW reroute,
           NEW h \in Nat, NEW g, NEW s, NEW t, NEW up,
           FramesOK(frames), IsSeq(q), QueueOK(q), Queues(q, id),
           Flow(frames, q, m, live, id, h), TracksDown(s, frames, routed, h),
           DOMAIN s = RecFields, IsSeq(s.events), ~s.service => s = NewRecStream,
           g = IF Carries(q[1]) THEN h + 1 ELSE h,
           reroute = IF routed # "none" THEN routed ELSE "overtaken",
           DownOutcome(q[1], s, t)
    PROVE  TracksDown(t, frames, reroute, g) /\ KeepsUp(s, t, up)
<1>1. reroute # "none" /\ (reroute = "first" => routed \in {"none", "first"})
  OBVIOUS
<1>2. CASE t = NewRecStream
  <2>1. TracksDown(t, frames, reroute, g)
    BY <1>1, <1>2, NewTracks
  <2>2. KeepsUp(s, t, up)
    BY <1>2, KeepsSame
  <2> QED
    BY <2>1, <2>2
<1>3. CASE ~s.service /\ t = s
  <2>1. t = NewRecStream
    BY <1>3
  <2> QED
    BY <1>2, <2>1
<1>4. CASE ~Carries(q[1]) /\ t = s
  <2>1. g = h
    BY <1>4
  <2>2. TracksDown(t, frames, reroute, h)
    BY <1>1, <1>4, DownNotes
  <2>3. KeepsUp(s, t, up)
    BY <1>4, KeepsSame
  <2> QED
    BY <2>1, <2>2, <2>3
<1>5. CASE Carries(q[1]) /\ s.service /\ t = ReceivedAs(q[1], s)
  <2>1. g = h + 1
    BY <1>5
  <2>2. TracksDown(t, frames, reroute, h + 1) /\ KeepsUp(s, t, up)
    BY <1>5, ReceivedTracks
  <2> QED
    BY <2>1, <2>2
<1> QED
  BY <1>2, <1>3, <1>4, <1>5 DEF DownOutcome

\* The events and pairs after Handle.
SavesAs(id, s) ==
    \/ saved' = saved
    \/ /\ s.service /\ ~s.compressed
       /\ \E typ, n, failed :
             saved' = Append(saved, [id |-> id, typ |-> typ, n |-> n,
                                     pair |-> PairOfEvents(s, failed)])

LEMMA FinishSaves ==
    ASSUME Shape, NEW id \in Ids, NEW s, NEW failed, Finish(id, s, failed)
    PROVE  /\ streams'[id] = NewRecStream /\ SavesAs(id, s)
           /\ \A j \in Ids \ {id} : streams'[j] = streams[j]
<1>1. DOMAIN streams = Ids /\ streams' = [streams EXCEPT ![id] = NewRecStream]
  BY DEF Shape, Finish
<1>2. SavesAs(id, s)
  <2>1. CASE ~s.service \/ s.compressed
    BY <2>1 DEF Finish, SavesAs
  <2>2. CASE ~(~s.service \/ s.compressed)
    <3>1. \/ saved' = saved
          \/ \E typ, n :
                saved' = Append(saved, [id |-> id, typ |-> typ, n |-> n,
                                        pair |-> PairOfEvents(s, failed)])
      BY <2>2, Zenon DEF Finish
    <3> QED
      BY <2>2, <3>1 DEF SavesAs
  <2> QED
    BY <2>1, <2>2
<1> QED
  BY <1>1, <1>2

LEMMA NotedSaves ==
    ASSUME Shape, NEW id \in Ids, NEW s, NEW t, Noted(id, t)
    PROVE  /\ streams'[id] = t /\ SavesAs(id, s)
           /\ \A j \in Ids \ {id} : streams'[j] = streams[j]
  BY DEF Shape, Noted, SavesAs

\* The event a decoder handles is the first of its queue.
LEMMA FirstEvent ==
    ASSUME Shape, NEW d \in Directions, dec[d].queued # << >>, NEW q, q = dec[d].queued
    PROVE  Head(q) = q[1] /\ EventOK(q[1])
<1>1. IsSeq(q) /\ \A i \in DOMAIN q : EventOK(q[i])
  BY DEF Shape
<1> QED
  BY <1>1, TailFacts

\* The client's decoder.
LEMMA HandleUpOutcome ==
    ASSUME Shape, Handle("up"), NEW q, q = dec["up"].queued, NEW ev, ev = q[1]
    PROVE  /\ q # << >> /\ EventOK(ev)
           /\ UpOutcome(ev, streams[ev.id], streams'[ev.id])
           /\ SavesAs(ev.id, streams[ev.id])
           /\ \A j \in Ids \ {ev.id} : streams'[j] = streams[j]
<1>1. "up" \in Directions /\ dec["up"].queued # << >>
  BY DEF Directions, Handle
<1>2. Head(dec["up"].queued) = ev /\ EventOK(ev)
  BY <1>1, FirstEvent
<1>3. PICK s : s = streams[ev.id]
  OBVIOUS
<1>4. IF ev.kind = "reset" THEN Finish(ev.id, s, TRUE)
      ELSE IF ev.kind = "headers" THEN RequestHeaders(ev, s) ELSE ClientMessage(ev, s)
  BY <1>2, <1>3 DEF Handle
<1>5. ev.id \in Ids /\ ev.kind \in {"headers", "reset", "message"}
  BY <1>2 DEF EventOK
<1>6. CASE ev.kind = "reset"
  <2>1. Finish(ev.id, s, TRUE)
    BY <1>4, <1>6
  <2>2. /\ streams'[ev.id] = NewRecStream /\ SavesAs(ev.id, s)
        /\ \A j \in Ids \ {ev.id} : streams'[j] = streams[j]
    BY <1>5, <2>1, FinishSaves
  <2> QED
    BY <1>1, <1>2, <1>3, <1>6, <2>2 DEF UpOutcome
<1>7. CASE ev.kind = "headers"
  <2>1. RequestHeaders(ev, s)
    BY <1>4, <1>7
  <2>2. Noted(ev.id, RoutedAs(ev, s))
    <3>1. CASE ev.path = "other"
      BY <2>1, <3>1 DEF RequestHeaders, RoutedAs
    <3>2. CASE ev.path # "other" /\ Compressed(ev)
      BY <2>1, <3>2 DEF RequestHeaders, RoutedAs
    <3>3. CASE ev.path # "other" /\ ~Compressed(ev) /\ ev.end
      BY <2>1, <3>3 DEF RequestHeaders, RoutedAs
    <3>4. CASE ev.path # "other" /\ ~Compressed(ev) /\ ~ev.end
      BY <2>1, <3>4 DEF RequestHeaders, RoutedAs
    <3> QED
      BY <3>1, <3>2, <3>3, <3>4
  <2>3. /\ streams'[ev.id] = RoutedAs(ev, s) /\ SavesAs(ev.id, s)
        /\ \A j \in Ids \ {ev.id} : streams'[j] = streams[j]
    BY <1>5, <2>2, NotedSaves
  <2> QED
    BY <1>1, <1>2, <1>3, <1>7, <2>3 DEF UpOutcome
<1>8. CASE ev.kind = "message"
  <2>1. ClientMessage(ev, s)
    BY <1>4, <1>8
  <2>2. CASE ~s.service
    <3>1. Noted(ev.id, s)
      BY <2>1, <2>2 DEF ClientMessage
    <3>2. /\ streams'[ev.id] = s /\ SavesAs(ev.id, s)
          /\ \A j \in Ids \ {ev.id} : streams'[j] = streams[j]
      BY <1>5, <3>1, NotedSaves
    <3> QED
      BY <1>1, <1>2, <1>3, <1>8, <2>2, <3>2 DEF UpOutcome
  <2>3. CASE s.service
    <3>1. Noted(ev.id, SentAs(ev, s))
      BY <2>1, <2>3 DEF ClientMessage, SentAs, WithMessage
    <3>2. /\ streams'[ev.id] = SentAs(ev, s) /\ SavesAs(ev.id, s)
          /\ \A j \in Ids \ {ev.id} : streams'[j] = streams[j]
      BY <1>5, <3>1, NotedSaves
    <3> QED
      BY <1>1, <1>2, <1>3, <1>8, <2>3, <3>2 DEF UpOutcome
  <2> QED
    BY <2>2, <2>3
<1> QED
  BY <1>5, <1>6, <1>7, <1>8

\* The server's decoder.
LEMMA HandleDownOutcome ==
    ASSUME Shape, Handle("down"), NEW q, q = dec["down"].queued, NEW ev, ev = q[1]
    PROVE  /\ q # << >> /\ EventOK(ev)
           /\ DownOutcome(ev, streams[ev.id], streams'[ev.id])
           /\ SavesAs(ev.id, streams[ev.id])
           /\ \A j \in Ids \ {ev.id} : streams'[j] = streams[j]
<1>1. "down" \in Directions /\ dec["down"].queued # << >> /\ "down" # "up"
  BY DEF Directions, Handle
<1>2. Head(dec["down"].queued) = ev /\ EventOK(ev)
  BY <1>1, FirstEvent
<1>3. PICK s : s = streams[ev.id]
  OBVIOUS
<1>4. IF ev.kind = "reset" THEN Finish(ev.id, s, TRUE)
      ELSE IF ev.kind = "headers" THEN ResponseHeaders(ev, s) ELSE ServerMessage(ev, s)
  BY <1>1, <1>2, <1>3 DEF Handle
<1>5. ev.id \in Ids /\ ev.kind \in {"headers", "reset", "message"}
  BY <1>2 DEF EventOK
<1>6. ASSUME NEW failed, Finish(ev.id, s, failed), ev.kind = "reset" \/ IsTrailers(ev)
      PROVE  /\ DownOutcome(ev, s, streams'[ev.id]) /\ SavesAs(ev.id, s)
             /\ \A j \in Ids \ {ev.id} : streams'[j] = streams[j]
  <2>1. /\ streams'[ev.id] = NewRecStream /\ SavesAs(ev.id, s)
        /\ \A j \in Ids \ {ev.id} : streams'[j] = streams[j]
    BY <1>5, <1>6, FinishSaves
  <2> QED
    BY <1>6, <2>1 DEF DownOutcome
<1>7. ASSUME NEW t, Noted(ev.id, t), DownOutcome(ev, s, t)
      PROVE  /\ DownOutcome(ev, s, streams'[ev.id]) /\ SavesAs(ev.id, s)
             /\ \A j \in Ids \ {ev.id} : streams'[j] = streams[j]
  <2>1. /\ streams'[ev.id] = t /\ SavesAs(ev.id, s)
        /\ \A j \in Ids \ {ev.id} : streams'[j] = streams[j]
    BY <1>5, <1>7, NotedSaves
  <2> QED
    BY <1>7, <2>1
<1>8. ~Carries(ev) \/ ~s.service => DownOutcome(ev, s, s)
  BY DEF DownOutcome
<1>9. CASE ev.kind = "reset"
  <2>1. Finish(ev.id, s, TRUE)
    BY <1>4, <1>9
  <2> QED
    BY <1>1, <1>2, <1>3, <1>6, <1>9, <2>1
<1>10. CASE ev.kind = "headers"
  <2>1. ResponseHeaders(ev, s)
    BY <1>4, <1>10
  <2>2. \/ Noted(ev.id, s)
        \/ Finish(ev.id, s, ev.status # "OK") /\ IsTrailers(ev)
    <3>1. CASE ~s.service \/ Compressed(ev) \/ ev.status = "none"
      BY <2>1, <3>1 DEF ResponseHeaders
    <3>2. CASE ~(~s.service \/ Compressed(ev) \/ ev.status = "none")
      <4>1. Finish(ev.id, s, ev.status # "OK")
        BY <2>1, <3>2 DEF ResponseHeaders
      <4>2. IsTrailers(ev)
        BY <1>10, <3>2 DEF IsTrailers
      <4> QED
        BY <4>1, <4>2
    <3> QED
      BY <3>1, <3>2
  <2>3. DownOutcome(ev, s, s)
    BY <1>8, <1>10 DEF Carries
  <2> QED
    BY <1>1, <1>2, <1>3, <1>6, <1>7, <2>2, <2>3
<1>11. CASE ev.kind = "message"
  <2>1. ServerMessage(ev, s)
    BY <1>4, <1>11
  <2>2. CASE ~s.service \/ ev.message = << >>
    <3>1. Noted(ev.id, s)
      BY <2>1, <2>2 DEF ServerMessage
    <3>2. DownOutcome(ev, s, s)
      BY <1>8, <2>2 DEF Carries
    <3> QED
      BY <1>1, <1>2, <1>3, <1>7, <3>1, <3>2
  <2>3. CASE ~(~s.service \/ ev.message = << >>)
    <3>1. Noted(ev.id, ReceivedAs(ev, s))
      BY <2>1, <2>3 DEF ServerMessage, ReceivedAs
    <3>2. DownOutcome(ev, s, ReceivedAs(ev, s))
      BY <1>11, <2>3 DEF DownOutcome, Carries
    <3> QED
      BY <1>1, <1>2, <1>3, <1>7, <3>1, <3>2
  <2> QED
    BY <2>2, <2>3
<1> QED
  BY <1>5, <1>9, <1>10, <1>11

\* The queue after an event is handled: the rest of it, or nothing when the
\* decoder has stopped at headers it refuses.
Passed(q, n, live, alive) ==
    \/ n = Tail(q) /\ (alive <=> live)
    \/ n = << >> /\ ~alive /\ ~Carries(q[1])

LEMMA PassedOK ==
    ASSUME NEW q, NEW n, NEW live, NEW alive, IsSeq(q), QueueOK(q), q # << >>,
           Passed(q, n, live, alive)
    PROVE  /\ QueueOK(n) /\ (n = << >> \/ Carries(n[1]))
           /\ \A id \in Ids : Queues(n, id) => Queues(q, id)
<1>1. CASE n = << >>
  BY <1>1, ShortSeqs DEF QueueOK, Queues
<1>2. CASE n = Tail(q)
  <2>1. \A id \in Ids : Queues(Tail(q), id) => Queues(q, id)
    <3> SUFFICES ASSUME NEW id \in Ids PROVE Queues(Tail(q), id) => Queues(q, id)
      OBVIOUS
    <3> QED
      BY TailOK
  <2>2. QueueOK(Tail(q)) /\ (Tail(q) # << >> => Carries(Tail(q)[1]))
    BY TailOK
  <2> QED
    BY <1>2, <2>1, <2>2
<1> QED
  BY <1>1, <1>2 DEF Passed

LEMMA FlowPasses ==
    ASSUME NEW frames, NEW q, NEW n, NEW m, NEW live, NEW alive, NEW id, NEW h \in Nat,
           FramesOK(frames), IsSeq(q), QueueOK(q), q # << >>,
           Flow(frames, q, m, live, id, h), Passed(q, n, live, alive),
           NEW g, g = IF Queues(q, id) /\ Carries(q[1]) THEN h + 1 ELSE h
    PROVE  Flow(frames, n, m, alive, id, g) /\ g \in Nat
<1>1. g \in Nat
  OBVIOUS
<1>2. CASE n = Tail(q) /\ (alive <=> live)
  <2>1. Flow(frames, Tail(q), m, live, id, g)
    BY FlowHandles
  <2> QED
    BY <1>1, <1>2, <2>1 DEF Flow
<1>3. CASE n = << >> /\ ~alive /\ ~Carries(q[1])
  <2>1. Flow(frames, << >>, m, FALSE, id, h)
    BY <1>3, FlowStops
  <2>2. g = h
    BY <1>3
  <2> QED
    BY <1>1, <1>3, <2>1, <2>2 DEF Flow
<1> QED
  BY <1>2, <1>3 DEF Passed

\* What Handle does around the tracker.
LEMMA HandleAround ==
    ASSUME IInv, DOMAIN routing = Ids, NEW d \in Directions, Handle(d),
           NEW q, q = dec[d].queued, NEW ev, ev = q[1]
    PROVE  /\ sent' = sent /\ replied' = replied /\ mirror' = mirror /\ pipe' = pipe
           /\ q # << >> /\ IsSeq(q) /\ ev.id \in Ids
           /\ \A o \in Directions \ {d} : dec'[o] = dec[o]
           /\ Passed(q, dec'[d].queued, Live(d), Live(d)')
           /\ dec'[d].at # "preface"
           /\ DOMAIN routing' = Ids
           /\ \A j \in Ids \ {ev.id} : routing'[j] = routing[j]
           /\ routing'[ev.id] = IF routing[ev.id] # "none" THEN routing[ev.id]
                                ELSE IF d = "up" THEN "first" ELSE "overtaken"
<1>1. Shape /\ dec[d].queued # << >>
  BY DEF IInv, Handle
<1>2. Head(dec[d].queued) = ev /\ EventOK(ev)
  BY <1>1, FirstEvent
<1>3. ev.id \in Ids
  BY <1>2 DEF EventOK
<1>4. sent' = sent /\ replied' = replied /\ mirror' = mirror /\ pipe' = pipe
  BY DEF Handle, liveVars
<1>5. routing' = IF routing[ev.id] # "none" THEN routing
                 ELSE [routing EXCEPT ![ev.id] =
                          IF d = "up" THEN "first" ELSE "overtaken"]
  BY <1>2 DEF Handle
<1>6. /\ DOMAIN routing' = Ids
      /\ \A j \in Ids \ {ev.id} : routing'[j] = routing[j]
      /\ routing'[ev.id] = IF routing[ev.id] # "none" THEN routing[ev.id]
                           ELSE IF d = "up" THEN "first" ELSE "overtaken"
  BY <1>3, <1>5
<1>7. IsSeq(q) /\ DOMAIN dec = Directions /\ DOMAIN dec[d] = {"at", "queued"}
  BY <1>1 DEF Shape
<1>8. \/ /\ Refused(d, ev, streams[ev.id])
         /\ dec' = [dec EXCEPT ![d] = [at |-> "gone", queued |-> << >>]]
      \/ dec' = [dec EXCEPT ![d].queued = Tail(@)]
  BY <1>2, Zenon DEF Handle
<1>9. CASE /\ Refused(d, ev, streams[ev.id])
           /\ dec' = [dec EXCEPT ![d] = [at |-> "gone", queued |-> << >>]]
  <2>1. /\ dec'[d].at = "gone" /\ dec'[d].queued = << >>
        /\ \A o \in Directions \ {d} : dec'[o] = dec[o]
    BY <1>7, <1>9
  <2>2. ~Carries(ev)
    BY <1>9 DEF Refused, Carries
  <2>3. ~Live(d)'
    BY <2>1 DEF Live
  <2>4. Passed(q, dec'[d].queued, Live(d), Live(d)')
    BY <2>1, <2>2, <2>3 DEF Passed
  <2> QED
    BY <1>1, <1>3, <1>4, <1>6, <1>7, <2>1, <2>4
<1>10. CASE dec' = [dec EXCEPT ![d].queued = Tail(@)]
  <2>1. /\ dec'[d].at = dec[d].at /\ dec'[d].queued = Tail(q)
        /\ \A o \in Directions \ {d} : dec'[o] = dec[o]
    BY <1>7, <1>10
  <2>2. dec[d].at # "preface"
    BY <1>1 DEF Shape
  <2>3. Live(d)' <=> Live(d)
    BY <1>4, <2>1 DEF Live
  <2>4. Passed(q, dec'[d].queued, Live(d), Live(d)')
    BY <2>1, <2>3 DEF Passed
  <2> QED
    BY <1>1, <1>3, <1>4, <1>6, <1>7, <2>1, <2>2, <2>4
<1> QED
  BY <1>8, <1>9, <1>10

\* The pair a finished stream leaves is of one call.
LEMMA SavedPairsOK ==
    ASSUME IInv, CallInv, NEW id \in Ids, SavesAs(id, streams[id]),
           sent' = sent, replied' = replied
    PROVE  PairsOK'
<1>1. PairsOK /\ Wired /\ Upward(id) /\ Downward(id)
  BY DEF CallInv
<1>2. IsSeq(saved)
  BY DEF IInv, Shape
<1>3. CASE saved' = saved
  BY <1>1, <1>3 DEF PairsOK
<1>4. CASE saved' # saved
  <2>1. PICK typ, n, failed :
           saved' = Append(saved, [id |-> id, typ |-> typ, n |-> n,
                                   pair |-> PairOfEvents(streams[id], failed)])
    BY <1>4 DEF SavesAs
  <2>2. streams[id].service /\ ~streams[id].compressed
    BY <1>4 DEF SavesAs
  <2>3. PICK h \in Nat :
           /\ Flow(sent[id], dec["up"].queued, mirror["up"], Live("up"), id, h)
           /\ TracksUp(streams[id], sent[id], h)
    BY <1>1 DEF Upward
  <2>4. PICK g \in Nat :
           /\ Flow(replied[id], dec["down"].queued, mirror["down"], Live("down"), id, g)
           /\ TracksDown(streams[id], replied[id], routing[id], g)
    BY <1>1 DEF Downward
  <2>5. FramesOK(sent[id]) /\ FramesOK(replied[id])
    BY <1>1 DEF Wired
  <2>6. ASSUME NEW frames, NEW d \in Directions, NEW k \in Nat, FramesOK(frames),
               Flow(frames, dec[d].queued, mirror[d], Live(d), id, k)
        PROVE  k <= Len(MessagesIn(frames))
    <3>1. IsSeq(dec[d].queued) /\ (mirror[d] = << >> \/ \E f : FrameOK(f) /\ mirror[d] = <<f>>)
      BY DEF IInv, Shape
    <3>2. Waiting(dec[d].queued, id) \in Nat
      BY <3>1, Counts
    <3>3. Len(MessagesIn(frames)) \in Nat
      BY <2>6, MessagesAreSeq, AppendFacts
    <3>4. k + Waiting(dec[d].queued, id) <= Len(MessagesIn(frames))
      BY <2>6 DEF Flow
    <3> QED
      BY <3>2, <3>3, <3>4
  <2>7. "up" \in Directions /\ "down" \in Directions
    BY DEF Directions
  <2>8. h <= Len(MessagesIn(sent[id])) /\ g <= Len(MessagesIn(replied[id]))
    BY <2>3, <2>4, <2>5, <2>6, <2>7
  <2>9. PairOK(sent[id], replied[id], PairOfEvents(streams[id], failed))
    BY <2>2, <2>3, <2>4, <2>5, <2>8, FinishedPairOK
  <2>10. PICK p : p = [id |-> id, typ |-> typ, n |-> n,
                       pair |-> PairOfEvents(streams[id], failed)]
    OBVIOUS
  <2>11. /\ p.id = id /\ PairOK(sent[id], replied[id], p.pair)
         /\ saved' = Append(saved, p)
    BY <2>1, <2>9, <2>10
  <2>12. ASSUME NEW i \in DOMAIN saved'
         PROVE  PairOK(sent[saved'[i].id], replied[saved'[i].id], saved'[i].pair)
    <3>1. \/ i \in DOMAIN saved /\ saved'[i] = saved[i]
          \/ saved'[i] = p
      BY <1>2, <2>11, AppendFacts
    <3>2. CASE saved'[i] = p
      BY <2>11, <3>2
    <3>3. CASE i \in DOMAIN saved /\ saved'[i] = saved[i]
      BY <1>1, <3>3 DEF PairsOK
    <3> QED
      BY <3>1, <3>2, <3>3
  <2> QED
    BY <2>12 DEF PairsOK
<1> QED
  BY <1>3, <1>4

\* The queues after Handle are well formed.
LEMMA HandleWired ==
    ASSUME IInv, CallInv, NEW d \in Directions, Handle(d)
    PROVE  Wired'
<1>1. Wired
  BY DEF CallInv
<1>2. PICK q, ev : q = dec[d].queued /\ ev = q[1]
  OBVIOUS
<1>3. DOMAIN routing = Ids
  BY <1>1 DEF Wired
<1>4. /\ sent' = sent /\ replied' = replied /\ mirror' = mirror
      /\ q # << >> /\ IsSeq(q) /\ DOMAIN routing' = Ids
      /\ \A o \in Directions \ {d} : dec'[o] = dec[o]
      /\ Passed(q, dec'[d].queued, Live(d), Live(d)')
      /\ dec'[d].at # "preface"
  BY <1>2, <1>3, HandleAround
<1>5. QueueOK(q)
  BY <1>1, <1>2 DEF Wired
<1>6. QueueOK(dec'[d].queued)
  BY <1>4, <1>5, PassedOK
<1>7. ASSUME NEW o \in Directions
      PROVE  /\ QueueOK(dec'[o].queued)
             /\ dec'[o].at = "preface" /\ mirror'[o] # << >> =>
                   mirror'[o][1].kind = "preface"
  <2>1. CASE o = d
    BY <1>4, <1>6, <2>1
  <2>2. CASE o # d
    BY <1>1, <1>4, <2>2 DEF Wired
  <2> QED
    BY <2>1, <2>2
<1>8. dec'["down"].at # "preface"
  <2>1. "down" \in Directions
    BY DEF Directions
  <2>2. CASE d = "down"
    BY <1>4, <2>2
  <2>3. CASE d # "down"
    BY <1>1, <1>4, <2>1, <2>3 DEF Wired
  <2> QED
    BY <2>2, <2>3
<1> QED
  BY <1>1, <1>4, <1>7, <1>8 DEF Wired

\* An event of the client.
LEMMA HandleUpCall ==
    ASSUME IInv, CallInv, Handle("up")
    PROVE  CallInv'
<1>1. /\ "up" \in Directions /\ "down" \in Directions /\ "up" # "down"
      /\ Wired /\ Shape /\ HeadersOnce
  BY DEF Directions, CallInv, IInv
<1>2. PICK q, ev : q = dec["up"].queued /\ ev = q[1]
  OBVIOUS
<1>3. DOMAIN routing = Ids /\ QueueOK(q)
  BY <1>1, <1>2 DEF Wired
<1>4. /\ sent' = sent /\ replied' = replied /\ mirror' = mirror /\ pipe' = pipe
      /\ q # << >> /\ IsSeq(q) /\ ev.id \in Ids
      /\ dec'["down"] = dec["down"]
      /\ Passed(q, dec'["up"].queued, Live("up"), Live("up")')
      /\ \A j \in Ids \ {ev.id} : routing'[j] = routing[j]
      /\ routing'[ev.id] = IF routing[ev.id] # "none" THEN routing[ev.id] ELSE "first"
  BY <1>1, <1>2, <1>3, HandleAround
<1>5. /\ UpOutcome(ev, streams[ev.id], streams'[ev.id])
      /\ SavesAs(ev.id, streams[ev.id])
      /\ \A j \in Ids \ {ev.id} : streams'[j] = streams[j]
  BY <1>1, <1>2, HandleUpOutcome
<1>6. PICK n : n = dec'["up"].queued
  OBVIOUS
<1>7. /\ n = << >> \/ Carries(n[1])
      /\ \A id \in Ids : Queues(n, id) => Queues(q, id)
  BY <1>3, <1>4, <1>6, PassedOK
<1>8. Live("down")' <=> Live("down")
  BY <1>4 DEF Live
<1>9. ev.kind = "headers" => ~streams[ev.id].service
  <2>1. 1 \in DOMAIN q
    BY <1>4, AppendFacts DEF IsSeq
  <2>2. ev.kind = "headers" => InDecoder(ev.id)
    BY <1>2, <2>1 DEF InDecoder
  <2> QED
    BY <1>1, <1>4, <2>2 DEF HeadersOnce
<1>10. ASSUME NEW j \in Ids PROVE Upward(j)' /\ Downward(j)'
  <2>1. FramesOK(sent[j]) /\ DOMAIN streams[j] = RecFields
    BY <1>1 DEF Wired, Shape
  <2>2. PICK h \in Nat : /\ Flow(sent[j], q, mirror["up"], Live("up"), j, h)
                         /\ Opens(sent[j], q, mirror["up"], j, routing[j], h)
                         /\ TracksUp(streams[j], sent[j], h)
    BY <1>2 DEF CallInv, Upward
  <2>3. Downward(j)
    BY DEF CallInv
  <2>4. PICK g : g = IF Queues(q, j) /\ Carries(q[1]) THEN h + 1 ELSE h
    OBVIOUS
  <2>5. Flow(sent[j], n, mirror["up"], Live("up")', j, g) /\ g \in Nat
    BY <1>3, <1>4, <1>6, <2>1, <2>2, <2>4, FlowPasses
  <2>6. Queues(q, j) <=> j = ev.id
    BY <1>2, <1>4 DEF Queues
  <2>7. Queues(q, j) => sent[j] # << >>
    BY <2>2 DEF Flow
  <2>8. Opens(sent[j], n, mirror["up"], j, routing'[j], g)
    <3>1. ~Queues(q, j) => routing'[j] = routing[j] /\ g = h /\ ~Queues(n, j)
      BY <1>4, <1>7, <2>4, <2>6
    <3> QED
      BY <1>7, <2>2, <2>7, <3>1, OpensHandles
  <2>9. /\ TracksUp(streams'[j], sent[j], g)
        /\ KeepsDown(streams[j], streams'[j], replied[j], routing[j], routing'[j])
    <3>1. CASE j = ev.id
      <4>1. PICK s, t, routed, reroute : /\ s = streams[j] /\ t = streams'[j]
                                         /\ routed = routing[j] /\ reroute = routing'[j]
        OBVIOUS
      <4>2. Queues(q, j)
        BY <2>6, <3>1
      <4>3. g = IF Carries(q[1]) THEN h + 1 ELSE h
        BY <2>4, <4>2
      <4>4. reroute = IF routed # "none" THEN routed ELSE "first"
        BY <1>4, <3>1, <4>1
      <4>5. UpOutcome(q[1], s, t) /\ (q[1].kind = "headers" => ~s.service)
        BY <1>2, <1>5, <1>9, <3>1, <4>1
      <4>6. /\ Opens(sent[j], q, mirror["up"], j, routed, h)
            /\ TracksUp(s, sent[j], h) /\ DOMAIN s = RecFields
        BY <2>1, <2>2, <4>1
      <4>7. TracksUp(t, sent[j], g) /\ KeepsDown(s, t, replied[j], routed, reroute)
        <5>1. FramesOK(sent[j]) /\ IsSeq(q) /\ QueueOK(q)
          BY <1>3, <1>4, <2>1
        <5>2. Flow(sent[j], q, mirror["up"], Live("up"), j, h)
          BY <2>2
        <5> QED
          BY <4>2, <4>3, <4>4, <4>5, <4>6, <5>1, <5>2, UpOutcomeTracks
      <4> QED
        BY <4>1, <4>7
    <3>2. CASE j # ev.id
      <4>1. g = h /\ streams'[j] = streams[j] /\ routing'[j] = routing[j]
        BY <1>4, <1>5, <2>4, <2>6, <3>2
      <4> QED
        BY <2>2, <4>1 DEF KeepsDown
    <3> QED
      BY <3>1, <3>2
  <2>10. Upward(j)'
    <3>1. sent'[j] = sent[j] /\ mirror'["up"] = mirror["up"]
      BY <1>4
    <3> QED
      BY <1>6, <2>5, <2>8, <2>9, <3>1 DEF Upward
  <2>11. Downward(j)'
    <3>1. StillMirrors(mirror["down"], mirror'["down"], Live("down")', j)
      BY <1>4 DEF StillMirrors
    <3>2. replied'[j] = replied[j] /\ dec'["down"].queued = dec["down"].queued
      BY <1>4
    <3> QED
      BY <1>8, <2>3, <2>9, <3>1, <3>2, DownwardStays
  <2> QED
    BY <2>10, <2>11
<1>11. PairsOK'
  BY <1>4, <1>5, SavedPairsOK
<1>12. Wired'
  BY <1>1, HandleWired
<1> QED
  BY <1>10, <1>11, <1>12 DEF CallInv

\* An event of the server.
LEMMA HandleDownCall ==
    ASSUME IInv, CallInv, Handle("down")
    PROVE  CallInv'
<1>1. /\ "up" \in Directions /\ "down" \in Directions /\ "up" # "down"
      /\ Wired /\ Shape
  BY DEF Directions, CallInv, IInv
<1>2. PICK q, ev : q = dec["down"].queued /\ ev = q[1]
  OBVIOUS
<1>3. DOMAIN routing = Ids /\ QueueOK(q)
  BY <1>1, <1>2 DEF Wired
<1>4. /\ sent' = sent /\ replied' = replied /\ mirror' = mirror /\ pipe' = pipe
      /\ q # << >> /\ IsSeq(q) /\ ev.id \in Ids
      /\ dec'["up"] = dec["up"]
      /\ Passed(q, dec'["down"].queued, Live("down"), Live("down")')
      /\ \A j \in Ids \ {ev.id} : routing'[j] = routing[j]
      /\ routing'[ev.id] = IF routing[ev.id] # "none" THEN routing[ev.id]
                           ELSE "overtaken"
  BY <1>1, <1>2, <1>3, HandleAround
<1>5. /\ DownOutcome(ev, streams[ev.id], streams'[ev.id])
      /\ SavesAs(ev.id, streams[ev.id])
      /\ \A j \in Ids \ {ev.id} : streams'[j] = streams[j]
  BY <1>1, <1>2, HandleDownOutcome
<1>6. PICK n : n = dec'["down"].queued
  OBVIOUS
<1>7. Live("up")' <=> Live("up")
  BY <1>4 DEF Live
<1>8. ASSUME NEW j \in Ids PROVE Upward(j)' /\ Downward(j)'
  <2>1. FramesOK(replied[j]) /\ DOMAIN streams[j] = RecFields
    BY <1>1 DEF Wired, Shape
  <2>2. PICK h \in Nat : /\ Flow(replied[j], q, mirror["down"], Live("down"), j, h)
                         /\ TracksDown(streams[j], replied[j], routing[j], h)
    BY <1>2 DEF CallInv, Downward
  <2>3. Upward(j)
    BY DEF CallInv
  <2>4. PICK g : g = IF Queues(q, j) /\ Carries(q[1]) THEN h + 1 ELSE h
    OBVIOUS
  <2>5. Flow(replied[j], n, mirror["down"], Live("down")', j, g) /\ g \in Nat
    BY <1>3, <1>4, <1>6, <2>1, <2>2, <2>4, FlowPasses
  <2>6. Queues(q, j) <=> j = ev.id
    BY <1>2, <1>4 DEF Queues
  <2>7. IsSeq(streams[j].events) /\ (~streams[j].service => streams[j] = NewRecStream)
    BY <2>3 DEF Upward, TracksUp
  <2>8. /\ TracksDown(streams'[j], replied[j], routing'[j], g)
        /\ KeepsUp(streams[j], streams'[j], sent[j])
    <3>1. CASE j = ev.id
      <4>1. PICK s, t, routed, reroute : /\ s = streams[j] /\ t = streams'[j]
                                         /\ routed = routing[j] /\ reroute = routing'[j]
        OBVIOUS
      <4>2. Queues(q, j)
        BY <2>6, <3>1
      <4>3. g = IF Carries(q[1]) THEN h + 1 ELSE h
        BY <2>4, <4>2
      <4>4. reroute = IF routed # "none" THEN routed ELSE "overtaken"
        BY <1>4, <3>1, <4>1
      <4>5. DownOutcome(q[1], s, t)
        BY <1>2, <1>5, <3>1, <4>1
      <4>6. /\ TracksDown(s, replied[j], routed, h) /\ DOMAIN s = RecFields
            /\ IsSeq(s.events) /\ (~s.service => s = NewRecStream)
        BY <2>1, <2>2, <2>7, <4>1
      <4>7. TracksDown(t, replied[j], reroute, g) /\ KeepsUp(s, t, sent[j])
        <5>1. FramesOK(replied[j]) /\ IsSeq(q) /\ QueueOK(q)
          BY <1>3, <1>4, <2>1
        <5>2. Flow(replied[j], q, mirror["down"], Live("down"), j, h)
          BY <2>2
        <5> QED
          BY <4>2, <4>3, <4>4, <4>5, <4>6, <5>1, <5>2, DownOutcomeTracks
      <4> QED
        BY <4>1, <4>7
    <3>2. CASE j # ev.id
      <4>1. g = h /\ streams'[j] = streams[j] /\ routing'[j] = routing[j]
        BY <1>4, <1>5, <2>4, <2>6, <3>2
      <4> QED
        BY <2>2, <4>1 DEF KeepsUp
    <3> QED
      BY <3>1, <3>2
  <2>9. Downward(j)'
    <3>1. replied'[j] = replied[j] /\ mirror'["down"] = mirror["down"]
      BY <1>4
    <3> QED
      BY <1>6, <2>5, <2>8, <3>1 DEF Downward
  <2>10. Upward(j)'
    <3>1. StillMirrors(mirror["up"], mirror'["up"], Live("up")', j)
      BY <1>4 DEF StillMirrors
    <3>2. /\ sent'[j] = sent[j] /\ dec'["up"].queued = dec["up"].queued
          /\ routing'[j] = routing[j] \/ routing'[j] = "overtaken"
      BY <1>4
    <3> QED
      BY <1>7, <2>3, <2>8, <3>1, <3>2, UpwardStays
  <2> QED
    BY <2>9, <2>10
<1>9. PairsOK'
  BY <1>4, <1>5, SavedPairsOK
<1>10. Wired'
  BY <1>1, HandleWired
<1> QED
  BY <1>8, <1>9, <1>10 DEF CallInv

-----------------------------------------------------------------------------
(***************************************************************************)
(* A saved pair is of one call.                                            *)
(***************************************************************************)

\* Nothing is on its way and nothing is noted at first.
LEMMA InitCall ==
    ASSUME Init
    PROVE  CallInv
<1>1. /\ \A id \in Ids : sent[id] = << >> /\ replied[id] = << >>
      /\ \A d \in Directions : mirror[d] = << >> /\ dec[d].queued = << >>
      /\ \A id \in Ids : streams[id] = NewRecStream /\ routing[id] = "none"
      /\ saved = << >> /\ DOMAIN replied = Ids /\ DOMAIN routing = Ids
      /\ dec["down"].at = "read"
  BY DEF Init, Directions
<1>2. "up" \in Directions /\ "down" \in Directions
  BY DEF Directions
<1>3. FramesOK(<< >>) /\ QueueOK(<< >>)
  BY ShortSeqs DEF FramesOK, QueueOK
<1>4. Wired
  BY <1>1, <1>3 DEF Wired
<1>5. PairsOK
  BY <1>1, ShortSeqs DEF PairsOK
<1>6. ASSUME NEW id, NEW live
      PROVE  /\ Flow(<< >>, << >>, << >>, live, id, 0)
             /\ Opens(<< >>, << >>, << >>, id, "none", 0)
  <2>1. Waiting(<< >>, id) = 0 /\ Held(<< >>, id) = 0 /\ ~Queues(<< >>, id)
        /\ ~Mirrors(<< >>, id)
    BY DEF Waiting, Held, Queues, Mirrors
  <2>2. MessagesIn(<< >>) = << >> /\ Len(<< >>) = 0
    BY NoMessages
  <2>3. Flow(<< >>, << >>, << >>, live, id, 0)
    BY <2>1, <2>2 DEF Flow
  <2> QED
    BY <2>1, <2>3 DEF Opens
<1>7. /\ TracksUp(NewRecStream, << >>, 0)
      /\ TracksDown(NewRecStream, << >>, "none", 0)
  BY NewTracks
<1>8. ASSUME NEW id \in Ids PROVE Upward(id)
  BY <1>1, <1>2, <1>6, <1>7 DEF Upward
<1>9. ASSUME NEW id \in Ids PROVE Downward(id)
  BY <1>1, <1>2, <1>6, <1>7 DEF Downward
<1> QED
  BY <1>4, <1>5, <1>8, <1>9 DEF CallInv

\* Steps that move neither a frame nor an event to where it matters.
LEMMA QuietStepsCall ==
    ASSUME IInv, CallInv,
           \/ WritePreface \/ ReadFails \/ Close \/ ClosePipes \/ CloseReturns
           \/ UNCHANGED vars
           \/ \E d \in Directions : MirrorFails(d) \/ DecoderEnds(d)
    PROVE  CallInv'
<1>1. "up" \in Directions /\ DOMAIN mirror = Directions /\ DOMAIN dec = Directions
      /\ \A o \in Directions : DOMAIN dec[o] = {"at", "queued"}
  BY DEF Directions, IInv, Shape
<1>2. CASE WritePreface
  <2>1. /\ sent' = sent /\ replied' = replied /\ saved' = saved /\ routing' = routing
        /\ dec' = dec /\ pipe' = pipe /\ streams' = streams
        /\ mirror' = [mirror EXCEPT !["up"] = <<Preface>>] /\ mirror["up"] = << >>
    BY <1>2 DEF WritePreface, liveVars, trackerVars
  <2>2. ASSUME NEW d \in Directions
        PROVE  /\ dec'[d].queued = dec[d].queued
               /\ dec'[d].at = "preface" => dec[d].at = "preface"
               /\ Live(d)' => Live(d)
               /\ \/ mirror'[d] = mirror[d]
                  \/ mirror'[d] = << >> /\ ~Live(d)'
                  \/ mirror[d] = << >> /\ mirror'[d] = <<Preface>>
    BY <1>1, <2>1 DEF Live
  <2> QED
    BY <2>1, <2>2, QuietCall
<1>3. CASE ReadFails \/ Close \/ ClosePipes \/ CloseReturns \/ UNCHANGED vars
  <2>1. /\ sent' = sent /\ replied' = replied /\ saved' = saved /\ routing' = routing
        /\ dec' = dec /\ mirror' = mirror
    BY <1>3 DEF ReadFails, Close, ClosePipes, CloseReturns, vars, liveVars, trackerVars
  <2>2. \A id \in Ids : streams'[id] = streams[id] \/ streams'[id] = NewRecStream
    BY <1>3 DEF ReadFails, Close, ClosePipes, CloseReturns, vars, liveVars, trackerVars
  <2>3. ASSUME NEW d \in Directions PROVE pipe'[d] = "open" => pipe[d] = "open"
    <3>1. CASE ReadFails
      <4>1. PICK err \in {"EOF", "failed"} :
               pipe["down"] = "open" /\ pipe' = [pipe EXCEPT !["down"] = err]
        BY <3>1 DEF ReadFails
      <4> QED
        BY <4>1
    <3>2. CASE ClosePipes
      BY <3>2 DEF ClosePipes
    <3>3. CASE Close \/ CloseReturns \/ UNCHANGED vars
      BY <3>3 DEF Close, CloseReturns, vars
    <3> QED
      BY <1>3, <3>1, <3>2, <3>3
  <2>4. ASSUME NEW d \in Directions
        PROVE  /\ dec'[d].queued = dec[d].queued
               /\ dec'[d].at = "preface" => dec[d].at = "preface"
               /\ Live(d)' => Live(d)
               /\ \/ mirror'[d] = mirror[d]
                  \/ mirror'[d] = << >> /\ ~Live(d)'
                  \/ mirror[d] = << >> /\ mirror'[d] = <<Preface>>
    BY <2>1, <2>3 DEF Live
  <2> QED
    BY <2>1, <2>2, <2>4, QuietCall
<1>4. ASSUME NEW e \in Directions, MirrorFails(e) PROVE CallInv'
  <2>1. /\ sent' = sent /\ replied' = replied /\ saved' = saved /\ routing' = routing
        /\ dec' = dec /\ pipe' = pipe /\ streams' = streams
        /\ mirror' = [mirror EXCEPT ![e] = << >>] /\ pipe[e] # "open"
    BY <1>4 DEF MirrorFails, liveVars, trackerVars
  <2>2. ASSUME NEW d \in Directions
        PROVE  /\ dec'[d].queued = dec[d].queued
               /\ dec'[d].at = "preface" => dec[d].at = "preface"
               /\ Live(d)' => Live(d)
               /\ \/ mirror'[d] = mirror[d]
                  \/ mirror'[d] = << >> /\ ~Live(d)'
                  \/ mirror[d] = << >> /\ mirror'[d] = <<Preface>>
    BY <1>1, <2>1 DEF Live
  <2> QED
    BY <2>1, <2>2, QuietCall
<1>5. ASSUME NEW e \in Directions, DecoderEnds(e) PROVE CallInv'
  <2>1. /\ sent' = sent /\ replied' = replied /\ saved' = saved /\ routing' = routing
        /\ mirror' = mirror /\ pipe' = pipe /\ streams' = streams
        /\ dec' = [dec EXCEPT ![e].at = "gone"]
    BY <1>5 DEF DecoderEnds, liveVars, trackerVars
  <2>2. ASSUME NEW d \in Directions
        PROVE  /\ dec'[d].queued = dec[d].queued
               /\ dec'[d].at = "preface" => dec[d].at = "preface"
               /\ Live(d)' => Live(d)
               /\ \/ mirror'[d] = mirror[d]
                  \/ mirror'[d] = << >> /\ ~Live(d)'
                  \/ mirror[d] = << >> /\ mirror'[d] = <<Preface>>
    BY <1>1, <2>1 DEF Live
  <2> QED
    BY <2>1, <2>2, QuietCall
<1> QED
  BY <1>2, <1>3, <1>4, <1>5

\* Every step of the tap keeps the calls apart and complete.
LEMMA NextCall == IInv /\ CallInv /\ [Next]_vars => CallInv'
<1> SUFFICES ASSUME IInv, CallInv, [Next]_vars PROVE CallInv'
  OBVIOUS
<1>1. ASSUME NEW id \in Ids, NEW f \in ClientFrames(id), Write(f) PROVE CallInv'
  BY <1>1, WriteCall
<1>2. ASSUME NEW id \in Ids, NEW f \in ServerFrames(id), Read(f) PROVE CallInv'
  BY <1>2, ReadCall
<1>3. ASSUME NEW d \in Directions, TakeFrame(d) PROVE CallInv'
  BY <1>3, TakeCall
<1>4. ASSUME NEW d \in Directions, Handle(d) PROVE CallInv'
  <2>1. d = "up" \/ d = "down"
    BY DEF Directions
  <2>2. Handle("up") \/ Handle("down")
    BY <1>4, <2>1
  <2> QED
    BY <2>2, HandleUpCall, HandleDownCall
<1> QED
  BY <1>1, <1>2, <1>3, <1>4, QuietStepsCall DEF Next, DecoderStep

\* Whatever the two decoders, the multiplexing of streams and Close do to each
\* other, a saved pair is of one gRPC call (streamTracker.handle and finish):
\* its sends are the first ones of the client on that stream, all of them when
\* the half-close is recorded, and its recvs are consecutive messages of the
\* server on it.
THEOREM OneCall == Spec => []SavedPairIsOneCall
<1>1. Init => CallInv
  BY InitCall
<1>2. IInv /\ CallInv => SavedPairIsOneCall
  BY PairsAreCalls
<1> QED
  BY <1>1, <1>2, NextCall, Invariance, PTL DEF Spec

-----------------------------------------------------------------------------
(***************************************************************************)
(* A clean Close has recorded everything.  The invariant has three parts:  *)
(* what the server answers ends with its trailers or a reset, and Read     *)
(* returns it in order (AnswerInv); the request headers of a stream are    *)
(* the first of it that the client's decoder handles (LeadInv); and a call *)
(* whose headers were handled first is followed until the trailers are     *)
(* handled, and then it is saved with everything (FollowInv).              *)
(***************************************************************************)

\* While the connection is open, Read has returned all frames but the one it
\* mirrors.
Returns(frames, m, id, n) ==
    IF Mirrors(m, id) THEN n + 1 = Len(frames) ELSE n = Len(frames)

\* A reset is the last frame of the server on a stream, and nothing but a
\* reset follows the trailers.
Answers(frames, q, m, id, at, n) ==
    /\ \A k \in DOMAIN frames : frames[k].kind = "reset" => k = Len(frames)
    /\ \A k \in DOMAIN frames :
          frames[k].kind = "reset" \/ IsTrailers(frames[k]) => frames[k].end
    /\ Queues(q, id) /\ q[1].kind = "reset" => WasReset(frames)
    /\ Queues(q, id) /\ IsTrailers(q[1]) => q[1].end /\ Ended(frames)
    /\ Queues(q, id) /\ IsTrailers(q[1]) /\ Mirrors(m, id) => m[1].kind = "reset"
    /\ n \in Nat /\ n <= Len(frames)
    /\ at = "open" => Returns(frames, m, id, n)

AnswerInv ==
    /\ DOMAIN returned = Ids
    /\ closer = "open" /\ pipe["down"] # "open" => mirror["down"] = << >>
    /\ \A id \in Ids : sent[id] = << >> => replied[id] = << >>
    /\ \A id \in Ids : Answers(replied[id], dec["down"].queued, mirror["down"], id,
                               closer, returned[id])

\* The first event of a stream that the client's decoder handles is its
\* request headers.
Leads(frames, q, m, live, id, routed) ==
    /\ routed \in {"none", "first", "overtaken"}
    /\ live /\ frames # << >> /\ routed = "none" =>
          \/ Mirrors(m, id) /\ m[1].kind = "headers"
          \/ Queues(q, id) /\ q[1].kind = "headers"
    /\ Queues(q, id) /\ routed = "none" => q[1].kind = "headers"
    /\ Queues(q, id) /\ q[1].kind = "reset" => WasReset(frames)

LeadInv ==
    \A id \in Ids :
        Leads(sent[id], dec["up"].queued, mirror["up"], Live("up"), id, routing[id])

\* The end of what the server sends has not been handled.
Ahead(frames, q, m, id) ==
    \/ ~Ended(frames)
    \/ Mirrors(m, id) /\ IsTrailers(m[1])
    \/ Queues(q, id) /\ IsTrailers(q[1])

\* A call that the tracker is to follow from its request headers on.
Due(id) ==
    /\ routing[id] # "overtaken" /\ firstErr = "nil"
    /\ sent[id] # << >> /\ sent[id][1].path = "grpc" /\ ~WasReset(sent[id])

Complete(id) ==
    \E i \in DOMAIN saved :
        /\ saved[i].id = id
        /\ MessagesOf(saved[i].pair.recvs) = MessagesIn(replied[id])

TrailersRead(id) == \E i \in 1 .. returned[id] : IsTrailers(replied[id][i])

TrailersQueued(id) ==
    Queues(dec["down"].queued, id) /\ IsTrailers(dec["down"].queued[1])

\* The end of what the server sends on a stream is still to be handled.
Awaited(id) == Ahead(replied[id], dec["down"].queued, mirror["down"], id)

Tracked(s) == s.service /\ ~s.compressed

Followed(id) ==
    closer # "done" /\ routing[id] = "first" /\ Due(id) /\ Awaited(id) =>
        Tracked(streams[id])

WholeOnceRead(id) ==
    TrailersRead(id) /\ Due(id) =>
        TrailersQueued(id) \/ id \in unsaved \/ Complete(id)

FollowInv == \A id \in Ids : Followed(id) /\ WholeOnceRead(id)

-----------------------------------------------------------------------------
(***************************************************************************)
(* What the server answers.                                                *)
(***************************************************************************)

\* A server answers a stream that the client has opened, sends nothing after
\* a reset, and nothing but a reset after the end.
LEMMA ServerFramesEnd ==
    ASSUME NEW id \in Ids, NEW f \in ServerFrames(id)
    PROVE  /\ sent[id] # << >> /\ ~WasReset(replied[id])
           /\ Ended(replied[id]) => f.kind = "reset"
           /\ f.kind = "reset" \/ IsTrailers(f) => f.end
<1>1. sent[id] # << >> /\ ~WasReset(replied[id])
  BY DEF ServerFrames
<1>2. replied[id] = << >> => ~Ended(replied[id])
  BY ShortSeqs DEF Ended
<1>3. \/ \E encoding : f = Headers(id, "none", encoding, "none", FALSE) /\ replied[id] = << >>
      \/ f = Headers(id, "none", "identity", "error", TRUE) /\ replied[id] = << >>
      \/ f = Reset(id)
      \/ f = Headers(id, "none", "identity", "OK", TRUE) /\ ~Ended(replied[id])
      \/ \E msgs : f = Data(id, msgs, FALSE) /\ ~Ended(replied[id])
  BY <1>1 DEF ServerFrames, Resets
<1> QED
  BY <1>1, <1>2, <1>3 DEF Headers, Data, Reset, IsTrailers

\* Nothing is read, and an event is handled or not.
LEMMA AnswersStays ==
    ASSUME NEW frames, NEW q, NEW p, NEW m, NEW n, NEW id, NEW at, NEW now, NEW k,
           Answers(frames, q, m, id, at, k), now = "open" => at = "open",
           p = q \/ p = << >> \/ Carries(p[1]),
           \/ n = m
           \/ n = << >> /\ now # "open"
           \/ ~Mirrors(m, id) /\ ~Mirrors(n, id)
    PROVE  Answers(frames, p, n, id, now, k)
<1>1. Queues(p, id) /\ (p[1].kind = "reset" \/ IsTrailers(p[1])) => p = q
  BY DEF Queues, Carries, IsTrailers
<1>2. Mirrors(n, id) => n = m
  BY DEF Mirrors
<1>3. now = "open" => Returns(frames, n, id, k)
  BY DEF Answers, Returns
<1> QED
  BY <1>1, <1>2, <1>3 DEF Answers

\* A frame is read.
LEMMA AnswersReads ==
    ASSUME NEW frames, NEW q, NEW id, NEW at, NEW k, NEW f,
           IsSeq(frames), Answers(frames, q, << >>, id, at, k), at = "open",
           f.kind # "preface", f.id = id, ~WasReset(frames),
           Ended(frames) => f.kind = "reset",
           f.kind = "reset" \/ IsTrailers(f) => f.end
    PROVE  Answers(Append(frames, f), q, <<f>>, id, at, k)
<1>1. PICK new, m : new = Append(frames, f) /\ m = <<f>>
  OBVIOUS
<1>2. /\ Len(frames) \in Nat /\ DOMAIN frames = 1 .. Len(frames)
      /\ Len(new) = Len(frames) + 1 /\ DOMAIN new = 1 .. Len(frames) + 1
      /\ \A i \in 1 .. Len(frames) : new[i] = frames[i]
      /\ new[Len(frames) + 1] = f
  BY <1>1, AppendFacts
<1>3. m # << >> /\ m[1] = f /\ Mirrors(m, id) /\ ~Mirrors(<< >>, id)
  BY <1>1 DEF Mirrors
<1>4. ASSUME NEW i \in DOMAIN new
      PROVE  \/ i \in DOMAIN frames /\ new[i] = frames[i]
             \/ i = Len(new) /\ new[i] = f
  BY <1>2
<1>5. \A i \in DOMAIN new : new[i].kind = "reset" => i = Len(new)
  BY <1>4 DEF WasReset
<1>6. \A i \in DOMAIN new : new[i].kind = "reset" \/ IsTrailers(new[i]) => new[i].end
  BY <1>4 DEF Answers
<1>7. WasReset(frames) => WasReset(new)
  OBVIOUS
<1>8. Ended(frames) => Ended(new)
  BY <1>2 DEF Ended
<1>9. Returns(frames, << >>, id, k) /\ k \in Nat
  BY DEF Answers
<1>10. k = Len(frames)
  BY <1>3, <1>9 DEF Returns
<1>11. Returns(new, m, id, k) /\ k <= Len(new)
  BY <1>2, <1>3, <1>10 DEF Returns
<1>12. Queues(q, id) /\ q[1].kind = "reset" => WasReset(new)
  BY <1>7 DEF Answers
<1>13. Queues(q, id) /\ IsTrailers(q[1]) => q[1].end /\ Ended(new) /\ f.kind = "reset"
  BY <1>8 DEF Answers
<1> QED
  BY <1>1, <1>3, <1>5, <1>6, <1>9, <1>11, <1>12, <1>13 DEF Answers

\* A frame is taken from the pipe, and Read returns it.
LEMMA AnswersTakes ==
    ASSUME NEW frames, NEW id, NEW at, NEW n, NEW k, NEW f,
           IsSeq(frames), FrameOK(f), f.kind # "preface",
           Answers(frames, << >>, <<f>>, id, at, n),
           f.id = id => frames # << >> /\ f = frames[Len(frames)],
           k = IF at = "open" /\ f.id = id THEN n + 1 ELSE n
    PROVE  Answers(frames, WireEvents(f), << >>, id, at, k)
<1>1. PICK evs, m : evs = WireEvents(f) /\ m = <<f>>
  OBVIOUS
<1>2. m # << >> /\ m[1] = f /\ ~Mirrors(<< >>, id) /\ (Mirrors(m, id) <=> f.id = id)
  BY <1>1 DEF Mirrors
<1>3. /\ IsSeq(evs) /\ (Queues(evs, id) => f.id = id)
      /\ \A i \in DOMAIN evs : evs[i].kind # "message" => evs[i] = f
  BY <1>1, EventsOfFrame
<1>4. Queues(evs, id) /\ (evs[1].kind = "reset" \/ IsTrailers(evs[1])) => evs[1] = f
  <2>1. evs # << >> => 1 \in DOMAIN evs
    BY <1>3, TailFacts
  <2> QED
    BY <1>3, <2>1 DEF Queues, IsTrailers
<1>5. Len(frames) \in Nat /\ DOMAIN frames = 1 .. Len(frames)
  BY AppendFacts
<1>6. f.id = id => Len(frames) \in DOMAIN frames /\ f = frames[Len(frames)]
  <2>1. frames # << >> => 1 \in DOMAIN frames
    BY TailFacts
  <2> QED
    BY <1>5, <2>1
<1>7. Queues(evs, id) /\ evs[1].kind = "reset" => WasReset(frames)
  BY <1>3, <1>4, <1>6 DEF WasReset
<1>8. Queues(evs, id) /\ IsTrailers(evs[1]) => evs[1].end /\ Ended(frames)
  BY <1>3, <1>4, <1>6 DEF Ended, Answers
<1>9. n \in Nat /\ n <= Len(frames)
  BY DEF Answers
<1>10. at = "open" => Returns(frames, m, id, n)
  BY <1>1 DEF Answers
<1>11. /\ k \in Nat /\ k <= Len(frames) /\ (at = "open" => Returns(frames, << >>, id, k))
  <2>1. CASE at = "open" /\ f.id = id
    <3>1. k = n + 1 /\ n + 1 = Len(frames)
      BY <1>2, <1>10, <2>1 DEF Returns
    <3>2. k = Len(frames)
      BY <3>1
    <3>3. Returns(frames, << >>, id, k)
      BY <1>2, <3>2 DEF Returns
    <3> QED
      BY <1>5, <3>2, <3>3
  <2>2. CASE ~(at = "open" /\ f.id = id)
    <3>1. k = n
      BY <2>2
    <3>2. at = "open" => n = Len(frames)
      BY <1>2, <1>10, <2>2 DEF Returns
    <3> QED
      BY <1>2, <1>9, <3>1, <3>2 DEF Returns
  <2> QED
    BY <2>1, <2>2
<1> QED
  BY <1>1, <1>2, <1>7, <1>8, <1>11 DEF Answers

\* Steps that move neither a frame nor an event.
Quietly ==
    /\ sent' = sent /\ replied' = replied /\ returned' = returned
    /\ saved' = saved /\ unsaved' = unsaved /\ routing' = routing
    /\ dec'["up"].queued = dec["up"].queued
    /\ dec'["down"].queued = dec["down"].queued
    /\ firstErr' = "nil" => firstErr = "nil"
    /\ closer' = "open" => closer = "open"
    /\ closer' # "done" => closer # "done" /\ streams' = streams
    /\ \/ mirror'["down"] = mirror["down"]
       \/ mirror'["down"] = << >> /\ closer' # "open"
    /\ closer' = "open" /\ pipe'["down"] # "open" => mirror'["down"] = << >>
    /\ Live("up")' => Live("up")
    /\ \A id \in Ids : StillMirrors(mirror["up"], mirror'["up"], Live("up")', id)

LEMMA QuietSteps ==
    ASSUME IInv, AnswerInv,
           \/ WritePreface \/ ReadFails \/ Close \/ ClosePipes \/ CloseReturns
           \/ UNCHANGED vars
           \/ \E d \in Directions : MirrorFails(d) \/ DecoderEnds(d)
    PROVE  Quietly
<1>1. /\ "up" \in Directions /\ "down" \in Directions /\ "up" # "down"
      /\ DOMAIN mirror = Directions /\ DOMAIN dec = Directions
      /\ \A o \in Directions : DOMAIN dec[o] = {"at", "queued"}
  BY DEF Directions, IInv, Shape
<1>2. closer = "open" /\ pipe["down"] # "open" => mirror["down"] = << >>
  BY DEF AnswerInv
<1>3. CASE WritePreface
  <2>1. /\ sent' = sent /\ replied' = replied /\ returned' = returned
        /\ saved' = saved /\ unsaved' = unsaved /\ routing' = routing
        /\ dec' = dec /\ pipe' = pipe /\ streams' = streams
        /\ firstErr' = firstErr /\ closer' = closer /\ closer = "open"
        /\ mirror' = [mirror EXCEPT !["up"] = <<Preface>>] /\ mirror["up"] = << >>
    BY <1>3 DEF WritePreface, liveVars, trackerVars
  <2>2. mirror'["up"] = <<Preface>> /\ mirror'["down"] = mirror["down"]
    BY <1>1, <2>1
  <2>3. ASSUME NEW id \in Ids
        PROVE  StillMirrors(mirror["up"], mirror'["up"], Live("up")', id)
    <3>1. ~Mirrors(<<Preface>>, id)
      BY DEF Mirrors, Preface
    <3> QED
      BY <2>1, <2>2, <3>1 DEF StillMirrors
  <2> QED
    BY <1>2, <2>1, <2>2, <2>3 DEF Quietly, Live
<1>4. ASSUME NEW e \in Directions, MirrorFails(e) PROVE Quietly
  <2>1. /\ sent' = sent /\ replied' = replied /\ returned' = returned
        /\ saved' = saved /\ unsaved' = unsaved /\ routing' = routing
        /\ dec' = dec /\ pipe' = pipe /\ streams' = streams
        /\ firstErr' = firstErr /\ closer' = closer
        /\ mirror' = [mirror EXCEPT ![e] = << >>] /\ pipe[e] # "open"
        /\ mirror[e] # << >>
    BY <1>4 DEF MirrorFails, liveVars, trackerVars
  <2>2. \A o \in Directions : mirror'[o] = IF o = e THEN << >> ELSE mirror[o]
    BY <1>1, <2>1
  <2>3. \/ mirror'["down"] = mirror["down"]
        \/ mirror'["down"] = << >> /\ closer' # "open"
    BY <1>1, <1>2, <2>1, <2>2
  <2>4. ~Live(e)' /\ (Live("up")' => Live("up"))
    BY <2>1 DEF Live
  <2>5. \A id \in Ids : StillMirrors(mirror["up"], mirror'["up"], Live("up")', id)
    BY <1>1, <2>2, <2>4 DEF StillMirrors
  <2>6. closer' = "open" /\ pipe'["down"] # "open" => mirror'["down"] = << >>
    BY <1>1, <1>2, <2>1, <2>2
  <2> QED
    BY <2>1, <2>3, <2>4, <2>5, <2>6 DEF Quietly
<1>5. ASSUME NEW e \in Directions, DecoderEnds(e) PROVE Quietly
  <2>1. /\ sent' = sent /\ replied' = replied /\ returned' = returned
        /\ saved' = saved /\ unsaved' = unsaved /\ routing' = routing
        /\ mirror' = mirror /\ pipe' = pipe /\ streams' = streams /\ closer' = closer
        /\ dec' = [dec EXCEPT ![e].at = "gone"]
    BY <1>5 DEF DecoderEnds, liveVars, trackerVars
  <2>2. firstErr' = "nil" => firstErr = "nil"
    <3>1. firstErr' = firstErr \/ NoteErr(pipe[e])
      BY <1>5 DEF DecoderEnds
    <3> QED
      BY <3>1 DEF NoteErr
  <2>3. \A o \in Directions : /\ dec'[o].queued = dec[o].queued
                              /\ dec'[o].at = dec[o].at \/ dec'[o].at = "gone"
    BY <1>1, <2>1
  <2>4. Live("up")' => Live("up")
    BY <1>1, <2>1, <2>3 DEF Live
  <2>5. \A id \in Ids : StillMirrors(mirror["up"], mirror'["up"], Live("up")', id)
    BY <2>1 DEF StillMirrors
  <2> QED
    BY <1>1, <1>2, <2>1, <2>2, <2>3, <2>4, <2>5 DEF Quietly
<1>6. CASE ReadFails \/ Close \/ ClosePipes \/ CloseReturns \/ UNCHANGED vars
  <2>1. /\ sent' = sent /\ replied' = replied /\ returned' = returned
        /\ saved' = saved /\ unsaved' = unsaved /\ routing' = routing
        /\ dec' = dec /\ mirror' = mirror /\ firstErr' = firstErr
    BY <1>6 DEF ReadFails, Close, ClosePipes, CloseReturns, vars, liveVars, trackerVars
  <2>2. pipe'["up"] = "open" => pipe["up"] = "open"
    <3>1. CASE ReadFails
      <4>1. PICK err : pipe' = [pipe EXCEPT !["down"] = err]
        BY <3>1 DEF ReadFails
      <4> QED
        BY <1>1, <4>1
    <3>2. CASE ClosePipes
      BY <1>1, <3>2 DEF ClosePipes
    <3>3. CASE Close \/ CloseReturns \/ UNCHANGED vars
      BY <3>3 DEF Close, CloseReturns, vars
    <3> QED
      BY <1>6, <3>1, <3>2, <3>3
  <2>3. Live("up")' => Live("up")
    BY <2>1, <2>2 DEF Live
  <2>4. \A id \in Ids : StillMirrors(mirror["up"], mirror'["up"], Live("up")', id)
    BY <2>1 DEF StillMirrors
  <2>5. /\ closer' = "open" => closer = "open"
        /\ closer' # "done" => closer # "done" /\ streams' = streams
    BY <1>6 DEF ReadFails, Close, ClosePipes, CloseReturns, vars, trackerVars
  <2>6. closer' = "open" /\ pipe'["down"] # "open" => mirror'["down"] = << >>
    BY <1>2, <1>6, <2>1 DEF ReadFails, Close, ClosePipes, CloseReturns, vars
  <2> QED
    BY <2>1, <2>3, <2>4, <2>5, <2>6 DEF Quietly
<1> QED
  BY <1>3, <1>4, <1>5, <1>6

\* What is answered stays when nothing is read or taken.
LEMMA AnswerStays ==
    ASSUME AnswerInv, replied' = replied, returned' = returned,
           \A id \in Ids : sent[id] # << >> => sent'[id] # << >>,
           NEW p, p = dec'["down"].queued,
           p = dec["down"].queued \/ p = << >> \/ Carries(p[1]),
           closer' = "open" => closer = "open",
           \/ mirror'["down"] = mirror["down"]
           \/ mirror'["down"] = << >> /\ closer' # "open",
           closer' = "open" /\ pipe'["down"] # "open" => mirror'["down"] = << >>
    PROVE  AnswerInv'
<1>1. ASSUME NEW id \in Ids
      PROVE  Answers(replied[id], p, mirror'["down"], id, closer', returned[id])
  <2>1. PICK frames, q, m, n, at, now, k :
            /\ frames = replied[id] /\ q = dec["down"].queued /\ m = mirror["down"]
            /\ n = mirror'["down"] /\ at = closer
            /\ now = closer' /\ k = returned[id]
    OBVIOUS
  <2>2. Answers(frames, q, m, id, at, k)
    BY <2>1 DEF AnswerInv
  <2>3. now = "open" => at = "open"
    BY <2>1
  <2>4. p = q \/ p = << >> \/ Carries(p[1])
    BY <2>1
  <2>5. n = m \/ (n = << >> /\ now # "open")
    BY <2>1
  <2>6. Answers(frames, p, n, id, now, k)
    BY <2>2, <2>3, <2>4, <2>5, AnswersStays
  <2> QED
    BY <2>1, <2>6
<1>2. \A id \in Ids : sent'[id] = << >> => replied'[id] = << >>
  BY DEF AnswerInv
<1>3. DOMAIN returned' = Ids
  BY DEF AnswerInv
<1> QED
  BY <1>1, <1>2, <1>3 DEF AnswerInv

LEMMA QuietAnswer ==
    ASSUME AnswerInv, Quietly
    PROVE  AnswerInv'
  BY AnswerStays DEF Quietly

LEMMA WriteAnswer ==
    ASSUME IInv, AnswerInv, NEW id \in Ids, NEW f \in ClientFrames(id), Write(f)
    PROVE  AnswerInv'
<1>1. f.id = id
  BY ClientFramesOK
<1>2. /\ replied' = replied /\ returned' = returned /\ dec' = dec /\ closer' = closer
      /\ pipe' = pipe /\ mirror' = [mirror EXCEPT !["up"] = <<f>>]
      /\ sent' = [sent EXCEPT ![id] = Append(@, f)]
  BY <1>1 DEF Write, liveVars, trackerVars
<1>3. /\ "down" \in Directions /\ "down" # "up" /\ DOMAIN mirror = Directions
      /\ DOMAIN sent = Ids /\ \A j \in Ids : IsSeq(sent[j])
  BY DEF Directions, IInv, Shape
<1>4. mirror'["down"] = mirror["down"]
  BY <1>2, <1>3
<1>5. \A j \in Ids : sent[j] # << >> => sent'[j] # << >>
  <2>1. Append(sent[id], f) # << >>
    BY <1>3, AppendFacts
  <2> QED
    BY <1>2, <1>3, <2>1
<1>6. closer' = "open" /\ pipe'["down"] # "open" => mirror'["down"] = << >>
  BY <1>2, <1>4 DEF AnswerInv
<1> QED
  BY <1>2, <1>4, <1>5, <1>6, AnswerStays

LEMMA ReadAnswer ==
    ASSUME IInv, CallInv, AnswerInv, NEW id \in Ids, NEW f \in ServerFrames(id), Read(f)
    PROVE  AnswerInv'
<1>1. f.id = id /\ f.kind # "preface"
  BY ServerFramesOK, ServerFramesFollow
<1>2. /\ sent' = sent /\ returned' = returned /\ dec' = dec /\ closer' = closer
      /\ pipe' = pipe /\ mirror' = [mirror EXCEPT !["down"] = <<f>>]
      /\ replied' = [replied EXCEPT ![id] = Append(@, f)]
      /\ closer = "open" /\ pipe["down"] = "open" /\ mirror["down"] = << >>
  BY <1>1 DEF Read, trackerVars
<1>3. /\ "down" \in Directions /\ DOMAIN mirror = Directions
      /\ DOMAIN replied = Ids /\ \A j \in Ids : IsSeq(replied[j])
  BY DEF Directions, IInv, Shape, CallInv, Wired, FramesOK
<1>4. mirror'["down"] = <<f>>
  BY <1>2, <1>3
<1>5. PICK q, at : q = dec["down"].queued /\ at = closer
  OBVIOUS
<1>6. ASSUME NEW j \in Ids
      PROVE  Answers(replied'[j], q, <<f>>, j, at, returned[j])
  <2>1. Answers(replied[j], q, << >>, j, at, returned[j])
    BY <1>2, <1>5 DEF AnswerInv
  <2>2. CASE j = id
    <3>1. replied'[j] = Append(replied[j], f)
      BY <1>2, <1>3, <2>2
    <3>2. /\ ~WasReset(replied[j]) /\ (Ended(replied[j]) => f.kind = "reset")
          /\ f.kind = "reset" \/ IsTrailers(f) => f.end
      BY <2>2, ServerFramesEnd
    <3>3. Answers(Append(replied[j], f), q, <<f>>, j, at, returned[j])
      BY <1>1, <1>2, <1>3, <1>5, <2>1, <2>2, <3>2, AnswersReads
    <3> QED
      BY <3>1, <3>3
  <2>3. CASE j # id
    <3>1. replied'[j] = replied[j]
      BY <1>2, <1>3, <2>3
    <3>2. ~Mirrors(<< >>, j) /\ ~Mirrors(<<f>>, j)
      BY <1>1, <2>3 DEF Mirrors
    <3>3. Answers(replied[j], q, <<f>>, j, at, returned[j])
      BY <2>1, <3>2, AnswersStays
    <3> QED
      BY <3>1, <3>3
  <2> QED
    BY <2>2, <2>3
<1>7. \A j \in Ids : sent[j] = << >> => replied'[j] = << >>
  <2>1. sent[id] # << >>
    BY ServerFramesEnd
  <2> QED
    BY <1>2, <1>3, <2>1 DEF AnswerInv
<1> QED
  BY <1>2, <1>4, <1>5, <1>6, <1>7 DEF AnswerInv

\* A frame f goes through the pipe of a direction.
Taken(d, f) ==
    /\ sent' = sent /\ replied' = replied /\ saved' = saved /\ unsaved' = unsaved
    /\ routing' = routing /\ streams' = streams /\ firstErr' = firstErr
    /\ closer' = closer /\ pipe' = pipe
    /\ \A o \in Directions \ {d} : mirror'[o] = mirror[o] /\ dec'[o] = dec[o]
    /\ FrameOK(f) /\ mirror[d] = <<f>> /\ mirror'[d] = << >>
    /\ Live(d) /\ dec[d].queued = << >>
    /\ \A o \in Directions : Live(o)' => Live(o)
    /\ dec[d].at = "preface" => f.kind = "preface" /\ dec'[d].queued = << >>
    /\ dec[d].at # "preface" => f.kind # "preface" /\ dec'[d].queued = WireEvents(f)
    /\ returned' = IF d = "down" /\ closer = "open"
                   THEN [returned EXCEPT ![f.id] = @ + 1] ELSE returned

LEMMA TakeFrameTakes ==
    ASSUME IInv, CallInv, NEW d \in Directions, TakeFrame(d)
    PROVE  \E f : Taken(d, f)
<1>1. /\ pipe[d] = "open" /\ mirror[d] # << >> /\ dec[d].at # "gone"
      /\ dec[d].queued = << >>
      /\ mirror' = [mirror EXCEPT ![d] = << >>]
      /\ dec' = [dec EXCEPT ![d] =
                    [at |-> "read",
                     queued |-> IF dec[d].at = "preface" THEN << >>
                                ELSE WireEvents(mirror[d][1])]]
      /\ sent' = sent /\ replied' = replied /\ pipe' = pipe /\ streams' = streams
      /\ saved' = saved /\ unsaved' = unsaved /\ routing' = routing
      /\ firstErr' = firstErr /\ closer' = closer
      /\ returned' = IF d = "down" /\ closer = "open"
                     THEN [returned EXCEPT ![mirror[d][1].id] = @ + 1] ELSE returned
  BY DEF TakeFrame, liveVars, trackerVars
<1>2. DOMAIN mirror = Directions /\ DOMAIN dec = Directions
  BY DEF IInv, Shape
<1>3. PICK f : FrameOK(f) /\ mirror[d] = <<f>>
  BY <1>1 DEF IInv, Shape
<1>4. mirror[d][1] = f
  BY <1>3
<1>5. /\ mirror'[d] = << >> /\ dec'[d].at = "read"
      /\ dec'[d].queued = IF dec[d].at = "preface" THEN << >> ELSE WireEvents(f)
      /\ \A o \in Directions \ {d} : mirror'[o] = mirror[o] /\ dec'[o] = dec[o]
  BY <1>1, <1>2, <1>4
<1>6. dec[d].at = "preface" => f.kind = "preface"
  BY <1>1, <1>4 DEF CallInv, Wired
<1>7. dec[d].at # "preface" => f.kind # "preface"
  BY <1>1, <1>4 DEF IInv, Shape
<1>8. Live(d) /\ \A o \in Directions : Live(o)' => Live(o)
  BY <1>1, <1>5 DEF Live
<1> QED
  BY <1>1, <1>3, <1>4, <1>5, <1>6, <1>7, <1>8 DEF Taken

LEMMA TakeAnswer ==
    ASSUME IInv, CallInv, AnswerInv, NEW d \in Directions, NEW f, Taken(d, f)
    PROVE  AnswerInv'
<1>1. "up" \in Directions /\ "down" \in Directions /\ "up" # "down"
  BY DEF Directions
<1>2. /\ sent' = sent /\ replied' = replied /\ closer' = closer /\ pipe' = pipe
      /\ \A o \in Directions \ {d} : mirror'[o] = mirror[o] /\ dec'[o] = dec[o]
      /\ mirror'[d] = << >>
  BY DEF Taken
<1>3. closer' = "open" /\ pipe'["down"] # "open" => mirror'["down"] = << >>
  BY <1>1, <1>2 DEF AnswerInv
<1>4. CASE d # "down"
  <2>1. returned' = returned
    BY <1>4 DEF Taken
  <2>2. mirror'["down"] = mirror["down"] /\ dec'["down"] = dec["down"]
    BY <1>1, <1>2, <1>4
  <2> QED
    BY <1>2, <1>3, <2>1, <2>2, AnswerStays
<1>5. CASE d = "down"
  <2>1. dec["down"].at # "preface"
    BY DEF CallInv, Wired
  <2>2. /\ f.kind # "preface" /\ dec'["down"].queued = WireEvents(f) /\ FrameOK(f)
        /\ mirror["down"] = <<f>> /\ mirror'["down"] = << >>
        /\ dec["down"].queued = << >>
        /\ returned' = IF closer = "open" THEN [returned EXCEPT ![f.id] = @ + 1]
                       ELSE returned
    BY <1>5, <2>1 DEF Taken
  <2>3. DOMAIN returned = Ids
    BY DEF AnswerInv
  <2>4. ASSUME NEW id \in Ids
        PROVE  Answers(replied[id], WireEvents(f), << >>, id, closer, returned'[id])
    <3>1. PICK frames, at, n, k : /\ frames = replied[id] /\ at = closer
                                  /\ n = returned[id] /\ k = returned'[id]
      OBVIOUS
    <3>2. Answers(frames, << >>, <<f>>, id, at, n)
      BY <2>2, <3>1 DEF AnswerInv
    <3>3. f.id = id => frames # << >> /\ f = frames[Len(frames)]
      <4>1. f.id = id => Mirrors(<<f>>, id) /\ <<f>>[1] = f
        BY <2>2 DEF Mirrors
      <4>2. PICK h \in Nat : Flow(frames, << >>, <<f>>, Live("down"), id, h)
        BY <2>2, <3>1 DEF CallInv, Downward
      <4> QED
        BY <4>1, <4>2 DEF Flow
    <3>4. k = IF at = "open" /\ f.id = id THEN n + 1 ELSE n
      BY <2>2, <2>3, <3>1
    <3>5. IsSeq(frames)
      BY <3>1 DEF CallInv, Wired, FramesOK
    <3>6. Answers(frames, WireEvents(f), << >>, id, at, k)
      BY <2>2, <3>2, <3>3, <3>4, <3>5, AnswersTakes
    <3> QED
      BY <3>1, <3>6
  <2>5. DOMAIN returned' = Ids
    BY <2>2, <2>3
  <2>6. \A id \in Ids : sent'[id] = << >> => replied'[id] = << >>
    BY <1>2 DEF AnswerInv
  <2> QED
    BY <1>2, <1>3, <2>2, <2>4, <2>5, <2>6 DEF AnswerInv
<1> QED
  BY <1>4, <1>5

LEMMA HandleAnswer ==
    ASSUME IInv, CallInv, AnswerInv, NEW d \in Directions, Handle(d)
    PROVE  AnswerInv'
<1>1. "down" \in Directions /\ DOMAIN routing = Ids /\ QueueOK(dec[d].queued)
  BY DEF Directions, CallInv, Wired
<1>2. PICK q, n, ev : q = dec[d].queued /\ n = dec'[d].queued /\ ev = q[1]
  OBVIOUS
<1>3. /\ sent' = sent /\ replied' = replied /\ mirror' = mirror /\ pipe' = pipe
      /\ q # << >> /\ IsSeq(q)
      /\ \A o \in Directions \ {d} : dec'[o] = dec[o]
      /\ Passed(q, n, Live(d), Live(d)')
  BY <1>1, <1>2, HandleAround
<1>4. closer' = closer /\ returned' = returned
  BY DEF Handle
<1>5. n = << >> \/ Carries(n[1])
  BY <1>1, <1>2, <1>3, PassedOK
<1>6. PICK p : p = dec'["down"].queued
  OBVIOUS
<1>7. p = dec["down"].queued \/ p = << >> \/ Carries(p[1])
  BY <1>1, <1>2, <1>3, <1>5, <1>6
<1>8. closer' = "open" /\ pipe'["down"] # "open" => mirror'["down"] = << >>
  BY <1>3, <1>4 DEF AnswerInv
<1> QED
  BY <1>3, <1>4, <1>6, <1>7, <1>8, AnswerStays

LEMMA InitAnswer ==
    ASSUME Init
    PROVE  AnswerInv
<1>1. /\ \A id \in Ids : replied[id] = << >> /\ returned[id] = 0
      /\ mirror["down"] = << >> /\ dec["down"].queued = << >>
      /\ DOMAIN returned = Ids
  BY DEF Init, Directions
<1>2. ASSUME NEW id, NEW at PROVE Answers(<< >>, << >>, << >>, id, at, 0)
  <2>1. ~Queues(<< >>, id) /\ ~Mirrors(<< >>, id)
    BY DEF Queues, Mirrors
  <2>2. DOMAIN << >> = {} /\ Len(<< >>) = 0
    BY ShortSeqs
  <2> QED
    BY <2>1, <2>2 DEF Answers, Returns
<1> QED
  BY <1>1, <1>2 DEF AnswerInv

LEMMA NextAnswer == IInv /\ CallInv /\ AnswerInv /\ [Next]_vars => AnswerInv'
<1> SUFFICES ASSUME IInv, CallInv, AnswerInv, [Next]_vars PROVE AnswerInv'
  OBVIOUS
<1>1. ASSUME NEW id \in Ids, NEW f \in ClientFrames(id), Write(f) PROVE AnswerInv'
  BY <1>1, WriteAnswer
<1>2. ASSUME NEW id \in Ids, NEW f \in ServerFrames(id), Read(f) PROVE AnswerInv'
  BY <1>2, ReadAnswer
<1>3. ASSUME NEW d \in Directions, TakeFrame(d) PROVE AnswerInv'
  BY <1>3, TakeFrameTakes, TakeAnswer
<1>4. ASSUME NEW d \in Directions, Handle(d) PROVE AnswerInv'
  BY <1>4, HandleAnswer
<1> QED
  BY <1>1, <1>2, <1>3, <1>4, QuietSteps, QuietAnswer DEF Next, DecoderStep

-----------------------------------------------------------------------------
(***************************************************************************)
(* The request headers are handled first.                                  *)
(***************************************************************************)
LEMMA LeadsStays ==
    ASSUME NEW frames, NEW q, NEW m, NEW n, NEW live, NEW alive, NEW id,
           NEW routed, NEW reroute,
           Leads(frames, q, m, live, id, routed), alive => live,
           StillMirrors(m, n, alive, id), reroute = routed \/ reroute = "overtaken"
    PROVE  Leads(frames, q, n, alive, id, reroute)
<1>1. ~Mirrors(<< >>, id)
  BY DEF Mirrors
<1>2. alive /\ Mirrors(m, id) => n = m
  BY <1>1 DEF StillMirrors
<1> QED
  BY <1>2 DEF Leads

LEMMA LeadsWrites ==
    ASSUME NEW frames, NEW q, NEW live, NEW id, NEW routed, NEW f,
           IsSeq(frames), Leads(frames, q, << >>, live, id, routed),
           f.kind # "preface", f.id = id, frames = << >> => f.kind = "headers"
    PROVE  Leads(Append(frames, f), q, <<f>>, live, id, routed)
<1>1. PICK new, m : new = Append(frames, f) /\ m = <<f>>
  OBVIOUS
<1>2. Mirrors(m, id) /\ m[1] = f /\ ~Mirrors(<< >>, id)
  BY <1>1 DEF Mirrors
<1>3. WasReset(frames) => WasReset(new)
  BY <1>1, AppendFacts DEF WasReset
<1>4. Leads(new, q, m, live, id, routed)
  BY <1>2, <1>3 DEF Leads
<1> QED
  BY <1>1, <1>4

LEMMA LeadsTakes ==
    ASSUME NEW frames, NEW live, NEW alive, NEW id, NEW routed, NEW f,
           IsSeq(frames), FrameOK(f), f.kind # "preface", live,
           Leads(frames, << >>, <<f>>, live, id, routed),
           f.id = id => frames # << >> /\ f = frames[Len(frames)]
    PROVE  Leads(frames, WireEvents(f), << >>, alive, id, routed)
<1>1. PICK evs, m : evs = WireEvents(f) /\ m = <<f>>
  OBVIOUS
<1>2. /\ m # << >> /\ m[1] = f /\ (Mirrors(m, id) <=> f.id = id)
      /\ ~Mirrors(<< >>, id) /\ ~Queues(<< >>, id)
  BY <1>1 DEF Mirrors, Queues
<1>3. /\ IsSeq(evs) /\ (Queues(evs, id) => f.id = id)
      /\ \A i \in DOMAIN evs : evs[i].kind # "message" => evs[i] = f
  BY <1>1, EventsOfFrame
<1>4. f.kind = "headers" => evs # << >> /\ evs[1] = f
  BY <1>1 DEF WireEvents
<1>5. /\ routed \in {"none", "first", "overtaken"}
      /\ frames # << >> /\ routed = "none" => f.id = id /\ f.kind = "headers"
  BY <1>1, <1>2 DEF Leads
<1>6. Queues(evs, id) /\ evs[1].kind = "reset" => WasReset(frames)
  <2>1. SUFFICES ASSUME Queues(evs, id), evs[1].kind = "reset" PROVE WasReset(frames)
    OBVIOUS
  <2>2. 1 \in DOMAIN evs
    BY <1>3, <2>1, TailFacts DEF Queues
  <2>3. evs[1] = f /\ f.id = id
    BY <1>3, <2>1, <2>2
  <2>4. Len(frames) \in DOMAIN frames
    <3>1. Len(frames) \in Nat /\ DOMAIN frames = 1 .. Len(frames) /\ 1 \in DOMAIN frames
      BY <2>3, TailFacts
    <3> QED
      BY <3>1
  <2> QED
    BY <2>1, <2>3, <2>4 DEF WasReset
<1>7. Leads(frames, evs, << >>, alive, id, routed)
  <2>1. frames # << >> /\ routed = "none" => Queues(evs, id) /\ evs[1].kind = "headers"
    BY <1>4, <1>5 DEF Queues
  <2>2. Queues(evs, id) => frames # << >>
    BY <1>3
  <2> QED
    BY <1>5, <1>6, <2>1, <2>2 DEF Leads
<1> QED
  BY <1>1, <1>7

LEMMA LeadsHandles ==
    ASSUME NEW frames, NEW q, NEW p, NEW m, NEW live, NEW alive, NEW id,
           NEW routed, NEW reroute,
           Leads(frames, q, m, live, id, routed), alive => live,
           p = << >> \/ Carries(p[1]), Queues(p, id) => Queues(q, id),
           reroute = IF Queues(q, id) /\ routed = "none" THEN "first" ELSE routed
    PROVE  Leads(frames, p, m, alive, id, reroute)
<1>1. ~(Queues(p, id) /\ p[1].kind = "reset")
  BY DEF Queues, Carries
<1>2. CASE Queues(q, id)
  <2>1. reroute # "none" /\ reroute \in {"none", "first", "overtaken"}
    BY <1>2 DEF Leads
  <2> QED
    BY <1>1, <2>1 DEF Leads
<1>3. CASE ~Queues(q, id)
  BY <1>1, <1>3 DEF Leads
<1> QED
  BY <1>2, <1>3

\* The steps that leave the client's side alone.
LEMMA LeadStays ==
    ASSUME LeadInv, sent' = sent, dec'["up"].queued = dec["up"].queued,
           Live("up")' => Live("up"),
           \A id \in Ids : StillMirrors(mirror["up"], mirror'["up"], Live("up")', id),
           \A id \in Ids : routing'[id] = routing[id] \/ routing'[id] = "overtaken"
    PROVE  LeadInv'
<1>1. ASSUME NEW id \in Ids
      PROVE  Leads(sent[id], dec["up"].queued, mirror'["up"], Live("up")', id, routing'[id])
  <2>1. Leads(sent[id], dec["up"].queued, mirror["up"], Live("up"), id, routing[id])
    BY DEF LeadInv
  <2>2. /\ StillMirrors(mirror["up"], mirror'["up"], Live("up")', id)
        /\ routing'[id] = routing[id] \/ routing'[id] = "overtaken"
    OBVIOUS
  <2> QED
    BY <2>1, <2>2, LeadsStays
<1> QED
  BY <1>1 DEF LeadInv

LEMMA WriteLead ==
    ASSUME IInv, CallInv, LeadInv, NEW id \in Ids, NEW f \in ClientFrames(id), Write(f)
    PROVE  LeadInv'
<1>1. f.id = id /\ f.kind # "preface" /\ (sent[id] = << >> => f.kind = "headers")
  BY ClientFramesOK, ClientFramesFollow
<1>2. /\ dec' = dec /\ pipe' = pipe /\ routing' = routing /\ mirror["up"] = << >>
      /\ mirror' = [mirror EXCEPT !["up"] = <<f>>]
      /\ sent' = [sent EXCEPT ![id] = Append(@, f)]
  BY <1>1 DEF Write, liveVars, trackerVars
<1>3. /\ "up" \in Directions /\ DOMAIN mirror = Directions
      /\ DOMAIN sent = Ids /\ \A j \in Ids : IsSeq(sent[j])
  BY DEF Directions, IInv, Shape
<1>4. mirror'["up"] = <<f>> /\ (Live("up")' <=> Live("up"))
  BY <1>2, <1>3 DEF Live
<1>5. PICK q : q = dec["up"].queued
  OBVIOUS
<1>6. ASSUME NEW j \in Ids
      PROVE  Leads(sent'[j], q, <<f>>, Live("up"), j, routing[j])
  <2>1. Leads(sent[j], q, << >>, Live("up"), j, routing[j])
    BY <1>2, <1>5 DEF LeadInv
  <2>2. CASE j = id
    <3>1. sent'[j] = Append(sent[j], f)
      BY <1>2, <1>3, <2>2
    <3>2. Leads(Append(sent[j], f), q, <<f>>, Live("up"), j, routing[j])
      BY <1>1, <1>3, <2>1, <2>2, LeadsWrites
    <3> QED
      BY <3>1, <3>2
  <2>3. CASE j # id
    <3>1. sent'[j] = sent[j]
      BY <1>2, <1>3, <2>3
    <3>2. ~Mirrors(<<f>>, j)
      BY <1>1, <2>3 DEF Mirrors
    <3>3. StillMirrors(<< >>, <<f>>, Live("up"), j)
      BY <3>2 DEF StillMirrors
    <3>4. Leads(sent[j], q, <<f>>, Live("up"), j, routing[j])
      BY <2>1, <3>3, LeadsStays
    <3> QED
      BY <3>1, <3>4
  <2> QED
    BY <2>2, <2>3
<1> QED
  BY <1>2, <1>4, <1>5, <1>6 DEF LeadInv, Leads

LEMMA TakeLead ==
    ASSUME IInv, CallInv, LeadInv, NEW d \in Directions, NEW f, Taken(d, f)
    PROVE  LeadInv'
<1>1. "up" \in Directions /\ "down" \in Directions
  BY DEF Directions
<1>2. /\ sent' = sent /\ routing' = routing /\ mirror[d] = <<f>> /\ mirror'[d] = << >>
      /\ \A o \in Directions \ {d} : mirror'[o] = mirror[o] /\ dec'[o] = dec[o]
      /\ Live("up")' => Live("up")
      /\ Live(d) /\ dec[d].queued = << >> /\ FrameOK(f)
  BY <1>1 DEF Taken
<1>3. CASE d = "up" /\ dec[d].at # "preface"
  <2>1. f.kind # "preface" /\ dec'["up"].queued = WireEvents(f)
    BY <1>3 DEF Taken
  <2>2. ASSUME NEW id \in Ids
        PROVE  Leads(sent[id], WireEvents(f), << >>, Live("up")', id, routing[id])
    <3>1. PICK frames, routed : frames = sent[id] /\ routed = routing[id]
      OBVIOUS
    <3>2. Leads(frames, << >>, <<f>>, Live("up"), id, routed)
      BY <1>2, <1>3, <3>1 DEF LeadInv
    <3>3. f.id = id => frames # << >> /\ f = frames[Len(frames)]
      <4>1. f.id = id => Mirrors(<<f>>, id) /\ <<f>>[1] = f
        BY <2>1 DEF Mirrors
      <4>2. PICK h \in Nat : Flow(frames, << >>, <<f>>, Live("up"), id, h)
        BY <1>2, <1>3, <3>1 DEF CallInv, Upward
      <4> QED
        BY <4>1, <4>2 DEF Flow
    <3>4. IsSeq(frames) /\ Live("up")
      BY <1>2, <1>3, <3>1 DEF IInv, Shape
    <3>5. Leads(frames, WireEvents(f), << >>, Live("up")', id, routed)
      BY <1>2, <2>1, <3>2, <3>3, <3>4, LeadsTakes
    <3> QED
      BY <3>1, <3>5
  <2> QED
    BY <1>2, <1>3, <2>1, <2>2 DEF LeadInv
<1>4. CASE d = "up" /\ dec[d].at = "preface"
  <2>1. f.kind = "preface" /\ dec'["up"].queued = dec["up"].queued
    BY <1>2, <1>4 DEF Taken
  <2>2. ASSUME NEW id \in Ids
        PROVE  StillMirrors(mirror["up"], mirror'["up"], Live("up")', id)
    <3>1. ~Mirrors(<<f>>, id)
      BY <2>1 DEF Mirrors
    <3> QED
      BY <1>2, <1>4, <3>1 DEF StillMirrors
  <2> QED
    BY <1>2, <2>1, <2>2, LeadStays
<1>5. CASE d # "up"
  <2>1. dec'["up"] = dec["up"] /\ mirror'["up"] = mirror["up"]
    BY <1>1, <1>2, <1>5
  <2>2. \A id \in Ids : StillMirrors(mirror["up"], mirror'["up"], Live("up")', id)
    BY <2>1 DEF StillMirrors
  <2> QED
    BY <1>2, <2>1, <2>2, LeadStays
<1> QED
  BY <1>3, <1>4, <1>5

LEMMA HandleLead ==
    ASSUME IInv, CallInv, LeadInv, NEW d \in Directions, Handle(d)
    PROVE  LeadInv'
<1>1. /\ "up" \in Directions /\ "down" \in Directions
      /\ DOMAIN routing = Ids /\ QueueOK(dec[d].queued)
  BY DEF Directions, CallInv, Wired
<1>2. PICK q, n, ev : q = dec[d].queued /\ n = dec'[d].queued /\ ev = q[1]
  OBVIOUS
<1>3. /\ sent' = sent /\ mirror' = mirror /\ pipe' = pipe
      /\ q # << >> /\ IsSeq(q) /\ ev.id \in Ids
      /\ \A o \in Directions \ {d} : dec'[o] = dec[o]
      /\ Passed(q, n, Live(d), Live(d)')
      /\ \A j \in Ids \ {ev.id} : routing'[j] = routing[j]
      /\ routing'[ev.id] = IF routing[ev.id] # "none" THEN routing[ev.id]
                           ELSE IF d = "up" THEN "first" ELSE "overtaken"
  BY <1>1, <1>2, HandleAround
<1>4. CASE d = "up"
  <2>1. /\ n = << >> \/ Carries(n[1])
        /\ \A id \in Ids : Queues(n, id) => Queues(q, id)
    BY <1>1, <1>2, <1>3, PassedOK
  <2>2. Live("up")' => Live("up")
    BY <1>3, <1>4 DEF Passed
  <2>3. ASSUME NEW id \in Ids
        PROVE  Leads(sent[id], n, mirror["up"], Live("up")', id, routing'[id])
    <3>1. Leads(sent[id], q, mirror["up"], Live("up"), id, routing[id])
      BY <1>2, <1>4 DEF LeadInv
    <3>2. Queues(q, id) <=> id = ev.id
      BY <1>2, <1>3 DEF Queues
    <3>3. routing'[id] = IF Queues(q, id) /\ routing[id] = "none" THEN "first"
                         ELSE routing[id]
      BY <1>3, <1>4, <3>2
    <3>4. Queues(n, id) => Queues(q, id)
      BY <2>1
    <3> QED
      BY <2>1, <2>2, <3>1, <3>3, <3>4, LeadsHandles
  <2> QED
    BY <1>2, <1>3, <1>4, <2>3 DEF LeadInv
<1>5. CASE d # "up"
  <2>1. dec'["up"] = dec["up"] /\ (Live("up")' => Live("up"))
    BY <1>1, <1>3, <1>5 DEF Live
  <2>2. \A id \in Ids : StillMirrors(mirror["up"], mirror'["up"], Live("up")', id)
    BY <1>3 DEF StillMirrors
  <2>3. \A id \in Ids : routing'[id] = routing[id] \/ routing'[id] = "overtaken"
    BY <1>3, <1>5
  <2> QED
    BY <1>3, <2>1, <2>2, <2>3, LeadStays
<1> QED
  BY <1>4, <1>5

LEMMA InitLead ==
    ASSUME Init
    PROVE  LeadInv
<1>1. /\ \A id \in Ids : sent[id] = << >> /\ routing[id] = "none"
      /\ dec["up"].queued = << >>
  BY DEF Init, Directions
<1>2. \A id \in Ids : ~Queues(<< >>, id)
  BY DEF Queues
<1> QED
  BY <1>1, <1>2 DEF LeadInv, Leads

LEMMA NextLead == IInv /\ CallInv /\ AnswerInv /\ LeadInv /\ [Next]_vars => LeadInv'
<1> SUFFICES ASSUME IInv, CallInv, AnswerInv, LeadInv, [Next]_vars PROVE LeadInv'
  OBVIOUS
<1>1. ASSUME NEW id \in Ids, NEW f \in ClientFrames(id), Write(f) PROVE LeadInv'
  BY <1>1, WriteLead
<1>2. ASSUME NEW id \in Ids, NEW f \in ServerFrames(id), Read(f) PROVE LeadInv'
  <2>1. /\ sent' = sent /\ dec' = dec /\ pipe' = pipe /\ routing' = routing
        /\ mirror' = [mirror EXCEPT !["down"] = <<f>>]
    BY <1>2 DEF Read, trackerVars
  <2>2. mirror'["up"] = mirror["up"] /\ (Live("up")' => Live("up"))
    BY <2>1 DEF Live
  <2>3. \A j \in Ids : StillMirrors(mirror["up"], mirror'["up"], Live("up")', j)
    BY <2>2 DEF StillMirrors
  <2> QED
    BY <2>1, <2>2, <2>3, LeadStays
<1>3. ASSUME NEW d \in Directions, TakeFrame(d) PROVE LeadInv'
  BY <1>3, TakeFrameTakes, TakeLead
<1>4. ASSUME NEW d \in Directions, Handle(d) PROVE LeadInv'
  BY <1>4, HandleLead
<1>5. ASSUME Quietly PROVE LeadInv'
  BY <1>5, LeadStays DEF Quietly
<1> QED
  BY <1>1, <1>2, <1>3, <1>4, <1>5, QuietSteps DEF Next, DecoderStep

-----------------------------------------------------------------------------
(***************************************************************************)
(* A call is followed to its trailers and then saved.                      *)
(***************************************************************************)
LEMMA DueStays ==
    ASSUME NEW id \in Ids, sent'[id] = sent[id], firstErr' = "nil" => firstErr = "nil",
           routing'[id] # "overtaken" => routing[id] # "overtaken"
    PROVE  Due(id)' => Due(id)
  BY DEF Due

LEMMA CompleteStays ==
    ASSUME NEW id \in Ids, IsSeq(saved), Complete(id),
           MessagesIn(replied'[id]) = MessagesIn(replied[id]),
           saved' = saved \/ \E x : saved' = Append(saved, x)
    PROVE  Complete(id)'
<1>1. PICK i \in DOMAIN saved :
          saved[i].id = id /\ MessagesOf(saved[i].pair.recvs) = MessagesIn(replied[id])
  BY DEF Complete
<1>2. i \in DOMAIN saved' /\ saved'[i] = saved[i]
  <2>1. CASE saved' = saved
    BY <2>1
  <2>2. ASSUME NEW x, saved' = Append(saved, x)
        PROVE  i \in DOMAIN saved' /\ saved'[i] = saved[i]
    BY <2>2, AppendFacts
  <2> QED
    BY <2>1, <2>2
<1> QED
  BY <1>1, <1>2 DEF Complete

LEMMA QuietFollow ==
    ASSUME IInv, FollowInv, Quietly
    PROVE  FollowInv'
<1> SUFFICES ASSUME NEW id \in Ids PROVE Followed(id)' /\ WholeOnceRead(id)'
  BY DEF FollowInv
<1>1. Followed(id) /\ WholeOnceRead(id) /\ IsSeq(saved)
  BY DEF FollowInv, IInv, Shape
<1>2. Due(id)' => Due(id)
  BY DueStays DEF Quietly
<1>3. /\ replied' = replied /\ returned' = returned /\ routing' = routing
      /\ saved' = saved /\ unsaved' = unsaved
      /\ dec'["down"].queued = dec["down"].queued
      /\ closer' # "done" => closer # "done" /\ streams' = streams
      /\ mirror'["down"] = mirror["down"] \/ mirror'["down"] = << >>
  BY DEF Quietly
<1>4. Awaited(id)' => Awaited(id)
  <2>1. ~Mirrors(<< >>, id)
    BY DEF Mirrors
  <2> QED
    BY <1>3, <2>1 DEF Awaited, Ahead
<1>5. /\ TrailersRead(id)' => TrailersRead(id)
      /\ TrailersQueued(id) => TrailersQueued(id)'
  BY <1>3 DEF TrailersRead, TrailersQueued
<1>6. Complete(id) => Complete(id)'
  BY <1>1, <1>3, CompleteStays
<1> QED
  BY <1>1, <1>2, <1>3, <1>4, <1>5, <1>6 DEF Followed, WholeOnceRead

LEMMA WriteFollow ==
    ASSUME IInv, CallInv, AnswerInv, FollowInv, NEW id \in Ids,
           NEW f \in ClientFrames(id), Write(f)
    PROVE  FollowInv'
<1> SUFFICES ASSUME NEW j \in Ids PROVE Followed(j)' /\ WholeOnceRead(j)'
  BY DEF FollowInv
<1>1. f.id = id
  BY ClientFramesOK
<1>2. /\ replied' = replied /\ returned' = returned /\ routing' = routing
      /\ saved' = saved /\ unsaved' = unsaved /\ dec' = dec /\ streams' = streams
      /\ firstErr' = firstErr /\ closer' = closer
      /\ mirror' = [mirror EXCEPT !["up"] = <<f>>]
      /\ sent' = [sent EXCEPT ![id] = Append(@, f)]
  BY <1>1 DEF Write, trackerVars
<1>3. mirror'["down"] = mirror["down"] /\ DOMAIN sent = Ids /\ IsSeq(sent[id])
  BY <1>2 DEF IInv, Shape
<1>4. Followed(j) /\ WholeOnceRead(j)
  BY DEF FollowInv
<1>5. (Awaited(j)' => Awaited(j)) /\ (TrailersRead(j)' => TrailersRead(j))
  BY <1>2, <1>3 DEF Awaited, TrailersRead
<1>6. /\ TrailersQueued(j) => TrailersQueued(j)'
      /\ Complete(j) => Complete(j)'
  BY <1>2 DEF TrailersQueued, Complete
<1>7. CASE j = id /\ sent[id] = << >>
  <2>1. routing[j] # "first"
    BY <1>7 DEF CallInv, Upward, Opens
  <2>2. ~TrailersRead(j)
    <3>1. replied[j] = << >> /\ Answers(replied[j], dec["down"].queued,
                                        mirror["down"], j, closer, returned[j])
      BY <1>7 DEF AnswerInv
    <3>2. returned[j] = 0
      BY <3>1 DEF Answers
    <3> QED
      BY <3>2 DEF TrailersRead
  <2> QED
    BY <1>2, <1>5, <2>1, <2>2 DEF Followed, WholeOnceRead
<1>8. CASE ~(j = id /\ sent[id] = << >>)
  <2>1. Due(j)' => Due(j)
    <3>1. CASE j # id
      BY <1>2, <3>1 DEF Due
    <3>2. CASE j = id
      <4>1. PICK old, new : old = sent[id] /\ new = sent'[id]
        OBVIOUS
      <4>2. new = Append(old, f) /\ old # << >> /\ IsSeq(old)
        BY <1>2, <1>3, <1>8, <3>2, <4>1
      <4>3. 1 \in 1 .. Len(old)
        BY <4>2, TailFacts
      <4>4. new[1] = old[1] /\ (WasReset(old) => WasReset(new))
        BY <4>2, <4>3, AppendFacts DEF WasReset
      <4> QED
        BY <1>2, <3>2, <4>1, <4>2, <4>4 DEF Due
    <3> QED
      BY <3>1, <3>2
  <2> QED
    BY <1>2, <1>4, <1>5, <1>6, <2>1 DEF Followed, WholeOnceRead
<1> QED
  BY <1>7, <1>8

LEMMA ReadFollow ==
    ASSUME IInv, CallInv, AnswerInv, FollowInv, NEW id \in Ids,
           NEW f \in ServerFrames(id), Read(f)
    PROVE  FollowInv'
<1> SUFFICES ASSUME NEW j \in Ids PROVE Followed(j)' /\ WholeOnceRead(j)'
  BY DEF FollowInv
<1>1. f.id = id /\ f.kind # "preface" /\ FrameOK(f)
  BY ServerFramesOK, ServerFramesFollow
<1>2. /\ sent' = sent /\ returned' = returned /\ routing' = routing
      /\ saved' = saved /\ unsaved' = unsaved /\ dec' = dec /\ streams' = streams
      /\ firstErr' = firstErr /\ closer' = closer
      /\ mirror' = [mirror EXCEPT !["down"] = <<f>>]
      /\ replied' = [replied EXCEPT ![id] = Append(@, f)]
  BY <1>1 DEF Read, trackerVars
<1>3. /\ mirror'["down"] = <<f>> /\ DOMAIN replied = Ids /\ IsSeq(replied[j])
      /\ IsSeq(saved)
  BY <1>2 DEF IInv, Shape, Directions, CallInv, Wired, FramesOK
<1>4. Followed(j) /\ WholeOnceRead(j)
  BY DEF FollowInv
<1>5. (Due(j)' => Due(j)) /\ (TrailersQueued(j) => TrailersQueued(j)')
  BY <1>2 DEF Due, TrailersQueued
<1>6. CASE j # id
  <2>1. replied'[j] = replied[j]
    BY <1>2, <1>3, <1>6
  <2>2. ~Mirrors(<<f>>, j)
    BY <1>1, <1>6 DEF Mirrors
  <2>3. (Awaited(j)' => Awaited(j)) /\ (TrailersRead(j)' => TrailersRead(j))
    BY <1>2, <1>3, <2>1, <2>2 DEF Awaited, Ahead, TrailersRead
  <2>4. Complete(j) => Complete(j)'
    BY <1>2, <1>3, <2>1, CompleteStays
  <2> QED
    BY <1>2, <1>4, <1>5, <2>3, <2>4 DEF Followed, WholeOnceRead
<1>7. CASE j = id
  <2>1. PICK old, new, n : old = replied[j] /\ new = replied'[j] /\ n = returned[j]
    OBVIOUS
  <2>2. new = Append(old, f) /\ IsSeq(old)
    BY <1>2, <1>3, <1>7, <2>1
  <2>3. /\ Len(old) \in Nat /\ DOMAIN old = 1 .. Len(old)
        /\ DOMAIN new = 1 .. Len(old) + 1
        /\ \A i \in 1 .. Len(old) : new[i] = old[i]
    BY <2>2, AppendFacts
  <2>4. Ended(old) => f.kind = "reset"
    BY <1>7, <2>1, ServerFramesEnd
  <2>5. Ended(old) => Ended(new)
    BY <2>3 DEF Ended
  <2>6. Awaited(j)' => Awaited(j)
    <3>1. IsTrailers(<<f>>[1]) => ~Ended(old)
      BY <2>4 DEF IsTrailers
    <3> QED
      BY <1>2, <1>3, <2>1, <2>5, <3>1 DEF Awaited, Ahead
  <2>7. n \in Nat /\ n <= Len(old)
    BY <2>1 DEF AnswerInv, Answers
  <2>8. \A i \in 1 .. n : i \in DOMAIN old /\ new[i] = old[i]
    BY <2>3, <2>7
  <2>9. TrailersRead(j)' => TrailersRead(j)
    BY <1>2, <2>1, <2>8 DEF TrailersRead
  <2>10. TrailersRead(j) => Ended(old)
    <3>1. \A i \in DOMAIN old : IsTrailers(old[i]) => old[i].end
      BY <2>1 DEF AnswerInv, Answers
    <3> QED
      BY <2>1, <2>8, <3>1 DEF TrailersRead, Ended
  <2>11. TrailersRead(j) => MessagesIn(new) = MessagesIn(old)
    <3>1. f.kind = "reset" => ~IsData(f)
      BY DEF IsData
    <3>2. MessagesIn(new) = IF IsData(f) THEN MessagesIn(old) \o f.msgs ELSE MessagesIn(old)
      BY <2>2, MessagesAppended
    <3> QED
      BY <2>4, <2>10, <3>1, <3>2
  <2>12. TrailersRead(j) /\ Complete(j) => Complete(j)'
    BY <1>2, <1>3, <2>1, <2>11, CompleteStays
  <2> QED
    BY <1>2, <1>4, <1>5, <2>6, <2>9, <2>12 DEF Followed, WholeOnceRead
<1> QED
  BY <1>6, <1>7

LEMMA TakeFollow ==
    ASSUME IInv, CallInv, AnswerInv, FollowInv, NEW d \in Directions, NEW f, Taken(d, f)
    PROVE  FollowInv'
<1> SUFFICES ASSUME NEW id \in Ids PROVE Followed(id)' /\ WholeOnceRead(id)'
  BY DEF FollowInv
<1>1. "up" \in Directions /\ "down" \in Directions
  BY DEF Directions
<1>2. /\ sent' = sent /\ replied' = replied /\ routing' = routing
      /\ saved' = saved /\ unsaved' = unsaved /\ streams' = streams
      /\ firstErr' = firstErr /\ closer' = closer
      /\ mirror[d] = <<f>> /\ mirror'[d] = << >> /\ dec[d].queued = << >>
      /\ \A o \in Directions \ {d} : mirror'[o] = mirror[o] /\ dec'[o] = dec[o]
      /\ returned' = IF d = "down" /\ closer = "open"
                     THEN [returned EXCEPT ![f.id] = @ + 1] ELSE returned
  BY DEF Taken
<1>3. Followed(id) /\ WholeOnceRead(id) /\ IsSeq(saved) /\ DOMAIN returned = Ids
  BY DEF FollowInv, IInv, Shape, AnswerInv
<1>4. (Due(id)' => Due(id)) /\ (Complete(id) => Complete(id)')
  BY <1>2 DEF Due, Complete
<1>5. CASE d # "down"
  <2>1. returned' = returned /\ mirror'["down"] = mirror["down"] /\ dec'["down"] = dec["down"]
    BY <1>1, <1>2, <1>5
  <2>2. /\ Awaited(id)' => Awaited(id)
        /\ TrailersRead(id)' => TrailersRead(id)
        /\ TrailersQueued(id) => TrailersQueued(id)'
    BY <1>2, <2>1 DEF Awaited, TrailersRead, TrailersQueued
  <2> QED
    BY <1>2, <1>3, <1>4, <2>2 DEF Followed, WholeOnceRead
<1>6. CASE d = "down"
  <2>1. dec["down"].at # "preface"
    BY DEF CallInv, Wired
  <2>2. PICK evs : evs = dec'["down"].queued
    OBVIOUS
  <2>3. f.kind # "preface" /\ evs = WireEvents(f) /\ FrameOK(f)
    BY <1>6, <2>1, <2>2 DEF Taken
  <2>4. /\ IsSeq(evs) /\ (Queues(evs, id) => f.id = id)
        /\ \A i \in DOMAIN evs : evs[i].kind # "message" => evs[i] = f
    BY <2>3, EventsOfFrame
  <2>5. /\ ~Queues(<< >>, id) /\ ~Mirrors(<< >>, id)
        /\ (Mirrors(<<f>>, id) <=> f.id = id) /\ <<f>>[1] = f
    BY <2>3 DEF Queues, Mirrors
  <2>6. Queues(evs, id) /\ IsTrailers(evs[1]) => Mirrors(<<f>>, id) /\ IsTrailers(f)
    <3>1. evs # << >> => 1 \in DOMAIN evs
      BY <2>4, TailFacts
    <3> QED
      BY <2>4, <2>5, <3>1 DEF Queues, IsTrailers
  <2>7. Awaited(id)' => Awaited(id)
    BY <1>2, <1>6, <2>2, <2>5, <2>6 DEF Awaited, Ahead
  <2>8. f.id = id /\ IsTrailers(f) => TrailersQueued(id)'
    <3>1. IsTrailers(f) => evs # << >> /\ evs[1] = f
      BY <2>3 DEF WireEvents, IsTrailers
    <3> QED
      BY <2>2, <3>1 DEF TrailersQueued, Queues
  <2>9. ~TrailersQueued(id)
    BY <1>2, <1>6, <2>5 DEF TrailersQueued
  <2>10. TrailersRead(id)' => TrailersRead(id) \/ TrailersQueued(id)'
    <3>1. CASE closer = "open" /\ f.id = id
      <4>1. PICK frames, n : frames = replied[id] /\ n = returned[id]
        OBVIOUS
      <4>2. Answers(frames, << >>, <<f>>, id, closer, n)
        BY <1>2, <1>6, <4>1 DEF AnswerInv
      <4>3. n \in Nat /\ n + 1 = Len(frames)
        BY <2>5, <3>1, <4>2 DEF Answers, Returns
      <4>4. frames[n + 1] = f
        <5>1. PICK h \in Nat : Flow(frames, << >>, <<f>>, Live("down"), id, h)
          BY <1>2, <1>6, <4>1 DEF CallInv, Downward
        <5> QED
          BY <2>5, <3>1, <4>3, <5>1 DEF Flow
      <4>5. returned'[id] = n + 1
        BY <1>2, <1>3, <1>6, <3>1, <4>1
      <4>6. ASSUME NEW i \in 1 .. returned'[id], IsTrailers(replied'[id][i])
            PROVE  TrailersRead(id) \/ TrailersQueued(id)'
        <5>1. i \in 1 .. n \/ i = n + 1
          BY <4>3, <4>5
        <5>2. IsTrailers(frames[i])
          BY <1>2, <4>1, <4>6
        <5>3. CASE i \in 1 .. n
          BY <4>1, <5>2, <5>3 DEF TrailersRead
        <5>4. CASE i = n + 1
          BY <2>8, <3>1, <4>4, <5>2, <5>4
        <5> QED
          BY <5>1, <5>3, <5>4
      <4> QED
        BY <4>6 DEF TrailersRead
    <3>2. CASE ~(closer = "open" /\ f.id = id)
      <4>1. returned'[id] = returned[id]
        BY <1>2, <1>3, <3>2
      <4> QED
        BY <1>2, <4>1 DEF TrailersRead
    <3> QED
      BY <3>1, <3>2
  <2> QED
    BY <1>2, <1>3, <1>4, <2>7, <2>9, <2>10 DEF Followed, WholeOnceRead
<1> QED
  BY <1>5, <1>6

\* What handle leaves alone, and that an error of it is noted.
LEMMA HandleNotes ==
    ASSUME Shape, NEW d \in Directions, Handle(d), NEW ev, ev = dec[d].queued[1]
    PROVE  /\ closer' = closer /\ returned' = returned /\ unsaved \subseteq unsaved'
           /\ firstErr' = "nil" =>
                 firstErr = "nil" /\ ~Refused(d, ev, streams[ev.id])
<1>1. dec[d].queued # << >>
  BY DEF Handle
<1>2. Head(dec[d].queued) = ev
  BY <1>1, FirstEvent
<1>3. closer' = closer /\ returned' = returned
  BY DEF Handle
<1>4. firstErr' = "nil" => firstErr = "nil" /\ ~Refused(d, ev, streams[ev.id])
  <2>1. \/ Refused(d, ev, streams[ev.id]) /\ NoteErr("refused")
        \/ ~Refused(d, ev, streams[ev.id]) /\ firstErr' = firstErr
    BY <1>2, Zenon DEF Handle
  <2>2. NoteErr("refused") => firstErr' # "nil"
    BY DEF NoteErr
  <2> QED
    BY <2>1, <2>2
<1>5. unsaved \subseteq unsaved'
  <2>1. PICK s : s = streams[ev.id]
    OBVIOUS
  <2>2. \/ Finish(ev.id, s, TRUE)
        \/ RequestHeaders(ev, s) \/ ClientMessage(ev, s)
        \/ ResponseHeaders(ev, s) \/ ServerMessage(ev, s)
    BY <1>2, <2>1, Zenon DEF Handle
  <2>3. ASSUME NEW failed, Finish(ev.id, s, failed) PROVE unsaved \subseteq unsaved'
    <3>1. unsaved' = unsaved \/ unsaved' = unsaved \cup {ev.id}
      BY <2>3, Zenon DEF Finish
    <3> QED
      BY <3>1
  <2>4. ASSUME NEW t, Noted(ev.id, t) PROVE unsaved \subseteq unsaved'
    BY <2>4 DEF Noted
  <2>5. RequestHeaders(ev, s) => \E t : Noted(ev.id, t)
    BY Zenon DEF RequestHeaders
  <2>6. ClientMessage(ev, s) => \E t : Noted(ev.id, t)
    BY Zenon DEF ClientMessage
  <2>7. ServerMessage(ev, s) => \E t : Noted(ev.id, t)
    BY Zenon DEF ServerMessage
  <2>8. ResponseHeaders(ev, s) =>
            (\E t : Noted(ev.id, t)) \/ \E failed : Finish(ev.id, s, failed)
    BY Zenon DEF ResponseHeaders
  <2> QED
    BY <2>2, <2>3, <2>4, <2>5, <2>6, <2>7, <2>8
<1> QED
  BY <1>3, <1>4, <1>5

\* A call whose trailers are handled while it is followed is saved, or found
\* unsaved.
Concluded(id, s) ==
    \/ id \in unsaved'
    \/ \E typ, n, failed :
          saved' = Append(saved, [id |-> id, typ |-> typ, n |-> n,
                                  pair |-> PairOfEvents(s, failed)])

LEMMA TrailersFinish ==
    ASSUME Shape, Handle("down"), NEW ev, ev = dec["down"].queued[1],
           NEW s, s = streams[ev.id], Tracked(s), IsTrailers(ev), firstErr' = "nil"
    PROVE  Concluded(ev.id, s)
<1>1. "down" \in Directions /\ "down" # "up" /\ dec["down"].queued # << >>
  BY DEF Directions, Handle
<1>2. Head(dec["down"].queued) = ev
  BY <1>1, FirstEvent
<1>3. ev.kind = "headers" /\ ev.status # "none"
  BY DEF IsTrailers
<1>4. ~Refused("down", ev, s)
  BY <1>1, HandleNotes
<1>5. ~Compressed(ev)
  BY <1>1, <1>3, <1>4 DEF Refused, Tracked
<1>6. ResponseHeaders(ev, s)
  BY <1>1, <1>2, <1>3 DEF Handle
<1>7. PICK failed : Finish(ev.id, s, failed)
  BY <1>3, <1>5, <1>6 DEF ResponseHeaders, Tracked
<1>8. ~(~s.service \/ s.compressed)
  BY DEF Tracked
<1>9. \/ unsaved' = unsaved \cup {ev.id}
      \/ \E typ, n :
            saved' = Append(saved, [id |-> ev.id, typ |-> typ, n |-> n,
                                    pair |-> PairOfEvents(s, failed)])
  BY <1>7, <1>8, Zenon DEF Finish
<1> QED
  BY <1>9 DEF Concluded

\* The messages and the end of the client leave a stream as followed as it is.
LEMMA SentTracked ==
    ASSUME NEW ev, NEW s, DOMAIN s = RecFields, Tracked(s)
    PROVE  Tracked(SentAs(ev, s)) /\ Tracked(ReceivedAs(ev, s))
<1>1. ASSUME NEW t, DOMAIN t = RecFields, Tracked(t)
      PROVE  Tracked(NoteHalfClose(t))
  <2>1. "service" \in RecFields /\ "compressed" \in RecFields
    BY DEF RecFields
  <2>2. NoteHalfClose(t).service = t.service /\ NoteHalfClose(t).compressed = t.compressed
    BY <1>1 DEF NoteHalfClose, RecFields
  <2> QED
    BY <1>1, <2>2 DEF Tracked
<1>2. PICK w : w = WithMessage(ev, s)
  OBVIOUS
<1>3. DOMAIN w = RecFields /\ w.service = s.service /\ w.compressed = s.compressed
  BY <1>2 DEF WithMessage, RecFields
<1>4. Tracked(w)
  BY <1>3 DEF Tracked
<1>5. Tracked(SentAs(ev, s))
  <2>1. SentAs(ev, s) = NoteHalfClose(w) \/ SentAs(ev, s) = w
    BY <1>2 DEF SentAs
  <2> QED
    BY <1>1, <1>3, <1>4, <2>1
<1>6. PICK t : t = ReceivedAs(ev, s)
  OBVIOUS
<1>7. t.service = s.service /\ t.compressed = s.compressed
  BY <1>6 DEF ReceivedAs, RecFields
<1> QED
  BY <1>5, <1>6, <1>7 DEF Tracked

\* Request headers of a gRPC method that are not compressed start it.
LEMMA RoutedTracked ==
    ASSUME NEW ev, ev.path = "grpc", ~Compressed(ev)
    PROVE  Tracked(RoutedAs(ev, NewRecStream))
<1>1. PICK t : t = [NewRecStream EXCEPT !.service = TRUE]
  OBVIOUS
<1>2. t.service /\ ~t.compressed /\ ~t.sawHalfClose /\ DOMAIN t = RecFields
  BY <1>1 DEF NewRecStream, RecFields
<1>3. PICK u : u = NoteHalfClose(t)
  OBVIOUS
<1>4. u.service = t.service /\ u.compressed = t.compressed
  BY <1>2, <1>3 DEF NoteHalfClose, RecFields
<1>5. RoutedAs(ev, NewRecStream) = u \/ RoutedAs(ev, NewRecStream) = t
  BY <1>1, <1>3 DEF RoutedAs
<1> QED
  BY <1>2, <1>4, <1>5 DEF Tracked

LEMMA HandleUpFollow ==
    ASSUME IInv, CallInv, LeadInv, FollowInv, Handle("up")
    PROVE  FollowInv'
<1> SUFFICES ASSUME NEW id \in Ids PROVE Followed(id)' /\ WholeOnceRead(id)'
  BY DEF FollowInv
<1>1. /\ "up" \in Directions /\ "down" \in Directions /\ "up" # "down"
      /\ Wired /\ Shape /\ HeadersOnce /\ IsSeq(saved)
  BY DEF Directions, CallInv, IInv, Shape
<1>2. PICK q, ev : q = dec["up"].queued /\ ev = q[1]
  OBVIOUS
<1>3. DOMAIN routing = Ids
  BY <1>1 DEF Wired
<1>4. /\ sent' = sent /\ replied' = replied /\ mirror' = mirror
      /\ q # << >> /\ IsSeq(q) /\ ev.id \in Ids
      /\ dec'["down"] = dec["down"]
      /\ \A j \in Ids \ {ev.id} : routing'[j] = routing[j]
      /\ routing'[ev.id] = IF routing[ev.id] # "none" THEN routing[ev.id] ELSE "first"
  BY <1>1, <1>2, <1>3, HandleAround
<1>5. /\ UpOutcome(ev, streams[ev.id], streams'[ev.id])
      /\ SavesAs(ev.id, streams[ev.id])
      /\ \A j \in Ids \ {ev.id} : streams'[j] = streams[j]
      /\ EventOK(ev)
  BY <1>1, <1>2, HandleUpOutcome
<1>6. /\ closer' = closer /\ returned' = returned /\ unsaved \subseteq unsaved'
      /\ firstErr' = "nil" =>
            firstErr = "nil" /\ ~Refused("up", ev, streams[ev.id])
  BY <1>1, <1>2, HandleNotes
<1>7. Followed(id) /\ WholeOnceRead(id)
  BY DEF FollowInv
<1>8. Due(id)' => Due(id)
  <2>1. routing'[id] # "overtaken" => routing[id] # "overtaken"
    BY <1>4
  <2> QED
    BY <1>4, <1>6, <2>1, DueStays
<1>9. /\ Awaited(id)' => Awaited(id)
      /\ TrailersRead(id)' => TrailersRead(id)
      /\ TrailersQueued(id) => TrailersQueued(id)'
  BY <1>4, <1>6 DEF Awaited, TrailersRead, TrailersQueued
<1>10. Complete(id) => Complete(id)'
  <2>1. saved' = saved \/ \E x : saved' = Append(saved, x)
    BY <1>5 DEF SavesAs
  <2> QED
    BY <1>1, <1>4, <2>1, CompleteStays
<1>11. WholeOnceRead(id)'
  BY <1>6, <1>7, <1>8, <1>9, <1>10 DEF WholeOnceRead
<1>12. Followed(id)'
  <2>1. CASE id # ev.id
    <3>1. streams'[id] = streams[id] /\ routing'[id] = routing[id]
      BY <1>4, <1>5, <2>1
    <3> QED
      BY <1>6, <1>7, <1>8, <1>9, <3>1 DEF Followed
  <2>2. CASE id = ev.id
    <3> SUFFICES ASSUME closer' # "done", routing'[id] = "first", Due(id)', Awaited(id)'
                 PROVE  Tracked(streams'[id])
      BY DEF Followed
    <3>1. Due(id) /\ firstErr' = "nil" /\ sent[id][1].path = "grpc" /\ ~WasReset(sent[id])
      BY <1>4, <1>8 DEF Due
    <3>2. Queues(q, id)
      BY <1>2, <1>4, <2>2 DEF Queues
    <3>3. Leads(sent[id], q, mirror["up"], Live("up"), id, routing[id])
      BY <1>2 DEF LeadInv
    <3>4. ev.kind # "reset"
      BY <1>2, <3>1, <3>2, <3>3 DEF Leads
    <3>5. CASE ev.kind = "headers"
      <4>1. ev = sent[id][1]
        BY <1>2, <3>2, <3>5 DEF CallInv, Upward, Opens
      <4>2. ~Compressed(ev)
        BY <1>6, <3>1, <3>5, <4>1 DEF Refused
      <4>3. streams[id] = NewRecStream
        <5>1. 1 \in DOMAIN q
          BY <1>4, TailFacts
        <5>2. InDecoder(ev.id)
          BY <1>2, <3>5, <5>1 DEF InDecoder
        <5>3. ~streams[id].service
          BY <1>1, <2>2, <5>2 DEF HeadersOnce
        <5> QED
          BY <5>3 DEF CallInv, Upward, TracksUp
      <4>4. streams'[id] = RoutedAs(ev, streams[id])
        BY <1>5, <2>2, <3>5 DEF UpOutcome
      <4> QED
        BY <3>1, <4>1, <4>2, <4>3, <4>4, RoutedTracked
    <3>6. CASE ev.kind = "message"
      <4>1. routing[id] = "first"
        BY <1>2, <1>4, <2>2, <3>2, <3>3, <3>6 DEF Leads
      <4>2. Tracked(streams[id])
        BY <1>6, <1>7, <1>9, <3>1, <4>1 DEF Followed
      <4>3. streams'[id] = SentAs(ev, streams[id])
        BY <1>5, <2>2, <3>6, <4>2 DEF UpOutcome, Tracked
      <4>4. DOMAIN streams[id] = RecFields
        BY <1>1 DEF Shape
      <4> QED
        BY <4>2, <4>3, <4>4, SentTracked
    <3> QED
      BY <1>5, <3>4, <3>5, <3>6 DEF EventOK
  <2> QED
    BY <2>1, <2>2
<1> QED
  BY <1>11, <1>12

\* Once the trailers are all that waits, what is noted of a call whose headers
\* were handled first is all that the server sent.
LEMMA TrailersAreLast ==
    ASSUME NEW frames, NEW q, NEW m, NEW live, NEW id, NEW h \in Nat, NEW s,
           FramesOK(frames), IsSeq(q), QueueOK(q), Queues(q, id),
           Flow(frames, q, m, live, id, h), TracksDown(s, frames, "first", h),
           IsSeq(s.events), s.service, IsTrailers(q[1]), q[1].end
    PROVE  Kept(s, "recv") = MessagesIn(frames)
<1>1. ~Carries(q[1]) /\ q[1].kind # "reset"
  BY DEF Carries, IsTrailers
<1>2. PICK all, kept : all = MessagesIn(frames) /\ kept = Kept(s, "recv")
  OBVIOUS
<1>3. h = Len(all)
  <2>1. PICK g : g = IF Carries(q[1]) THEN h + 1 ELSE h
    OBVIOUS
  <2>2. g = Len(MessagesIn(frames))
    BY <1>1, <2>1, HeadEvent
  <2> QED
    BY <1>1, <1>2, <2>1, <2>2
<1>4. /\ IsSeq(kept) /\ Len(kept) \in Nat /\ IsSeq(all) /\ Len(all) \in Nat
  BY <1>2, KeptIsSeq, MessagesAreSeq, AppendFacts
<1>5. Len(kept) = h /\ \A i \in 1 .. Len(kept) : kept[i] = all[h - Len(kept) + i]
  BY <1>2 DEF TracksDown
<1>6. \A i \in 1 .. Len(kept) : kept[i] = all[i]
  <2> SUFFICES ASSUME NEW i \in 1 .. Len(kept) PROVE kept[i] = all[i]
    OBVIOUS
  <2>1. h - Len(kept) + i = i
    BY <1>4, <1>5
  <2> QED
    BY <1>5, <2>1
<1>7. Segment(kept, all, 0) /\ Len(kept) = Len(all)
  BY <1>3, <1>4, <1>5, <1>6 DEF Segment
<1> QED
  BY <1>2, <1>4, <1>7, SegmentIsWhole

LEMMA HandleDownFollow ==
    ASSUME IInv, CallInv, AnswerInv, LeadInv, FollowInv, Handle("down")
    PROVE  FollowInv'
<1> SUFFICES ASSUME NEW id \in Ids PROVE Followed(id)' /\ WholeOnceRead(id)'
  BY DEF FollowInv
<1>1. /\ "up" \in Directions /\ "down" \in Directions /\ "up" # "down"
      /\ Wired /\ Shape /\ IsSeq(saved)
  BY DEF Directions, CallInv, IInv, Shape
<1>2. PICK q, n, ev : q = dec["down"].queued /\ n = dec'["down"].queued /\ ev = q[1]
  OBVIOUS
<1>3. DOMAIN routing = Ids /\ QueueOK(q)
  BY <1>1, <1>2 DEF Wired
<1>4. /\ sent' = sent /\ replied' = replied /\ mirror' = mirror
      /\ q # << >> /\ IsSeq(q) /\ ev.id \in Ids
      /\ Passed(q, n, Live("down"), Live("down")')
      /\ \A j \in Ids \ {ev.id} : routing'[j] = routing[j]
      /\ routing'[ev.id] = IF routing[ev.id] # "none" THEN routing[ev.id]
                           ELSE "overtaken"
  BY <1>1, <1>2, <1>3, HandleAround
<1>5. /\ DownOutcome(ev, streams[ev.id], streams'[ev.id])
      /\ SavesAs(ev.id, streams[ev.id])
      /\ \A j \in Ids \ {ev.id} : streams'[j] = streams[j]
  BY <1>1, <1>2, HandleDownOutcome
<1>6. /\ closer' = closer /\ returned' = returned /\ unsaved \subseteq unsaved'
      /\ firstErr' = "nil" => firstErr = "nil"
  BY <1>1, <1>2, HandleNotes
<1>7. Followed(id) /\ WholeOnceRead(id)
  BY DEF FollowInv
<1>8. Due(id)' => Due(id)
  <2>1. routing'[id] # "overtaken" => routing[id] # "overtaken"
    BY <1>4
  <2> QED
    BY <1>4, <1>6, <2>1, DueStays
<1>9. ~(Queues(n, id) /\ IsTrailers(n[1]))
  <2>1. n = << >> \/ Carries(n[1])
    BY <1>3, <1>4, PassedOK
  <2> QED
    BY <2>1 DEF Queues, Carries, IsTrailers
<1>10. /\ Awaited(id)' => Awaited(id)
       /\ TrailersRead(id)' => TrailersRead(id)
  BY <1>2, <1>4, <1>6, <1>9 DEF Awaited, Ahead, TrailersRead
<1>11. Complete(id) => Complete(id)'
  <2>1. saved' = saved \/ \E x : saved' = Append(saved, x)
    BY <1>5 DEF SavesAs
  <2> QED
    BY <1>1, <1>4, <2>1, CompleteStays
<1>12. closer # "done"
  BY <1>1, <1>2, <1>4 DEF IInv, Drained
<1>13. Queues(q, id) <=> id = ev.id
  BY <1>2, <1>4 DEF Queues
<1>14. CASE id # ev.id
  <2>1. streams'[id] = streams[id] /\ routing'[id] = routing[id] /\ ~TrailersQueued(id)
    BY <1>2, <1>4, <1>5, <1>13, <1>14 DEF TrailersQueued
  <2> QED
    BY <1>6, <1>7, <1>8, <1>10, <1>11, <2>1 DEF Followed, WholeOnceRead
<1>15. CASE id = ev.id
  <2>1. Queues(q, id) /\ (Due(id)' => routing[id] # "none")
    BY <1>4, <1>13, <1>15 DEF Due
  <2>2. Due(id)' => routing[id] = "first"
    <3>1. routing[id] \in {"none", "first", "overtaken"}
      BY DEF LeadInv, Leads
    <3> QED
      BY <1>8, <2>1, <3>1 DEF Due
  <2>3. PICK frames, s, m : /\ frames = replied[id] /\ s = streams[id]
                            /\ m = mirror["down"]
    OBVIOUS
  <2>4. PICK h \in Nat : /\ Flow(frames, q, m, Live("down"), id, h)
                         /\ TracksDown(s, frames, routing[id], h)
    BY <1>2, <2>3 DEF CallInv, Downward
  <2>5. Answers(frames, q, m, id, closer, returned[id])
    BY <1>2, <2>3 DEF AnswerInv
  <2>6. FramesOK(frames)
    BY <1>1, <2>3 DEF Wired
  <2>7. DOMAIN s = RecFields /\ IsSeq(s.events)
    <3>1. Upward(id)
      BY DEF CallInv
    <3>2. IsSeq(streams[id].events)
      BY <3>1 DEF Upward, TracksUp
    <3> QED
      BY <1>1, <2>3, <3>2 DEF Shape
  <2>8. ev.kind = "reset" \/ IsTrailers(ev) => ~Awaited(id)'
    <3>1. SUFFICES ASSUME ev.kind = "reset" \/ IsTrailers(ev)
                   PROVE  ~Ahead(frames, n, m, id)
      BY <1>2, <1>4, <2>3 DEF Awaited
    <3>2. CASE ev.kind = "reset"
      <4>1. WasReset(frames)
        BY <1>2, <2>1, <2>5, <3>2 DEF Answers
      <4>2. PICK k \in DOMAIN frames : frames[k].kind = "reset"
        BY <4>1 DEF WasReset
      <4>3. k = Len(frames) /\ frames[k].end
        BY <2>5, <4>2 DEF Answers
      <4>4. Mirrors(m, id) => m[1] = frames[k]
        BY <2>4, <4>3 DEF Flow
      <4>5. ~(Mirrors(m, id) /\ IsTrailers(m[1]))
        BY <4>2, <4>4 DEF IsTrailers
      <4>6. Ended(frames)
        BY <4>2, <4>3 DEF Ended
      <4> QED
        BY <1>9, <4>5, <4>6 DEF Ahead
    <3>3. CASE IsTrailers(ev)
      <4>1. Ended(frames) /\ (Mirrors(m, id) => m[1].kind = "reset")
        BY <1>2, <2>1, <2>5, <3>3 DEF Answers
      <4> QED
        BY <1>9, <4>1 DEF Ahead, IsTrailers
    <3> QED
      BY <3>1, <3>2, <3>3
  <2>9. Followed(id)'
    <3> SUFFICES ASSUME closer' # "done", routing'[id] = "first", Due(id)', Awaited(id)'
                 PROVE  Tracked(streams'[id])
      BY DEF Followed
    <3>1. Tracked(s)
      BY <1>6, <1>7, <1>8, <1>10, <2>2, <2>3 DEF Followed
    <3>2. ~(ev.kind = "reset" \/ IsTrailers(ev))
      BY <2>8
    <3>3. streams'[id] = s \/ streams'[id] = ReceivedAs(ev, s)
      BY <1>5, <1>15, <2>3, <3>2 DEF DownOutcome
    <3> QED
      BY <2>7, <3>1, <3>3, SentTracked
  <2>10. WholeOnceRead(id)'
    <3> SUFFICES ASSUME TrailersRead(id)', Due(id)'
                 PROVE  id \in unsaved' \/ Complete(id)'
      BY DEF WholeOnceRead
    <3>1. TrailersQueued(id) \/ id \in unsaved \/ Complete(id)
      BY <1>7, <1>8, <1>10 DEF WholeOnceRead
    <3>2. CASE TrailersQueued(id)
      <4>1. IsTrailers(ev) /\ ev.end
        BY <1>2, <2>1, <2>5, <3>2 DEF TrailersQueued, Answers
      <4>2. Awaited(id)
        BY <1>2, <2>1, <4>1 DEF Awaited, Ahead
      <4>3. Tracked(s)
        BY <1>7, <1>8, <1>12, <2>2, <2>3, <4>2 DEF Followed
      <4>4. firstErr' = "nil"
        BY DEF Due
      <4>5. Concluded(ev.id, s)
        <5>1. ev = dec["down"].queued[1] /\ s = streams[ev.id]
          BY <1>2, <1>15, <2>3
        <5>2. Shape /\ IsTrailers(ev)
          BY <1>1, <4>1
        <5> QED
          BY <4>3, <4>4, <5>1, <5>2, TrailersFinish
      <4>6. ASSUME NEW typ, NEW k, NEW failed,
                   saved' = Append(saved, [id |-> ev.id, typ |-> typ, n |-> k,
                                           pair |-> PairOfEvents(s, failed)])
            PROVE  Complete(id)'
        <5>1. PICK p, e : /\ p = PairOfEvents(s, failed)
                          /\ e = [id |-> ev.id, typ |-> typ, n |-> k, pair |-> p]
          OBVIOUS
        <5>2. Kept(s, "recv") = MessagesIn(frames)
          <6>1. TracksDown(s, frames, "first", h) /\ s.service
            BY <2>2, <2>4, <4>3 DEF Tracked
          <6>2. IsTrailers(q[1]) /\ q[1].end
            BY <1>2, <4>1
          <6> QED
            BY <1>3, <1>4, <2>1, <2>4, <2>6, <2>7, <6>1, <6>2, TrailersAreLast
        <5>3. p.recvs = FramesOf(s, "recv")
          BY <5>1 DEF PairOfEvents
        <5>4. MessagesOf(p.recvs) = MessagesIn(frames)
          BY <5>2, <5>3 DEF Kept
        <5>5. saved' = Append(saved, e) /\ e.id = id /\ e.pair = p
          BY <1>15, <4>6, <5>1
        <5>6. Len(saved) + 1 \in DOMAIN saved' /\ saved'[Len(saved) + 1] = e
          BY <1>1, <5>5, AppendFacts
        <5>7. PICK i : i = Len(saved) + 1
          OBVIOUS
        <5>8. i \in DOMAIN saved' /\ saved'[i] = e
          BY <5>6, <5>7
        <5>9. saved'[i].id = id /\ MessagesOf(saved'[i].pair.recvs) = MessagesIn(replied'[id])
          BY <1>4, <2>3, <5>4, <5>5, <5>8
        <5> QED
          BY <5>8, <5>9 DEF Complete
      <4> QED
        BY <1>15, <4>5, <4>6 DEF Concluded
    <3> QED
      BY <1>6, <1>11, <3>1, <3>2
  <2> QED
    BY <2>9, <2>10
<1> QED
  BY <1>14, <1>15

LEMMA InitFollow ==
    ASSUME Init
    PROVE  FollowInv
<1>1. \A id \in Ids : sent[id] = << >>
  BY DEF Init
<1> QED
  BY <1>1 DEF FollowInv, Followed, WholeOnceRead, Due

LEMMA NextFollow ==
    IInv /\ CallInv /\ AnswerInv /\ LeadInv /\ FollowInv /\ [Next]_vars => FollowInv'
<1> SUFFICES ASSUME IInv, CallInv, AnswerInv, LeadInv, FollowInv, [Next]_vars
             PROVE  FollowInv'
  OBVIOUS
<1>1. ASSUME NEW id \in Ids, NEW f \in ClientFrames(id), Write(f) PROVE FollowInv'
  BY <1>1, WriteFollow
<1>2. ASSUME NEW id \in Ids, NEW f \in ServerFrames(id), Read(f) PROVE FollowInv'
  BY <1>2, ReadFollow
<1>3. ASSUME NEW d \in Directions, TakeFrame(d) PROVE FollowInv'
  BY <1>3, TakeFrameTakes, TakeFollow
<1>4. ASSUME NEW d \in Directions, Handle(d) PROVE FollowInv'
  <2>1. d = "up" \/ d = "down"
    BY DEF Directions
  <2>2. Handle("up") \/ Handle("down")
    BY <1>4, <2>1
  <2> QED
    BY <2>2, HandleUpFollow, HandleDownFollow
<1> QED
  BY <1>1, <1>2, <1>3, <1>4, QuietSteps, QuietFollow DEF Next, DecoderStep

\* Nothing is queued when Close is done, so nothing is left to be saved.
LEMMA CleanCloseIsWhole ==
    ASSUME IInv, FollowInv
    PROVE  CleanCloseIsComplete
<1> SUFFICES ASSUME closer = "done", firstErr = "nil", NEW id \in Ids \ unsaved,
                    ReadTrailers(id), routing[id] = "first", ~WasReset(sent[id])
             PROVE  \E p \in Saved(id) : MessagesOf(p.recvs) = MessagesIn(replied[id])
  BY DEF CleanCloseIsComplete
<1>1. Due(id) /\ TrailersRead(id)
  BY DEF ReadTrailers, Due, TrailersRead, IsTrailers
<1>2. ~TrailersQueued(id)
  BY DEF IInv, Drained, Directions, TrailersQueued, Queues
<1>3. Complete(id)
  BY <1>1, <1>2 DEF FollowInv, WholeOnceRead
<1> QED
  BY <1>3 DEF Complete, Saved

\* When Close returns no error, a call whose trailers the client has read, that
\* it did not reset, whose request headers the tracker handled first and whose
\* Finish did not fail is recorded with every message of the server, wherever
\* its frames were when Close was called (recordConn.Read, decode and Close,
\* streamTracker.handle and finish).
THEOREM CleanClose == Spec => []CleanCloseIsComplete
<1>1. Init => CallInv /\ AnswerInv /\ LeadInv /\ FollowInv
  BY InitCall, InitAnswer, InitLead, InitFollow
<1>2. IInv /\ FollowInv => CleanCloseIsComplete
  BY CleanCloseIsWhole
<1> QED
  BY <1>1, <1>2, NextCall, NextAnswer, NextLead, NextFollow, Invariance, PTL DEF Spec
=============================================================================
