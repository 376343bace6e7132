------------------------------- MODULE Demux -------------------------------
(***************************************************************************)
(* The wire decoding of go/adapters/grpctransport/demux.go: the bytes of   *)
(* the gRPC messages of several HTTP/2 streams, cut into DATA frames in    *)
(* any way and interleaved in any order, are put together again.  The      *)
(* sender is writeMessage of replay.go, whose length prefix every gRPC     *)
(* peer uses.                                                              *)
(*                                                                         *)
(* The same frames are read by one of two receivers: the connDecoder of    *)
(* the recording tap, or onData of the replay server.                      *)
(***************************************************************************)
EXTENDS Integers, Sequences

CONSTANTS
    Ids,            \* HTTP/2 streams
    Base,           \* values of a byte: 256 in the code
    LengthDigits,   \* bytes of the length: 4 in the code
    MaxSize,        \* maxGRPCMessageSize
    Conversations,  \* the message sequences a stream may carry
    Receivers       \* "tap", "replay"

PrefixLen == 1 + LengthDigits

Bytes == 0 .. Base - 1

\* n without its i least significant digits: n >> 8 * i.
Shifted(n) ==
    LET by[i \in 0 .. LengthDigits] == IF i = 0 THEN n ELSE by[i - 1] \div Base
    IN  by

\* The lengths that the prefix has digits for.
ASSUME DemuxAssumption ==
    /\ Base \in Nat \ {0, 1} /\ LengthDigits \in Nat \ {0} /\ MaxSize \in Nat
    /\ Receivers \subseteq {"tap", "replay"}
    /\ Conversations \subseteq Seq(Seq(Bytes))
    /\ \A c \in Conversations : \A i \in DOMAIN c :
          Shifted(Len(c[i]))[LengthDigits] = 0

VARIABLES
    receiver,       \* which of the two reads
    conversation,   \* per stream: the messages its sender sends
    framed,         \* per stream: how many of their bytes are in frames
    ended,          \* per stream: its frames are over, or no longer looked at
    buf,            \* streamDecoder.buf, per stream
    queued,         \* connDecoder.queued
    events,         \* per stream: the events next returned
    buffered,       \* replayStream.buffered, per stream
    failed          \* next returned an error

vars == <<receiver, conversation, framed, ended, buf, queued, events, buffered,
          failed>>

(***************************************************************************)
(* writeMessage: the compression byte, the length with its most            *)
(* significant byte first, the message.                                    *)
(***************************************************************************)
Encode(msg) ==
    <<0>> \o [i \in 1 .. LengthDigits |->
                 Shifted(Len(msg))[LengthDigits - i] % Base] \o msg

\* All bytes of a sequence of messages.
Wire(msgs) ==
    LET after[i \in 0 .. Len(msgs)] ==
            IF i = 0 THEN << >> ELSE after[i - 1] \o Encode(msgs[i])
    IN  after[Len(msgs)]

NoneQueued == [id |-> CHOOSE id \in Ids : TRUE, msgs |-> << >>, end |-> FALSE]

Init ==
    /\ receiver \in Receivers
    /\ conversation \in [Ids -> Conversations]
    /\ framed = [id \in Ids |-> 0]
    /\ ended = [id \in Ids |-> FALSE]
    /\ buf = [id \in Ids |-> << >>]
    /\ queued = NoneQueued
    /\ events = [id \in Ids |-> << >>]
    /\ buffered = [id \in Ids |-> << >>]
    /\ failed = FALSE

-----------------------------------------------------------------------------
(***************************************************************************)
(* feed.                                                                   *)
(***************************************************************************)

\* binary.BigEndian.Uint32 of the bytes after the first.
LengthIn(b) ==
    LET upTo[i \in 0 .. LengthDigits] ==
            IF i = 0 THEN 0 ELSE upTo[i - 1] * Base + b[1 + i]
    IN  upTo[LengthDigits]

\* Mutant: a message as long as the cap is refused.
OverCapInclusive(n) == n >= MaxSize

OverCap(n) == n > MaxSize

\* A round of the loop of feed on a buffer: a whole message is cut off, and
\* what follows is given by the later rounds; or the loop ends, with the bytes
\* that stay, and whether a length was over the cap.  The messages cut before
\* such a length are lost with it.
Round(b, later) ==
    LET n == LengthIn(b)
        total == PrefixLen + n
        Stop(over) == [msgs |-> << >>, rest |-> b, over |-> over]
    IN
    IF Len(b) < PrefixLen THEN Stop(FALSE)
    ELSE IF OverCap(n) THEN Stop(TRUE)
    ELSE IF Len(b) < total THEN Stop(FALSE)
    ELSE [msgs |-> <<SubSeq(b, PrefixLen + 1, total)>> \o later[Len(b) - total].msgs,
          rest |-> later[Len(b) - total].rest,
          over |-> later[Len(b) - total].over]

\* The loop, by the number of bytes that are left.
Drain(b) ==
    LET from[left \in 0 .. Len(b)] ==
            Round(SubSeq(b, Len(b) - left + 1, Len(b)), from)
    IN  from[Len(b)]

Event(message, end) == [message |-> message, end |-> end]

\* One DATA frame of k bytes, possibly with END_STREAM.
Frame(id, k, end) ==
    LET wire == Wire(conversation[id]) IN
    /\ ~failed /\ ~ended[id]
    /\ framed[id] + k <= Len(wire)
    /\ end => framed[id] + k = Len(wire)
    /\ framed' = [framed EXCEPT ![id] = @ + k]
    /\ UNCHANGED <<receiver, conversation>>

EndStream(id, end) == ended' = [ended EXCEPT ![id] = end]

Payload(id, k) ==
    SubSeq(Wire(conversation[id]), framed[id] + 1, framed[id] + k)

\* Mutant: one reassembly buffer for the connection.
NextDataShared(id, k, end) ==
    LET d == Drain(buf[CHOOSE i \in Ids : TRUE] \o Payload(id, k))
        msgs == d.msgs
    IN
    /\ receiver = "tap" /\ queued.msgs = << >>
    /\ Frame(id, k, end) /\ EndStream(id, end)
    /\ failed' = d.over
    /\ buf' = [i \in Ids |-> d.rest]
    /\ queued' = [id |-> id, msgs |-> msgs, end |-> end]
    /\ UNCHANGED <<events, buffered>>

(***************************************************************************)
(* next on a DATA frame, with feedData: the first message is returned and  *)
(* the others queued; END_STREAM goes with the last one, or alone when     *)
(* the frame completes none.                                               *)
(***************************************************************************)
NextData(id, k, end) ==
    LET d == Drain(buf[id] \o Payload(id, k))
        msgs == d.msgs
    IN
    /\ receiver = "tap" /\ queued.msgs = << >>
    /\ Frame(id, k, end) /\ EndStream(id, end)
    /\ failed' = d.over
    /\ buf' = [buf EXCEPT ![id] = d.rest]
    /\ IF d.over \/ (msgs = << >> /\ ~end) THEN UNCHANGED <<queued, events>>
       ELSE IF msgs = << >>
       THEN /\ events' = [events EXCEPT ![id] = Append(@, Event(<< >>, TRUE))]
            /\ UNCHANGED queued
       ELSE /\ queued' = [id |-> id, msgs |-> Tail(msgs), end |-> end]
            /\ events' = [events EXCEPT ![id] =
                             Append(@, Event(<<Head(msgs)>>,
                                             end /\ Len(msgs) = 1))]
    /\ UNCHANGED buffered

\* next with messages queued: drainQueued, before anything else is read.
DrainQueued ==
    /\ queued.msgs # << >>
    /\ queued' = [queued EXCEPT !.msgs = Tail(@)]
    /\ events' = [events EXCEPT ![queued.id] =
                     Append(@, Event(<<Head(queued.msgs)>>,
                                     queued.end /\ Len(queued.msgs) = 1))]
    /\ UNCHANGED <<receiver, conversation, framed, ended, buf, buffered, failed>>

\* onData of the replay server decodes every frame with a streamDecoder of
\* its own.  A length over the cap has the stream answered and forgotten.
OnData(id, k, end) ==
    LET d == Drain(Payload(id, k)) IN
    /\ receiver = "replay"
    /\ Frame(id, k, end) /\ EndStream(id, end \/ d.over)
    /\ buffered' = IF d.over THEN buffered
                   ELSE [buffered EXCEPT ![id] = @ \o d.msgs]
    /\ UNCHANGED <<buf, queued, events, failed>>

-----------------------------------------------------------------------------
Next ==
    \/ \E id \in Ids : \E k \in 0 .. Len(Wire(conversation[id])) - framed[id],
          end \in BOOLEAN :
             /\ k > 0 \/ end
             /\ NextData(id, k, end) \/ OnData(id, k, end)
    \/ DrainQueued

Spec == Init /\ [][Next]_vars

-----------------------------------------------------------------------------
(***************************************************************************)
(* Properties.                                                             *)
(***************************************************************************)

\* The messages that events carry, none or one each.
MessagesAt(evs) ==
    LET upTo[i \in 0 .. Len(evs)] ==
            IF i = 0 THEN << >> ELSE upTo[i - 1] \o evs[i].message
    IN  upTo[Len(evs)]

\* The messages whose last byte is among the first n of the stream.
CompleteWithin(msgs, n) ==
    LET count == {k \in 0 .. Len(msgs) : Len(Wire(SubSeq(msgs, 1, k))) <= n}
    IN  SubSeq(msgs, 1, CHOOSE k \in count : \A j \in count : j <= k)

Queued(id) == IF queued.msgs # << >> /\ queued.id = id THEN queued.msgs ELSE << >>

\* END_STREAM is reported once, by the last event of its stream, and not
\* before every message has been returned.
EndIsLast ==
    \A id \in Ids :
        LET evs == events[id]
            ends == {i \in DOMAIN evs : evs[i].end}
        IN
        /\ ends \subseteq {Len(evs)}
        /\ ends # {} => MessagesAt(evs) = conversation[id]
        /\ ended[id] /\ Queued(id) = << >> => ends # {}

\* However the bytes are cut into frames and the frames of the streams are
\* interleaved, next has returned, or is about to, exactly the messages of
\* each stream that are complete, in order, and END_STREAM with the last; the
\* rest is buffered.
Reassembled ==
    receiver = "tap" /\ ~failed =>
        /\ EndIsLast
        /\ \A id \in Ids :
            LET msgs == CompleteWithin(conversation[id], framed[id]) IN
            /\ MessagesAt(events[id]) \o Queued(id) = msgs
            /\ Wire(msgs) \o buf[id] =
                  SubSeq(Wire(conversation[id]), 1, framed[id])

\* The decoder gives up on a message over the cap, and on nothing else.
FailsOnlyOverCap ==
    failed => \E id \in Ids : \E i \in DOMAIN conversation[id] :
                  Len(conversation[id][i]) > MaxSize

\* "a message split across any number of DATA frames reassembles here", in
\* the replay server as well.
ReplayReassembles ==
    receiver = "replay" =>
        \A id \in Ids :
            (\A i \in DOMAIN conversation[id] :
                Len(conversation[id][i]) <= MaxSize) =>
            buffered[id] = CompleteWithin(conversation[id], framed[id])
=============================================================================
