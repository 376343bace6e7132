----------------------------- MODULE RecStream -----------------------------
(***************************************************************************)
(* What the transport tap keeps of one stream, recStream of                *)
(* go/adapters/grpctransport/record.go, and what finish makes of it: the   *)
(* stream type, which the wire does not carry, and the pair to save.  The  *)
(* tap and the replay server have to agree on the type, because it is part *)
(* of the address of a cassette.                                           *)
(***************************************************************************)
EXTENDS StreamFormat

\* recStream, as get makes it.  A stream the tracker has deleted or never
\* met is one with nothing noted.
NewRecStream ==
    [service |-> FALSE, events |-> << >>, sends |-> << >>, recvCount |-> 0,
     sawHalfClose |-> FALSE, halfCloseAfterFirstSend |-> FALSE,
     compressed |-> FALSE]

NoteHalfClose(s) ==
    IF s.sawHalfClose THEN s
    ELSE [s EXCEPT !.sawHalfClose = TRUE,
                   !.halfCloseAfterFirstSend = Len(s.sends) = 1,
                   !.events = Append(@, <<"half_close", "none">>)]

InferStreamType(s) ==
    IF Len(s.sends) = 1 /\ s.sawHalfClose /\ s.halfCloseAfterFirstSend
    THEN "server"
    ELSE IF s.recvCount <= 1 THEN "client"
    ELSE "bidi"

\* The pair that replaying the events noted into a StreamRecording makes:
\* RecordSend, RecordRecv and RecordHalfClose number them as they come, and
\* Finish numbers the terminal.
FramesOf(s, kind) ==
    LET upTo[i \in 0 .. Len(s.events)] ==
            IF i = 0 THEN << >>
            ELSE IF s.events[i][1] = kind
            THEN Append(upTo[i - 1], StreamFrame(i - 1, s.events[i][2]))
            ELSE upTo[i - 1]
    IN  upTo[Len(s.events)]

PairOfEvents(s, failed) ==
    [typ |-> InferStreamType(s), sends |-> FramesOf(s, "send"),
     recvs |-> FramesOf(s, "recv"),
     halfClose |-> {i - 1 : i \in {i \in DOMAIN s.events :
                                      s.events[i][1] = "half_close"}},
     end |-> Len(s.events), err |-> failed]
=============================================================================
