------------------------- MODULE MCTransportReplay -------------------------
(***************************************************************************)
(* Instances of TransportReplay for TLC: the shapes of calls.              *)
(***************************************************************************)
EXTENDS TransportReplay

CONSTANTS a, b, r, s, big, k1, k2

\* The second call may be made on a connection of its own.
SecondDial == <<{k1}, {k1, k2}>>

Conversation(events, status) == [events |-> events, status |-> status]

HalfClosed == <<"half_close", "none">>

\* One request, two replies; recorded as a server stream.
Listing == Conversation(<<<<"send", a>>, HalfClosed, <<"recv", r>>,
                          <<"recv", s>>>>, "OK")

\* Several requests, one reply after the half-close; a client stream.
Upload == Conversation(<<<<"send", a>>, <<"send", b>>, HalfClosed,
                         <<"recv", r>>>>, "OK")

\* Nothing sent, nothing received, and an error; a client stream too.
Refused == Conversation(<<HalfClosed>>, "Aborted")

\* Two requests, each answered before the next step, and then the server
\* ends the call; a bidi stream.
Dialogue == Conversation(<<<<"send", a>>, <<"recv", r>>, <<"send", b>>,
                           <<"recv", s>>>>, "OK")

\* The same with one reply: the tap records it as a client stream.
Question == Conversation(<<<<"send", a>>, <<"recv", r>>, <<"send", b>>,
                           HalfClosed>>, "OK")

\* Recordings of two calls of one type.
Pairs == {<<Listing, Listing>>, <<Upload, Refused>>, <<Dialogue, Dialogue>>,
          <<Upload, Question>>}
=============================================================================
