-------------------------- MODULE StreamRefinement --------------------------
(***************************************************************************)
(* StreamSession implements Conversation.  The log of a recording is read  *)
(* off its sequence numbers, and what it published is read off the two     *)
(* files on disk: the event with number q is the (q+1)-st of the log.      *)
(***************************************************************************)
EXTENDS StreamSession

Numbered(frames, q) == CHOOSE i \in DOMAIN frames : frames[i].seq = q

\* The event of pair p with sequence number q.
EventAt(p, q) ==
    CASE q \in SeqsOf(p.sends) ->
            [kind |-> "send", value |-> p.sends[Numbered(p.sends, q)].message]
      [] q \in SeqsOf(p.recvs) ->
            [kind |-> "recv", value |-> p.recvs[Numbered(p.recvs, q)].message]
      [] q \in p.halfClose -> [kind |-> "half_close", value |-> TRUE]
      [] OTHER -> [kind |-> "end", value |-> p.err]

\* The first n events of pair p.
LogOf(p, n) == [i \in 1 .. n |-> EventAt(p, i - 1)]

ObservedLog ==
    [h \in RecHandles |-> LogOf(RecordedPair(rec[h]), rec[h].seq)]

PublishedLog ==
    [h \in RecHandles |->
        IF phase[h] # "saved" THEN << >>
        ELSE LET p == LoadedPair(fp[h]) IN LogOf(p, p.end + 1)]

Abstract == INSTANCE Conversation
                WITH Streams <- RecHandles, log <- ObservedLog,
                     published <- PublishedLog

\* Recording implements the abstract conversation: the numbers given out by
\* StreamRecording, split over the two files by SaveStream, determine the
\* total order in which the recorder observed the stream.
ImplementsConversation == Abstract!Spec
=============================================================================
