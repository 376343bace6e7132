---------------------------- MODULE Conversation ----------------------------
(***************************************************************************)
(* What recording a stream promises, without sequence numbers, files or    *)
(* fingerprints: each stream has one log in which its events stand in the  *)
(* order they were observed; a log only grows, has at most one half-close  *)
(* and nothing after its terminal; and what is published of a stream is    *)
(* its whole log, once, after the terminal.                                *)
(***************************************************************************)
EXTENDS Sequences

CONSTANTS Streams, Messages

VARIABLES log, published

Events == [kind : {"send", "recv"}, value : Messages]
            \cup [kind : {"half_close"}, value : {TRUE}]
            \cup [kind : {"end"}, value : BOOLEAN]

Kinds(l) == {l[i].kind : i \in DOMAIN l}

Init ==
    /\ log = [s \in Streams |-> << >>]
    /\ published = [s \in Streams |-> << >>]

Observe(s, e) ==
    /\ "end" \notin Kinds(log[s])
    /\ e.kind = "half_close" => "half_close" \notin Kinds(log[s])
    /\ log' = [log EXCEPT ![s] = Append(@, e)]
    /\ UNCHANGED published

Publish(s) ==
    /\ "end" \in Kinds(log[s])
    /\ published[s] = << >>
    /\ published' = [published EXCEPT ![s] = log[s]]
    /\ UNCHANGED log

Next == \E s \in Streams : (\E e \in Events : Observe(s, e)) \/ Publish(s)

Spec == Init /\ [][Next]_<<log, published>>
=============================================================================
