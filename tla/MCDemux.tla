------------------------------ MODULE MCDemux ------------------------------
(***************************************************************************)
(* Instances of Demux for TLC: bytes are bits and lengths have two of      *)
(* them, so that a prefix can be cut anywhere and payloads look like       *)
(* prefixes.                                                               *)
(***************************************************************************)
EXTENDS Demux

\* An empty message, one that reads as a prefix, and the two lengths whose
\* digits differ.
Payloads == {<< >>, <<1>>, <<0, 1>>, <<0, 0, 1>>}

UpToTwoMessages ==
    {<< >>} \cup {<<p>> : p \in Payloads} \cup
    {<<p, q>> : p, q \in Payloads}
=============================================================================
