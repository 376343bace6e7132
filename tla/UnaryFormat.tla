---------------------------- MODULE UnaryFormat ----------------------------
(***************************************************************************)
(* The files of a unary cassette: what FileCassette.write of               *)
(* go/cassette.go can leave behind, and what read makes of it.             *)
(*                                                                         *)
(* The content of a file is a record whose shape is "unary", "stream" (a   *)
(* streamed cassette), or "cut": a write that stopped on the way has left  *)
(* a beginning of it.  The payload is the last key of an envelope, so that *)
(* a beginning that has the key has everything before it, the error        *)
(* included, and as YAML it may or may not parse.                          *)
(***************************************************************************)
EXTENDS StreamFormat

CutShort(content) == [content EXCEPT !.shape = "cut"]

\* A file that two saves have written over one another.
Garbled == [shape |-> "garbled"]

\* read on the content of one file: "ok", or why it is refused.
ReadVerdicts(file) ==
    IF file = Absent THEN {"miss"}
    ELSE IF file.shape = "stream" THEN {"shape"}
    ELSE IF file = Truncated THEN {"malformed"}
    ELSE IF file.shape \in {"garbled", "cut"} THEN {"malformed", "ok"}
    ELSE {"ok"}

\* Load, of files nobody writes meanwhile.
LoadVerdicts(req, resp) ==
    (ReadVerdicts(req) \ {"ok"}) \cup
        IF "ok" \in ReadVerdicts(req) THEN ReadVerdicts(resp) ELSE {}
=============================================================================
