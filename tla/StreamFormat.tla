---------------------------- MODULE StreamFormat ----------------------------
(***************************************************************************)
(* The streamed-cassette format of go/stream.go and go/stream_cassette.go: *)
(* the two halves of a recorded conversation, the validation rules, and    *)
(* what LoadStream makes of the two files of a pair.                       *)
(*                                                                         *)
(* A frame is its sequence number and its (decoded) message.  A position   *)
(* that may be missing, such as half_close, is the set of its sequence     *)
(* numbers: empty or a singleton.  Timing (at_ms) and the text/base64      *)
(* choice carry nothing that replay looks at and are left out here, and so *)
(* are the parse-level rules of a single file.                             *)
(***************************************************************************)
EXTENDS Integers, Sequences

StreamTypes == {"server", "client", "bidi"}

StreamFrame(seq, message) == [seq |-> seq, message |-> message]

SeqsOf(frames) == {frames[i].seq : i \in DOMAIN frames}

StrictlyAscending(frames) ==
    \A i, j \in DOMAIN frames : i < j => frames[i].seq < frames[j].seq

(***************************************************************************)
(* The sequence numbers a pair uses before its terminal.                   *)
(***************************************************************************)
SeqsBeforeEnd(p) == SeqsOf(p.sends) \cup SeqsOf(p.recvs) \cup p.halfClose

(***************************************************************************)
(* ValidateStreamPair.  The code adds the events one by one to a set of    *)
(* seen numbers; every early return of that loop is a conjunct here.       *)
(***************************************************************************)
ValidateStreamPair(p) ==
    /\ p.typ \in StreamTypes
    /\ SeqsBeforeEnd(p) \cup {p.end} \subseteq Nat
    /\ StrictlyAscending(p.sends)
    /\ StrictlyAscending(p.recvs)
    /\ SeqsOf(p.sends) \cap SeqsOf(p.recvs) = {}
    /\ p.halfClose \cap (SeqsOf(p.sends) \cup SeqsOf(p.recvs)) = {}
    /\ \A q \in SeqsBeforeEnd(p) : q < p.end

(***************************************************************************)
(* One file of the cassette directory.  "unary" is the envelope of a v1    *)
(* cassette, which carries no stream field.                                *)
(*                                                                         *)
(* os.WriteFile truncates before it writes, so a reader (or the next run,  *)
(* after a crash or a failed write) can meet a file with nothing in it, or *)
(* with a beginning of what was to be written.  Truncated stands for both. *)
(* For a resp file it may: the last key is the number of the terminal,     *)
(* without which, or with only the first digits of which, the pair is      *)
(* refused, because the numbers of the frames go up to it.  For a req file *)
(* it may because the resp file of that save is then not written at all.   *)
(***************************************************************************)
Absent == [shape |-> "absent"]

Truncated == [shape |-> "truncated"]

UnaryFile == [shape |-> "unary"]

ReqFile(p) == [shape |-> "stream", typ |-> p.typ, frames |-> p.sends,
               halfClose |-> p.halfClose]

RespFile(p) == [shape |-> "stream", frames |-> p.recvs, end |-> p.end,
                err |-> p.err]

(***************************************************************************)
(* readStreamFile on a directory that maps the fingerprints which have a   *)
(* file to its content.                                                    *)
(***************************************************************************)
ReadStreamFile(dir, fp) == IF fp \in DOMAIN dir THEN dir[fp] ELSE Absent

(***************************************************************************)
(* os.WriteFile leaving content under fp.                                  *)
(***************************************************************************)
WriteFile(dir, fp, content) ==
    [f \in DOMAIN dir \cup {fp} |-> IF f = fp THEN content ELSE dir[f]]

(***************************************************************************)
(* The pair two streamed files make together.                              *)
(***************************************************************************)
PairOf(reqFile, respFile) ==
    [typ |-> reqFile.typ, sends |-> reqFile.frames,
     halfClose |-> reqFile.halfClose, recvs |-> respFile.frames,
     end |-> respFile.end, err |-> respFile.err]

\* Mutant: half_close is taken for a required event.
LoadStreamWantsHalfClose(reqFile, respFile) ==
    IF reqFile = Absent \/ (reqFile # Truncated /\ respFile = Absent)
    THEN "miss"
    ELSE IF reqFile = Truncated \/ respFile = Truncated \/ reqFile.halfClose = {}
    THEN "malformed"
    ELSE "ok"

(***************************************************************************)
(* LoadStream on the contents it read: a missing file is a miss, a file    *)
(* without a payload is malformed, and only two readable files have their  *)
(* shapes compared and their pair validated.                               *)
(***************************************************************************)
LoadStream(reqFile, respFile) ==
    IF reqFile = Absent \/ (reqFile # Truncated /\ respFile = Absent)
    THEN "miss"
    ELSE IF reqFile = Truncated \/ respFile = Truncated
    THEN "malformed"
    ELSE IF reqFile = UnaryFile /\ respFile = UnaryFile
    THEN "shape"
    ELSE IF reqFile = UnaryFile \/ respFile = UnaryFile
    THEN "malformed"
    ELSE IF ValidateStreamPair(PairOf(reqFile, respFile))
    THEN "ok"
    ELSE "malformed"
=============================================================================
