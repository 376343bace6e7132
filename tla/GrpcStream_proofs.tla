------------------------- MODULE GrpcStream_proofs --------------------------
(***************************************************************************)
(* Proofs about GrpcStream: what the interceptor saves is what happened on *)
(* the live stream, and the replaying client is served it.                 *)
(***************************************************************************)
EXTENDS GrpcStream, SequenceLemmas

-----------------------------------------------------------------------------
(***************************************************************************)
(* The inductive invariant, part by part.                                  *)
(***************************************************************************)
Words == Codes \cup {"EOF", "OK", "Unknown", "open", "none"}

Results == ({"message"} \X Messages) \cup ({"terminal", "mismatch"} \X Words)

Lives == [wire : Seq(Messages), closed : BOOLEAN, done : BOOLEAN,
          outbox : Seq(Messages), sent : Nat, end : Words]

Histories == [sends : Seq(Messages), closes : Nat, got : Seq(Results)]

TypeInv ==
    /\ typ \in StreamTypes
    /\ stage \in {"start", "record", "failed", "replay", "missed"}
    /\ rec \in {NoRecording} \cup Recordings
    /\ finished \in BOOLEAN /\ finished = rec.finished
    /\ sender \in {Idle, [at |-> "closed"]}
                  \cup [at : {"send", "sent"}, message : Messages]
    /\ receiver \in {Idle} \cup [at : {"got"}, message : Messages]
                    \cup [at : {"end"}, result : Results]
    /\ live \in Lives
    /\ openErr \in BOOLEAN
    /\ calls \in [Runs -> Histories]

Was == calls["record"]

Now == calls["replay"]

\* What the recording has so far; nothing while it is not open.
Sends == IF rec = NoRecording THEN << >> ELSE rec.sends

Recvs == IF rec = NoRecording THEN << >> ELSE rec.recvs

\* Nothing happens outside the recording run; a recording is open under the
\* key its stream type calls for, and without one nothing is under way.
OpenInv ==
    /\ stage # "record" => sender = Idle /\ receiver = Idle
    /\ stage = "start" => rec = NoRecording
    /\ typ # "server" /\ stage # "start" =>
           rec # NoRecording /\ key = <<"n", 0>>
    /\ typ = "server" /\ rec # NoRecording =>
           Len(Was.sends) = 1 /\ key = <<"msg_hash", Scrub[Was.sends[1]]>>
    /\ rec = NoRecording =>
           /\ live.wire = << >> /\ live.outbox = << >>
           /\ sender.at \notin {"send", "sent"} /\ receiver.at # "got"

\* The sends recorded are those on the wire, in order, but for the one whose
\* note is still to come, or came after the terminal; those on the wire are
\* those called, but for one that is in the live call or failed there.
SendInv ==
    /\ finished => live.done /\ Len(Sends) \in {Len(live.wire) - 1, Len(live.wire)}
    /\ ~finished => Len(Sends) =
           Len(live.wire) - (IF sender.at = "sent" THEN 1 ELSE 0)
    /\ \A i \in 1 .. Len(Sends) : Sends[i].message = Scrub[live.wire[i]]
    /\ \A i \in 1 .. Len(live.wire) : live.wire[i] = Was.sends[i]
    /\ Len(live.wire) <= Len(Was.sends)
    /\ ~live.done => Len(Was.sends) =
           Len(live.wire) + (IF sender.at = "send" THEN 1 ELSE 0)
    /\ sender.at = "send" => sender.message = Was.sends[Len(Was.sends)]
    /\ sender.at = "sent" =>
           Len(live.wire) > 0 /\ sender.message = live.wire[Len(live.wire)]

\* The response of a client stream is noted and not yet handed over.
Pending == receiver.at = "end" /\ receiver.result[1] = "message"

\* The messages that are recorded and handed over.
Handed == Len(Recvs) - (IF Pending THEN 1 ELSE 0)

\* The live stream has ended and there is nothing left to read.
Drained == live.done /\ live.outbox = << >> /\ live.end # "open"

\* The client was handed what is recorded, in order, then at most the
\* terminal, and the terminal only when everything before it was read.
RecvInv ==
    /\ Handed >= 0 /\ Len(Was.got) \in {Handed, Handed + 1}
    /\ \A i \in 1 .. Handed :
           Was.got[i][1] = "message" /\ Scrub[Was.got[i][2]] = Recvs[i].message
    /\ Len(Was.got) = Handed + 1 =>
           Drained /\ Was.got[Handed + 1] = Terminal(live.end)
    /\ receiver.at = "end" \/ finished => Drained
    /\ receiver.at = "got" \/ Pending =>
           ~finished /\ rec # NoRecording /\ Len(Was.got) = Handed
    /\ Pending =>
           live.end = "EOF" /\ Scrub[receiver.result[2]] = Recvs[Len(Recvs)].message
    /\ receiver.at = "end" /\ ~Pending => receiver.result = Terminal(live.end)
    /\ typ = "client" =>
           /\ live.outbox # << >> => live.end = "EOF" /\ Len(live.outbox) = 1
           /\ receiver.at = "got" => live.end = "EOF" /\ live.outbox = << >> /\ live.done

\* A saved pair is the recording as it was finished, with the terminal.
CassetteInv ==
    /\ DOMAIN cassette \subseteq {key}
    /\ DOMAIN cassette # {} =>
           /\ finished /\ rec # NoRecording
           /\ cassette[key].pair = RecordedPair(rec)
           /\ cassette[key].code = TerminalCode(Terminal(live.end))
           /\ rec.err = (live.end # "EOF")

\* A replay handle.
IsReplay(r) ==
    /\ r = [pair |-> r.pair, sendIdx |-> r.sendIdx, recvIdx |-> r.recvIdx,
            mismatch |-> r.mismatch]
    /\ r.sendIdx \in Nat /\ r.recvIdx \in Nat

Smaller(m, n) == IF m <= n THEN m ELSE n

\* A replay serves the saved pair; until it mismatches, its two places are
\* where the calls so far put them, and the reads are those of the pair.
ServeInv ==
    LET p == rp.pair IN
    rp # NoReplay =>
        /\ IsReplay(rp)
        /\ stage = "replay" /\ ~openErr
        /\ key \in DOMAIN cassette /\ p = cassette[key].pair
        /\ rp.mismatch = "none" =>
               /\ rp.sendIdx = Smaller(Len(Now.sends), Len(p.sends))
               /\ rp.recvIdx = Smaller(Len(Now.got), Len(p.recvs))
               /\ \A i \in 1 .. Len(Now.got) :
                     Now.got[i] = IF i <= Len(p.recvs)
                                  THEN Message(p.recvs[i].message)
                                  ELSE MapErr(TerminalErr(rp))

\* Where there is no replay, nothing was read and only a failed open sent.
NoServeInv ==
    /\ rp = NoReplay =>
           Now.got = << >> /\ (~openErr => Now.sends = << >>)
    /\ stage \notin {"replay", "missed"} => rp = NoReplay /\ ~openErr
    /\ stage = "replay" /\ typ # "server" => rp # NoReplay
    /\ stage = "missed" => DOMAIN cassette = {}

IndInv == TypeInv /\ OpenInv /\ SendInv /\ RecvInv /\ CassetteInv
          /\ ServeInv /\ NoServeInv

-----------------------------------------------------------------------------
(***************************************************************************)
(* The operations of the two handles.                                      *)
(***************************************************************************)
LEMMA NotARecording == NoRecording \notin Recordings
<1>1. \A r \in Recordings : "typ" \in DOMAIN r
  BY DEF Recordings
<1>2. "typ" \notin DOMAIN NoRecording
  BY DEF NoRecording
<1> QED
  BY <1>1, <1>2

\* A new recording is empty.
LEMMA NewRecordingFacts ==
    ASSUME typ \in StreamTypes
    PROVE  /\ NewRecording(typ) \in Recordings
           /\ NewRecording(typ).sends = << >> /\ NewRecording(typ).recvs = << >>
           /\ NewRecording(typ).finished = FALSE
  BY DEF NewRecording, Recordings

\* A recording, field by field.
Fields(r) ==
    /\ r.typ \in StreamTypes /\ r.seq \in Nat
    /\ r.sends \in Seq(Frames) /\ r.recvs \in Seq(Frames)
    /\ r.halfClose \in SUBSET Nat /\ r.finished \in BOOLEAN
    /\ r.end \in Nat /\ r.err \in BOOLEAN

IsRecording(r) ==
    r = [typ |-> r.typ, seq |-> r.seq, sends |-> r.sends, recvs |-> r.recvs,
         halfClose |-> r.halfClose, finished |-> r.finished, end |-> r.end,
         err |-> r.err]

LEMMA RecordingFields ==
    ASSUME NEW r
    PROVE  r \in Recordings <=> IsRecording(r) /\ Fields(r)
<1>1. ASSUME r \in Recordings PROVE IsRecording(r) /\ Fields(r)
  BY <1>1 DEF Recordings, IsRecording, Fields
<1>2. ASSUME IsRecording(r), Fields(r) PROVE r \in Recordings
  BY <1>2 DEF Recordings, IsRecording, Fields
<1> QED
  BY <1>1, <1>2

\* What an operation of the recording does to its frames.
LEMMA RecordSendFacts ==
    ASSUME NEW r \in Recordings, NEW m \in Messages
    PROVE  LET s == RecordSend(r, Scrub, m) IN
           /\ s \in Recordings
           /\ s.recvs = r.recvs /\ s.finished = r.finished
           /\ r.finished => s = r
           /\ ~r.finished =>
                 s.sends = Append(r.sends, StreamFrame(r.seq, Scrub[m]))
<1>1. PICK s : s = RecordSend(r, Scrub, m)
  OBVIOUS
<1>2. IsRecording(r) /\ Fields(r)
  BY RecordingFields
<1>3. CASE r.finished
  BY <1>1, <1>3 DEF RecordSend
<1>4. CASE ~r.finished
  <2>1. Scrub[m] \in Messages
    BY GrpcAssumption
  <2>2. PICK f : f = StreamFrame(r.seq, Scrub[m])
    OBVIOUS
  <2>3. f \in Frames
    BY <1>2, <2>1, <2>2 DEF StreamFrame, Frames, Fields
  <2>4. s = [r EXCEPT !.sends = Append(r.sends, f), !.seq = r.seq + 1]
    BY <1>1, <1>4, <2>2 DEF RecordSend
  <2>5. /\ IsRecording(s) /\ s.seq = r.seq + 1 /\ s.sends = Append(r.sends, f)
        /\ s.typ = r.typ /\ s.recvs = r.recvs /\ s.halfClose = r.halfClose
        /\ s.finished = r.finished /\ s.end = r.end /\ s.err = r.err
    BY <1>2, <2>4 DEF IsRecording
  <2>6. Append(r.sends, f) \in Seq(Frames) /\ r.seq + 1 \in Nat
    BY <1>2, <2>3 DEF Fields
  <2>7. Fields(s)
    BY <1>2, <2>5, <2>6 DEF Fields
  <2> QED
    BY <1>1, <1>4, <2>2, <2>5, <2>7, RecordingFields
<1> QED
  BY <1>3, <1>4

LEMMA RecordRecvFacts ==
    ASSUME NEW r \in Recordings, NEW m \in Messages
    PROVE  LET s == RecordRecv(r, Scrub, m) IN
           /\ s \in Recordings
           /\ s.sends = r.sends /\ s.finished = r.finished
           /\ r.finished => s = r
           /\ ~r.finished =>
                 s.recvs = Append(r.recvs, StreamFrame(r.seq, Scrub[m]))
<1>1. PICK s : s = RecordRecv(r, Scrub, m)
  OBVIOUS
<1>2. IsRecording(r) /\ Fields(r)
  BY RecordingFields
<1>3. CASE r.finished
  BY <1>1, <1>3 DEF RecordRecv
<1>4. CASE ~r.finished
  <2>1. Scrub[m] \in Messages
    BY GrpcAssumption
  <2>2. PICK f : f = StreamFrame(r.seq, Scrub[m])
    OBVIOUS
  <2>3. f \in Frames
    BY <1>2, <2>1, <2>2 DEF StreamFrame, Frames, Fields
  <2>4. s = [r EXCEPT !.recvs = Append(r.recvs, f), !.seq = r.seq + 1]
    BY <1>1, <1>4, <2>2 DEF RecordRecv
  <2>5. /\ IsRecording(s) /\ s.seq = r.seq + 1 /\ s.recvs = Append(r.recvs, f)
        /\ s.typ = r.typ /\ s.sends = r.sends /\ s.halfClose = r.halfClose
        /\ s.finished = r.finished /\ s.end = r.end /\ s.err = r.err
    BY <1>2, <2>4 DEF IsRecording
  <2>6. Append(r.recvs, f) \in Seq(Frames) /\ r.seq + 1 \in Nat
    BY <1>2, <2>3 DEF Fields
  <2>7. Fields(s)
    BY <1>2, <2>5, <2>6 DEF Fields
  <2> QED
    BY <1>1, <1>4, <2>2, <2>5, <2>7, RecordingFields
<1> QED
  BY <1>3, <1>4

LEMMA RecordHalfCloseFacts ==
    ASSUME NEW r \in Recordings
    PROVE  LET s == RecordHalfClose(r) IN
           /\ s \in Recordings
           /\ s.sends = r.sends /\ s.recvs = r.recvs /\ s.finished = r.finished
           /\ r.finished => s = r
<1>1. PICK s : s = RecordHalfClose(r)
  OBVIOUS
<1>2. IsRecording(r) /\ Fields(r)
  BY RecordingFields
<1>3. CASE s = r
  BY <1>1, <1>3
<1>4. CASE s # r
  <2>1. ~r.finished /\ s = [r EXCEPT !.halfClose = {r.seq}, !.seq = r.seq + 1]
    BY <1>1, <1>4 DEF RecordHalfClose
  <2>2. /\ IsRecording(s) /\ s.seq = r.seq + 1 /\ s.halfClose = {r.seq}
        /\ s.typ = r.typ /\ s.sends = r.sends /\ s.recvs = r.recvs
        /\ s.finished = r.finished /\ s.end = r.end /\ s.err = r.err
    BY <1>2, <2>1 DEF IsRecording
  <2>3. {r.seq} \in SUBSET Nat /\ r.seq + 1 \in Nat
    BY <1>2 DEF Fields
  <2>4. Fields(s)
    BY <1>2, <2>2, <2>3 DEF Fields
  <2> QED
    BY <1>1, <2>1, <2>2, <2>4, RecordingFields
<1> QED
  BY <1>3, <1>4

LEMMA FinishRecordingFacts ==
    ASSUME NEW r \in Recordings, NEW err \in BOOLEAN
    PROVE  LET s == FinishRecording(r, err) IN
           /\ s \in Recordings
           /\ s.sends = r.sends /\ s.recvs = r.recvs
           /\ s.finished = TRUE /\ s.err = err
<1>1. PICK s : s = FinishRecording(r, err)
  OBVIOUS
<1>2. IsRecording(r) /\ Fields(r)
  BY RecordingFields
<1>3. /\ IsRecording(s) /\ s.seq = r.seq + 1 /\ s.halfClose = r.halfClose
      /\ s.typ = r.typ /\ s.sends = r.sends /\ s.recvs = r.recvs
      /\ s.finished = TRUE /\ s.end = r.seq /\ s.err = err
  BY <1>1, <1>2 DEF IsRecording, FinishRecording
<1>4. s.finished \in BOOLEAN /\ s.err \in BOOLEAN
  BY <1>3, Zenon
<1>5. r.seq + 1 \in Nat
  BY <1>2 DEF Fields
<1>6. Fields(s)
  BY <1>2, <1>3, <1>4, <1>5 DEF Fields
<1> QED
  BY <1>1, <1>3, <1>6, RecordingFields

\* A replay and its operations.
LEMMA NotAReplay == ~IsReplay(NoReplay)
<1>1. "pair" \notin DOMAIN NoReplay
  BY DEF NoReplay
<1>2. ASSUME NEW r, IsReplay(r) PROVE "pair" \in DOMAIN r
  BY <1>2 DEF IsReplay
<1> QED
  BY <1>1, <1>2

LEMMA NewReplayFacts ==
    ASSUME NEW p
    PROVE  /\ IsReplay(NewReplay(p))
           /\ NewReplay(p).pair = p /\ NewReplay(p).mismatch = "none"
           /\ NewReplay(p).sendIdx = 0 /\ NewReplay(p).recvIdx = 0
  BY DEF NewReplay, IsReplay

LEMMA SendFacts ==
    ASSUME NEW r, IsReplay(r), NEW m
    PROVE  LET s == Send(r, Scrub, m) IN
           /\ IsReplay(s) /\ s.pair = r.pair /\ s.recvIdx = r.recvIdx
           /\ s.mismatch = "none" =>
                 /\ r.mismatch = "none"
                 /\ s.sendIdx = IF r.sendIdx >= Len(r.pair.sends)
                                THEN r.sendIdx ELSE r.sendIdx + 1
           /\ /\ r.mismatch = "none"
              /\ \/ r.sendIdx >= Len(r.pair.sends)
                 \/ Scrub[m] = r.pair.sends[r.sendIdx + 1].message
              => s.mismatch = "none"
<1>1. PICK res : res = SendResult(r, Scrub, m)
  OBVIOUS
<1>2. CASE res = "nil"
  <2>1. /\ r.mismatch = "none" /\ ~(r.sendIdx >= Len(r.pair.sends))
    BY <1>1, <1>2 DEF SendResult, TerminalErr
  <2>2. Send(r, Scrub, m) = [r EXCEPT !.sendIdx = @ + 1]
    BY <1>1, <1>2 DEF Send
  <2> QED
    BY <2>1, <2>2 DEF IsReplay
<1>3. CASE res = "mismatch" /\ r.mismatch = "none"
  <2>1. /\ ~(r.sendIdx >= Len(r.pair.sends))
        /\ Scrub[m] # r.pair.sends[r.sendIdx + 1].message
    BY <1>1, <1>3 DEF SendResult, TerminalErr
  <2>2. Send(r, Scrub, m) = [r EXCEPT !.mismatch = "send"]
    BY <1>1, <1>3 DEF Send
  <2> QED
    BY <2>1, <2>2 DEF IsReplay
<1>4. CASE res # "nil" /\ ~(res = "mismatch" /\ r.mismatch = "none")
  <2>1. r.mismatch = "none" => r.sendIdx >= Len(r.pair.sends)
    BY <1>1, <1>4 DEF SendResult, TerminalErr
  <2>2. Send(r, Scrub, m) = r
    BY <1>1, <1>4 DEF Send
  <2> QED
    BY <2>1, <2>2 DEF IsReplay
<1> QED
  BY <1>2, <1>3, <1>4

LEMMA HalfCloseFacts ==
    ASSUME NEW r, IsReplay(r)
    PROVE  LET s == HalfClose(r) IN
           /\ IsReplay(s) /\ s.pair = r.pair
           /\ s.recvIdx = r.recvIdx /\ s.sendIdx = r.sendIdx
           /\ s.mismatch = "none" => r.mismatch = "none"
           /\ r.mismatch = "none" /\ ~(r.sendIdx < Len(r.pair.sends)) => s = r
  BY DEF HalfClose, IsReplay

LEMMA RecvFacts ==
    ASSUME NEW r, IsReplay(r)
    PROVE  LET s == Recv(r) IN
           /\ IsReplay(s) /\ s.pair = r.pair
           /\ s.sendIdx = r.sendIdx /\ s.mismatch = r.mismatch
           /\ r.mismatch = "none" =>
                 s.recvIdx = IF r.recvIdx >= Len(r.pair.recvs)
                             THEN r.recvIdx ELSE r.recvIdx + 1
           /\ RecvResult(r) = "message" =>
                 r.mismatch = "none" /\ ~(r.recvIdx >= Len(r.pair.recvs))
           /\ r.mismatch = "none" =>
                 RecvResult(r) = IF r.recvIdx >= Len(r.pair.recvs)
                                 THEN TerminalErr(r) ELSE "message"
           /\ RecvResult(r) \in {"mismatch", "error", "eof", "message"}
  BY DEF Recv, RecvResult, IsReplay, TerminalErr

-----------------------------------------------------------------------------
(***************************************************************************)
(* Type correctness.                                                       *)
(***************************************************************************)
LEMMA RecTyped ==
    ASSUME TypeInv
    PROVE  /\ rec # NoRecording <=> rec \in Recordings
           /\ rec = NoRecording => ~finished
<1>1. rec = NoRecording => rec.finished = FALSE
  BY DEF NoRecording
<1>2. (rec = NoRecording \/ rec \in Recordings) /\ finished = rec.finished
  BY DEF TypeInv
<1> QED
  BY <1>1, <1>2, NotARecording

LEMMA SenderTyped ==
    ASSUME TypeInv
    PROVE  /\ sender.at \in {"idle", "closed", "send", "sent"}
           /\ sender = Idle <=> sender.at = "idle"
           /\ sender.at \in {"send", "sent"} =>
                 /\ sender \in [at : {"send", "sent"}, message : Messages]
                 /\ sender.message \in Messages
  BY DEF TypeInv, Idle

LEMMA ReceiverTyped ==
    ASSUME TypeInv
    PROVE  /\ receiver.at \in {"idle", "got", "end"}
           /\ receiver = Idle <=> receiver.at = "idle"
           /\ receiver.at = "got" => receiver.message \in Messages
           /\ receiver.at = "end" => receiver.result \in Results
  BY DEF TypeInv, Idle

LEMMA LiveTyped ==
    ASSUME NEW l \in Lives
    PROVE  /\ l.wire \in Seq(Messages) /\ l.outbox \in Seq(Messages)
           /\ l.closed \in BOOLEAN /\ l.done \in BOOLEAN
           /\ l.sent \in Nat /\ l.end \in Words
           /\ Len(l.wire) \in Nat /\ Len(l.outbox) \in Nat
  BY DEF Lives

LEMMA HistoryTyped ==
    ASSUME NEW h \in Histories
    PROVE  /\ h.sends \in Seq(Messages) /\ h.closes \in Nat
           /\ h.got \in Seq(Results)
           /\ Len(h.sends) \in Nat /\ Len(h.got) \in Nat
  BY DEF Histories

LEMMA CallsTyped ==
    ASSUME TypeInv
    PROVE  Was \in Histories /\ Now \in Histories
  BY DEF TypeInv, Runs, Was, Now

\* What the operations on a history do.
LEMMA CalledFacts ==
    ASSUME calls \in [Runs -> Histories], NEW run \in Runs, NEW m \in Messages
    PROVE  LET c == Called(run, m) IN
           /\ c \in [Runs -> Histories]
           /\ c[run].sends = Append(calls[run].sends, m)
           /\ c[run].closes = calls[run].closes /\ c[run].got = calls[run].got
           /\ \A other \in Runs : other # run => c[other] = calls[other]
<1>1. PICK old : old = calls[run]
  OBVIOUS
<1>2. PICK h : h = [old EXCEPT !.sends = Append(old.sends, m)]
  OBVIOUS
<1>3. old \in Histories
  BY <1>1
<1>4. Append(old.sends, m) \in Seq(Messages)
  BY <1>3, HistoryTyped
<1>5. /\ h \in Histories
      /\ h.sends = Append(old.sends, m) /\ h.closes = old.closes /\ h.got = old.got
  BY <1>2, <1>3, <1>4 DEF Histories
<1>6. Called(run, m) = [calls EXCEPT ![run] = h]
  BY <1>1, <1>2 DEF Called
<1> QED
  BY <1>1, <1>5, <1>6

LEMMA ClosedFacts ==
    ASSUME calls \in [Runs -> Histories], NEW run \in Runs
    PROVE  LET c == Closed(run) IN
           /\ c \in [Runs -> Histories]
           /\ c[run].closes = calls[run].closes + 1
           /\ c[run].sends = calls[run].sends /\ c[run].got = calls[run].got
           /\ \A other \in Runs : other # run => c[other] = calls[other]
<1>1. PICK old : old = calls[run]
  OBVIOUS
<1>2. PICK h : h = [old EXCEPT !.closes = old.closes + 1]
  OBVIOUS
<1>3. old \in Histories
  BY <1>1
<1>4. old.closes + 1 \in Nat
  BY <1>3, HistoryTyped
<1>5. /\ h \in Histories
      /\ h.sends = old.sends /\ h.closes = old.closes + 1 /\ h.got = old.got
  BY <1>2, <1>3, <1>4 DEF Histories
<1>6. Closed(run) = [calls EXCEPT ![run] = h]
  BY <1>1, <1>2 DEF Closed
<1> QED
  BY <1>1, <1>5, <1>6

LEMMA GotFacts ==
    ASSUME calls \in [Runs -> Histories], NEW run \in Runs, NEW res \in Results
    PROVE  LET c == Got(run, res) IN
           /\ c \in [Runs -> Histories]
           /\ c[run].got = Append(calls[run].got, res)
           /\ c[run].sends = calls[run].sends
           /\ c[run].closes = calls[run].closes
           /\ \A other \in Runs : other # run => c[other] = calls[other]
<1>1. PICK old : old = calls[run]
  OBVIOUS
<1>2. PICK h : h = [old EXCEPT !.got = Append(old.got, res)]
  OBVIOUS
<1>3. old \in Histories
  BY <1>1
<1>4. Append(old.got, res) \in Seq(Results)
  BY <1>3, HistoryTyped
<1>5. /\ h \in Histories
      /\ h.sends = old.sends /\ h.closes = old.closes /\ h.got = Append(old.got, res)
  BY <1>2, <1>3, <1>4 DEF Histories
<1>6. Got(run, res) = [calls EXCEPT ![run] = h]
  BY <1>1, <1>2 DEF Got
<1> QED
  BY <1>1, <1>5, <1>6

\* The two runs, by name.
LEMMA TheRuns ==
    "record" \in Runs /\ "replay" \in Runs /\ "record" # "replay"
  BY DEF Runs

\* What each live call does to the stream.
LEMMA LiveFacts ==
    ASSUME NEW l \in Lives, NEW m \in Messages, NEW e \in Words,
           NEW q \in Seq(Messages), NEW b \in BOOLEAN
    PROVE  /\ [l EXCEPT !.wire = q] \in Lives
           /\ [l EXCEPT !.done = b] \in Lives
           /\ [l EXCEPT !.closed = b] \in Lives
           /\ [l EXCEPT !.outbox = q, !.done = b] \in Lives
           /\ [l EXCEPT !.outbox = q, !.sent = l.sent + 1] \in Lives
           /\ [l EXCEPT !.end = e, !.outbox = q] \in Lives
<1>1. l.sent + 1 \in Nat
  BY LiveTyped
<1> QED
  BY <1>1 DEF Lives

LEMMA InitType == Init => TypeInv
<1> SUFFICES ASSUME Init PROVE TypeInv
  OBVIOUS
<1>1. finished = FALSE /\ rec.finished = FALSE /\ openErr = FALSE
  BY DEF Init, NoRecording
<1>2. live \in Lives
  <2>1. PICK f, q : f = FALSE /\ q = << >>
    OBVIOUS
  <2>2. f \in BOOLEAN
    BY <2>1, Zenon
  <2>3. live = [wire |-> q, closed |-> f, done |-> f, outbox |-> q, sent |-> 0,
                end |-> "open"]
    BY <2>1 DEF Init
  <2>4. q \in Seq(Messages) /\ 0 \in Nat /\ "open" \in Words
    BY <2>1 DEF Words
  <2> QED
    BY <2>2, <2>3, <2>4, Zenon DEF Lives
<1>3. [sends |-> << >>, closes |-> 0, got |-> << >>] \in Histories
  BY DEF Histories
<1>4. calls \in [Runs -> Histories]
  BY <1>3 DEF Init
<1>5. finished \in BOOLEAN /\ openErr \in BOOLEAN
  BY <1>1, Zenon
<1> QED
  BY <1>1, <1>2, <1>4, <1>5 DEF Init, TypeInv

LEMMA SenderTypes ==
    ASSUME TypeInv, OpenInv, SenderStep
    PROVE  TypeInv'
<1>1. ASSUME NEW m \in Messages, SendMsg(m) PROVE TypeInv'
  <2>1. rec' \in {NoRecording} \cup Recordings /\ rec'.finished = rec.finished
    <3>1. CASE rec # NoRecording
      BY <1>1, <3>1 DEF SendMsg, TypeInv
    <3>2. CASE rec = NoRecording
      <4>1. rec' = NewRecording(typ) /\ typ \in StreamTypes
        BY <1>1, <3>2 DEF SendMsg, TypeInv
      <4>2. rec.finished = FALSE
        BY <3>2 DEF NoRecording
      <4> QED
        BY <4>1, <4>2, NewRecordingFacts
    <3> QED
      BY <3>1, <3>2
  <2>2. calls' \in [Runs -> Histories]
    BY <1>1, CalledFacts, TheRuns DEF SendMsg, TypeInv
  <2>3. sender' \in [at : {"send", "sent"}, message : Messages]
    BY <1>1 DEF SendMsg
  <2>4. /\ typ' = typ /\ stage' = stage /\ finished' = finished
        /\ receiver' = receiver /\ live' = live /\ openErr' = openErr
    BY <1>1 DEF SendMsg, replayVars
  <2> QED
    BY <2>1, <2>2, <2>3, <2>4, Zenon DEF TypeInv
<1>2. ASSUME NEW ok \in BOOLEAN, LiveSendMsg(ok) PROVE TypeInv'
  <2>1. sender.at = "send"
    BY <1>2 DEF LiveSendMsg
  <2>2. /\ sender \in [at : {"send", "sent"}, message : Messages]
        /\ sender.message \in Messages
    BY <2>1, SenderTyped
  <2>3. live \in Lives /\ live.wire \in Seq(Messages)
    BY LiveTyped DEF TypeInv
  <2>4. /\ live' \in Lives
        /\ sender' = Idle \/ sender' \in [at : {"send", "sent"}, message : Messages]
    <3>1. CASE ok
      <4>1. PICK q : q = Append(live.wire, sender.message)
        OBVIOUS
      <4>2. q \in Seq(Messages)
        BY <2>2, <2>3, <4>1
      <4>3. live' = [live EXCEPT !.wire = q] /\ sender' = [sender EXCEPT !.at = "sent"]
        BY <1>2, <3>1, <4>1 DEF LiveSendMsg
      <4>4. live' \in Lives
        BY <2>3, <4>2, <4>3 DEF Lives
      <4> QED
        BY <2>2, <4>3, <4>4
    <3>2. CASE ~ok
      <4>1. PICK yes : yes = TRUE
        OBVIOUS
      <4>2. yes \in BOOLEAN
        BY <4>1, Zenon
      <4>3. live' = [live EXCEPT !.done = yes] /\ sender' = Idle
        BY <1>2, <3>2, <4>1 DEF LiveSendMsg
      <4> QED
        BY <2>3, <4>2, <4>3 DEF Lives
    <3> QED
      BY <3>1, <3>2
  <2>5. /\ typ' = typ /\ stage' = stage /\ rec' = rec /\ finished' = finished
        /\ receiver' = receiver /\ openErr' = openErr /\ calls' = calls
    BY <1>2 DEF LiveSendMsg, replayVars
  <2> QED
    BY <2>4, <2>5, Zenon DEF TypeInv
<1>3. ASSUME NEW ok \in BOOLEAN, CloseSend(ok) PROVE TypeInv'
  <2>1. PICK b : b = (ok /\ live.end = "open")
    OBVIOUS
  <2>2. b \in BOOLEAN
    BY <2>1, Zenon
  <2>3. live' = [live EXCEPT !.closed = b] /\ live \in Lives
    BY <1>3, <2>1 DEF CloseSend, TypeInv
  <2>4. live' \in Lives
    BY <2>2, <2>3 DEF Lives
  <2>5. calls' \in [Runs -> Histories]
    BY <1>3, ClosedFacts, TheRuns DEF CloseSend, TypeInv
  <2>6. sender' \in {Idle, [at |-> "closed"]}
    BY <1>3 DEF CloseSend
  <2>7. /\ typ' = typ /\ stage' = stage /\ rec' = rec /\ finished' = finished
        /\ receiver' = receiver /\ openErr' = openErr
    BY <1>3 DEF CloseSend, replayVars
  <2> QED
    BY <2>4, <2>5, <2>6, <2>7, Zenon DEF TypeInv
<1>4. ASSUME NoteSend PROVE TypeInv'
  <2>1. sender.message \in Messages /\ rec \in Recordings
    BY <1>4, SenderTyped, RecTyped DEF NoteSend, OpenInv
  <2>2. rec' \in Recordings /\ rec'.finished = rec.finished
    BY <1>4, <2>1, RecordSendFacts DEF NoteSend
  <2>3. /\ typ' = typ /\ stage' = stage /\ finished' = finished /\ receiver' = receiver
        /\ live' = live /\ openErr' = openErr /\ calls' = calls /\ sender' = Idle
    BY <1>4 DEF NoteSend, replayVars
  <2> QED
    BY <2>2, <2>3, Zenon DEF TypeInv
<1>5. ASSUME NoteHalfClose PROVE TypeInv'
  <2>1. rec' \in {NoRecording} \cup Recordings /\ rec'.finished = rec.finished
    BY <1>5, RecTyped, RecordHalfCloseFacts DEF NoteHalfClose
  <2>2. /\ typ' = typ /\ stage' = stage /\ finished' = finished /\ receiver' = receiver
        /\ live' = live /\ openErr' = openErr /\ calls' = calls /\ sender' = Idle
    BY <1>5 DEF NoteHalfClose, replayVars
  <2> QED
    BY <2>1, <2>2, Zenon DEF TypeInv
<1> QED
  BY <1>1, <1>2, <1>3, <1>4, <1>5 DEF SenderStep

LEMMA ReceiverTypes ==
    ASSUME TypeInv, OpenInv, ReceiverStep
    PROVE  TypeInv'
<1> DEFINE Receivers == {Idle} \cup [at : {"got"}, message : Messages]
                        \cup [at : {"end"}, result : Results]
<1>1. ASSUME RecvMsg PROVE TypeInv'
  <2>1. live \in Lives /\ live.outbox \in Seq(Messages) /\ live.end \in Words
    BY LiveTyped DEF TypeInv
  <2>2. PICK b : b \in BOOLEAN /\ b = (live.done \/ typ = "client")
    BY Zenon
  <2>3. PICK yes : yes \in BOOLEAN /\ yes = TRUE
    BY Zenon
  <2>4. live' \in Lives /\ receiver' \in Receivers
    <3>1. CASE live.outbox # << >>
      <4>1. PICK q, m : q = Tail(live.outbox) /\ m = Head(live.outbox)
        OBVIOUS
      <4>2. q \in Seq(Messages) /\ m \in Messages
        BY <2>1, <3>1, <4>1
      <4>3. /\ live' = [live EXCEPT !.outbox = q, !.done = b]
            /\ receiver' = [at |-> "got", message |-> m]
        BY <1>1, <2>2, <3>1, <4>1 DEF RecvMsg
      <4>4. live' \in Lives
        BY <2>1, <2>2, <4>2, <4>3 DEF Lives
      <4> QED
        BY <4>2, <4>3, <4>4
    <3>2. CASE live.outbox = << >>
      <4>1. /\ live' = [live EXCEPT !.done = yes]
            /\ receiver' = [at |-> "end", result |-> Terminal(live.end)]
        BY <1>1, <2>3, <3>2 DEF RecvMsg
      <4>2. Terminal(live.end) \in Results
        BY <2>1 DEF Terminal, Results
      <4>3. live' \in Lives
        BY <2>1, <2>3, <4>1 DEF Lives
      <4> QED
        BY <4>1, <4>2, <4>3
    <3> QED
      BY <3>1, <3>2
  <2>5. /\ typ' = typ /\ stage' = stage /\ rec' = rec /\ finished' = finished
        /\ sender' = sender /\ openErr' = openErr /\ calls' = calls
    BY <1>1 DEF RecvMsg, replayVars
  <2> QED
    BY <2>4, <2>5, Zenon DEF TypeInv
<1>2. ASSUME NoteRecv PROVE TypeInv'
  <2>1. /\ receiver.message \in Messages /\ rec \in Recordings
        /\ rec # NoRecording
    BY <1>2, ReceiverTyped, RecTyped DEF NoteRecv, OpenInv
  <2>2. rec' \in Recordings /\ rec'.finished = rec.finished
    BY <1>2, <2>1, RecordRecvFacts DEF NoteRecv
  <2>3. PICK r : r = Message(receiver.message)
    OBVIOUS
  <2>4. r \in Results
    BY <2>1, <2>3 DEF Results, Message
  <2>5. receiver' \in Receivers
    BY <1>2, <2>1, <2>3, <2>4 DEF NoteRecv
  <2>6. calls' = calls \/ calls' = Got("record", r)
    BY <1>2, <2>3 DEF NoteRecv
  <2>7. calls' \in [Runs -> Histories]
    BY <2>4, <2>6, GotFacts, TheRuns DEF TypeInv
  <2>8. /\ typ' = typ /\ stage' = stage /\ finished' = finished
        /\ sender' = sender /\ live' = live /\ openErr' = openErr
    BY <1>2 DEF NoteRecv, replayVars
  <2> QED
    BY <2>2, <2>5, <2>7, <2>8, Zenon DEF TypeInv
<1>3. ASSUME NEW saved \in BOOLEAN, FinishStream(saved) PROVE TypeInv'
  <2>1. receiver.at = "end" /\ receiver.result \in Results
    BY <1>3, ReceiverTyped DEF FinishStream
  <2>2. /\ rec' \in {NoRecording} \cup Recordings
        /\ finished' = rec'.finished /\ finished' \in BOOLEAN
    <3>1. CASE finished \/ rec = NoRecording
      BY <1>3, <3>1 DEF FinishStream, TypeInv
    <3>2. CASE ~(finished \/ rec = NoRecording)
      <4>1. PICK failed : failed \in BOOLEAN /\ failed =
                 (receiver.result[1] = "terminal" /\ receiver.result[2] # "EOF")
        BY Zenon
      <4>2. rec' = FinishRecording(rec, failed) /\ finished' = TRUE
        BY <1>3, <3>2, <4>1 DEF FinishStream
      <4>3. rec' \in Recordings /\ rec'.finished = TRUE
        BY <3>2, <4>1, <4>2, RecTyped, FinishRecordingFacts
      <4> QED
        BY <4>2, <4>3, Zenon
    <3> QED
      BY <3>1, <3>2
  <2>3. calls' \in [Runs -> Histories]
    BY <1>3, <2>1, GotFacts, TheRuns DEF FinishStream, TypeInv
  <2>4. /\ typ' = typ /\ stage' = stage /\ receiver' = Idle
        /\ sender' = sender /\ live' = live /\ openErr' = openErr
    BY <1>3 DEF FinishStream, replayVars
  <2> QED
    BY <2>2, <2>3, <2>4, Zenon DEF TypeInv
<1> QED
  BY <1>1, <1>2, <1>3 DEF ReceiverStep

LEMMA ServerTypes ==
    ASSUME TypeInv, ServerStep
    PROVE  TypeInv'
<1>1. live \in Lives /\ live.outbox \in Seq(Messages) /\ live.sent \in Nat
  BY LiveTyped DEF TypeInv
<1>2. ASSUME NEW m \in Messages, ServerSends(m) PROVE TypeInv'
  <2>1. PICK q, n : q = Append(live.outbox, m) /\ n = live.sent + 1
    OBVIOUS
  <2>2. q \in Seq(Messages) /\ n \in Nat
    BY <1>1, <2>1
  <2>3. live' = [live EXCEPT !.outbox = q, !.sent = n]
    BY <1>2, <2>1 DEF ServerSends
  <2>4. live' \in Lives
    BY <1>1, <2>2, <2>3 DEF Lives
  <2>5. /\ typ' = typ /\ stage' = stage /\ rec' = rec /\ finished' = finished
        /\ sender' = sender /\ receiver' = receiver /\ openErr' = openErr
        /\ calls' = calls
    BY <1>2 DEF ServerSends, replayVars
  <2> QED
    BY <2>4, <2>5, Zenon DEF TypeInv
<1>3. ASSUME NEW m \in Messages, NEW code \in Codes \cup {"EOF"}, ServerEnds(code, m)
      PROVE  TypeInv'
  <2>1. PICK q : q = IF typ # "client" THEN live.outbox
                     ELSE IF code = "EOF" THEN <<m>> ELSE << >>
    OBVIOUS
  <2>2. q \in Seq(Messages) /\ code \in Words
    BY <1>1, <2>1 DEF Words
  <2>3. live' = [live EXCEPT !.end = code, !.outbox = q]
    BY <1>3, <2>1 DEF ServerEnds
  <2>4. live' \in Lives
    BY <1>1, <2>2, <2>3 DEF Lives
  <2>5. /\ typ' = typ /\ stage' = stage /\ rec' = rec /\ finished' = finished
        /\ sender' = sender /\ receiver' = receiver /\ openErr' = openErr
        /\ calls' = calls
    BY <1>3 DEF ServerEnds, replayVars
  <2> QED
    BY <2>4, <2>5, Zenon DEF TypeInv
<1> QED
  BY <1>2, <1>3 DEF ServerStep

\* A read of the replay is a message of the saved pair, the terminal or the
\* mismatch.
LEMMA ReplayedReads ==
    ASSUME TypeInv, CassetteInv, ServeInv, rp # NoReplay
    PROVE  /\ IsReplay(rp) /\ rp.pair.recvs = rec.recvs
           /\ rp.pair.sends = rec.sends /\ rec \in Recordings
           /\ (IF RecvResult(rp) = "message"
               THEN Message(rp.pair.recvs[rp.recvIdx + 1].message)
               ELSE MapErr(RecvResult(rp))) \in Results
<1>1. IsReplay(rp) /\ key \in DOMAIN cassette /\ rp.pair = cassette[key].pair
  BY DEF ServeInv
<1>2. rp.pair = RecordedPair(rec) /\ rec # NoRecording
  BY <1>1 DEF CassetteInv
<1>3. rec \in Recordings
  BY <1>2, RecTyped
<1>4. rp.pair.recvs = rec.recvs /\ rp.pair.sends = rec.sends
  BY <1>2 DEF RecordedPair
<1>5. CASE RecvResult(rp) = "message"
  <2>1. ~(rp.recvIdx >= Len(rec.recvs)) /\ rp.recvIdx \in Nat
    BY <1>1, <1>4, <1>5, RecvFacts DEF IsReplay
  <2>2. rec.recvs \in Seq(Frames)
    BY <1>3, RecordingFields DEF Fields
  <2>3. rp.recvIdx + 1 \in 1 .. Len(rec.recvs)
    BY <2>1, <2>2
  <2>4. rec.recvs[rp.recvIdx + 1].message \in Messages
    <3>1. rec.recvs[rp.recvIdx + 1] \in Frames
      BY <2>2, <2>3
    <3> QED
      BY <3>1 DEF Frames
  <2> QED
    BY <1>1, <1>3, <1>4, <1>5, <2>4 DEF Results, Message
<1>6. CASE RecvResult(rp) # "message"
  <2>1. RecvResult(rp) \in {"mismatch", "error", "eof"}
    BY <1>1, <1>6, RecvFacts
  <2>2. RecordedStatus \in Words
    <3>1. cassette[key].code = TerminalCode(Terminal(live.end))
      BY <1>1 DEF CassetteInv
    <3>2. live.end \in Words
      BY LiveTyped DEF TypeInv
    <3> QED
      BY <3>1, <3>2 DEF RecordedStatus, TerminalCode, Terminal, Words
  <2>3. MapErr(RecvResult(rp)) \in Results
    BY <2>1, <2>2 DEF MapErr, Results, Terminal, Words
  <2> QED
    BY <1>1, <1>3, <1>4, <1>6, <2>3
<1> QED
  BY <1>5, <1>6

LEMMA ReplayTypes ==
    ASSUME TypeInv, CassetteInv, ServeInv, ReplayStep
    PROVE  TypeInv'
<1>1. /\ typ' = typ /\ rec' = rec /\ finished' = finished /\ sender' = sender
      /\ receiver' = receiver /\ live' = live
  BY DEF ReplayStep, NewReplayStream, ReplaySendMsg, ReplayCloseSend, ReplayRecvMsg,
         recordVars
<1>2. stage' \in {"start", "record", "failed", "replay", "missed"}
  BY DEF ReplayStep, NewReplayStream, ReplaySendMsg, ReplayCloseSend, ReplayRecvMsg,
         TypeInv
<1>3. openErr' = openErr \/ openErr' = TRUE
  BY DEF ReplayStep, NewReplayStream, ReplaySendMsg, ReplayCloseSend, ReplayRecvMsg
<1>4. openErr' \in BOOLEAN
  BY <1>3, Zenon DEF TypeInv
<1>5. calls \in [Runs -> Histories]
  BY DEF TypeInv
<1>6. calls' \in [Runs -> Histories]
  <2>1. ASSUME NewReplayStream PROVE calls' \in [Runs -> Histories]
    BY <1>5, <2>1 DEF NewReplayStream
  <2>2. ASSUME NEW m \in Messages, ReplaySendMsg(m)
        PROVE  calls' \in [Runs -> Histories]
    BY <1>5, <2>2, CalledFacts, TheRuns DEF ReplaySendMsg
  <2>3. ASSUME ReplayCloseSend PROVE calls' \in [Runs -> Histories]
    BY <1>5, <2>3, ClosedFacts, TheRuns DEF ReplayCloseSend
  <2>4. ASSUME ReplayRecvMsg PROVE calls' \in [Runs -> Histories]
    <3>1. PICK r : r = IF RecvResult(rp) = "message"
                       THEN Message(rp.pair.recvs[rp.recvIdx + 1].message)
                       ELSE MapErr(RecvResult(rp))
      OBVIOUS
    <3>2. calls' = Got("replay", r) /\ rp # NoReplay
      BY <2>4, <3>1 DEF ReplayRecvMsg
    <3>3. r \in Results
      BY <3>1, <3>2, ReplayedReads
    <3> QED
      BY <1>5, <3>2, <3>3, GotFacts, TheRuns
  <2> QED
    BY <2>1, <2>2, <2>3, <2>4 DEF ReplayStep
<1> QED
  BY <1>1, <1>2, <1>4, <1>6, Zenon DEF TypeInv

LEMMA NextType ==
    ASSUME TypeInv, OpenInv, CassetteInv, ServeInv, [Next]_vars
    PROVE  TypeInv'
<1>1. ASSUME NEW opened \in BOOLEAN, NewRecordStream(opened) PROVE TypeInv'
  <2>1. /\ typ' = typ /\ finished' = finished /\ sender' = sender
        /\ receiver' = receiver /\ live' = live /\ openErr' = openErr
        /\ calls' = calls
    BY <1>1 DEF NewRecordStream, replayVars
  <2>2. stage' \in {"start", "record", "failed", "replay", "missed"}
    BY <1>1 DEF NewRecordStream
  <2>3. rec' = rec \/ rec' = NewRecording(typ)
    BY <1>1 DEF NewRecordStream
  <2>4. rec' \in {NoRecording} \cup Recordings
    BY <2>3, NewRecordingFacts DEF TypeInv
  <2>5. rec'.finished = rec.finished
    <3>1. rec = NoRecording
      BY <1>1 DEF NewRecordStream, OpenInv
    <3>2. rec.finished = FALSE
      BY <3>1 DEF NoRecording
    <3> QED
      BY <2>3, <3>2, NewRecordingFacts DEF TypeInv
  <2> QED
    BY <2>1, <2>2, <2>4, <2>5, Zenon DEF TypeInv
<1>2. ASSUME UNCHANGED vars PROVE TypeInv'
  BY <1>2 DEF vars, TypeInv
<1> QED
  BY <1>1, <1>2, SenderTypes, ReceiverTypes, ServerTypes, ReplayTypes DEF Next

-----------------------------------------------------------------------------
(***************************************************************************)
(* What each step of the recording run does to the state.                  *)
(***************************************************************************)

\* The part of the state that only the replay changes.
SameReplay ==
    /\ typ' = typ /\ stage = "record" /\ stage' = "record"
    /\ rp' = rp /\ openErr' = openErr /\ Now' = Now

\* The live stream but for the named fields.
SameWire == live'.wire = live.wire

SameInbound == live'.outbox = live.outbox /\ live'.end = live.end

SameRec ==
    /\ rec' = rec /\ key' = key /\ finished' = finished /\ cassette' = cassette
    /\ Sends' = Sends /\ Recvs' = Recvs

LEMMA SendMsgEffect ==
    ASSUME TypeInv, NEW m \in Messages, SendMsg(m)
    PROVE  /\ SameReplay /\ sender = Idle
           /\ rec' # NoRecording /\ Sends' = Sends /\ Recvs' = Recvs
           /\ finished' = finished /\ cassette' = cassette
           /\ IF rec # NoRecording THEN rec' = rec /\ key' = key
              ELSE key' = StreamOpenKey(m)
           /\ sender'.at = "send" /\ sender'.message = m
           /\ receiver' = receiver /\ live' = live
           /\ Was'.sends = Append(Was.sends, m) /\ Was'.got = Was.got
           /\ Was.closes = 0
           /\ typ = "server" => Len(Was.sends) < 1
<1>1. /\ calls' = Called("record", m) /\ calls \in [Runs -> Histories]
      /\ typ \in StreamTypes
  BY DEF SendMsg, TypeInv
<1>2. /\ Was'.sends = Append(Was.sends, m) /\ Was'.got = Was.got
      /\ Now' = Now
  BY <1>1, CalledFacts, TheRuns DEF Was, Now
<1>3. IF rec # NoRecording THEN rec' = rec ELSE rec' = NewRecording(typ)
  BY DEF SendMsg
<1>4. rec' # NoRecording /\ Sends' = Sends /\ Recvs' = Recvs
  BY <1>1, <1>3, NewRecordingFacts, NotARecording DEF Sends, Recvs
<1> QED
  BY <1>2, <1>4 DEF SendMsg, SameReplay, replayVars, Was

LEMMA LiveSendMsgEffect ==
    ASSUME TypeInv, OpenInv, NEW ok \in BOOLEAN, LiveSendMsg(ok)
    PROVE  /\ SameReplay /\ SameRec /\ SameInbound
           /\ receiver' = receiver /\ calls' = calls
           /\ sender.at = "send"
           /\ \/ /\ ok /\ ~live.done /\ live'.done = live.done
                 /\ live'.wire = Append(live.wire, sender.message)
                 /\ sender'.at = "sent" /\ sender'.message = sender.message
              \/ /\ ~ok /\ live.end # "open" /\ live'.done = TRUE /\ SameWire
                 /\ sender' = Idle
<1>1. sender.at = "send" /\ live \in Lives
  BY DEF LiveSendMsg, TypeInv
<1>2. sender \in [at : {"send", "sent"}, message : Messages]
  BY <1>1, SenderTyped
<1>3. sender # Idle
  BY <1>1, SenderTyped
<1>4. stage = "record"
  BY <1>3 DEF OpenInv
<1>5. SameReplay /\ SameRec /\ receiver' = receiver /\ calls' = calls
  BY <1>4 DEF LiveSendMsg, SameReplay, SameRec, replayVars, Now, Sends, Recvs
<1>6. CASE ok
  <2>1. /\ live' = [live EXCEPT !.wire = Append(@, sender.message)]
        /\ sender' = [sender EXCEPT !.at = "sent"] /\ ~live.done
    BY <1>6 DEF LiveSendMsg
  <2>2. /\ live'.wire = Append(live.wire, sender.message)
        /\ live'.done = live.done /\ SameInbound
    BY <1>1, <2>1 DEF Lives, SameInbound
  <2>3. sender'.at = "sent" /\ sender'.message = sender.message
    BY <1>2, <2>1
  <2> QED
    BY <1>1, <1>5, <1>6, <2>1, <2>2, <2>3
<1>7. CASE ~ok
  <2>1. live' = [live EXCEPT !.done = TRUE] /\ sender' = Idle /\ live.end # "open"
    BY <1>7 DEF LiveSendMsg
  <2>2. live'.done = TRUE /\ SameWire /\ SameInbound
    BY <1>1, <2>1 DEF Lives, SameInbound, SameWire
  <2> QED
    BY <1>1, <1>5, <1>7, <2>1, <2>2
<1> QED
  BY <1>6, <1>7

LEMMA NoteSendEffect ==
    ASSUME TypeInv, OpenInv, NoteSend
    PROVE  /\ SameReplay /\ key' = key /\ finished' = finished /\ cassette' = cassette
           /\ receiver' = receiver /\ live' = live /\ calls' = calls
           /\ sender.at = "sent" /\ sender' = Idle
           /\ rec # NoRecording /\ rec' # NoRecording
           /\ Recvs' = Recvs /\ rec'.finished = rec.finished
           /\ finished => rec' = rec /\ Sends' = Sends
           /\ ~finished => Sends' = Append(Sends,
                               StreamFrame(rec.seq, Scrub[sender.message]))
<1>1. sender.at = "sent" /\ rec' = RecordSend(rec, Scrub, sender.message)
  BY DEF NoteSend
<1>2. sender.message \in Messages /\ sender # Idle
  BY <1>1, SenderTyped
<1>3. stage = "record" /\ rec # NoRecording
  BY <1>1, <1>2 DEF OpenInv
<1>4. rec \in Recordings /\ finished = rec.finished
  BY <1>3, RecTyped DEF TypeInv
<1>5. PICK s : s = rec'
  OBVIOUS
<1>6. /\ s \in Recordings
      /\ s.recvs = rec.recvs /\ s.finished = rec.finished
      /\ rec.finished => s = rec
      /\ ~rec.finished =>
            s.sends = Append(rec.sends, StreamFrame(rec.seq, Scrub[sender.message]))
  BY <1>1, <1>2, <1>4, <1>5, RecordSendFacts
<1>7. rec' # NoRecording
  BY <1>5, <1>6, NotARecording
<1>8. /\ Recvs' = Recvs
      /\ finished => rec' = rec /\ Sends' = Sends
      /\ ~finished => Sends' = Append(Sends,
                          StreamFrame(rec.seq, Scrub[sender.message]))
  BY <1>3, <1>4, <1>5, <1>6, <1>7 DEF Sends, Recvs
<1>9. /\ SameReplay /\ key' = key /\ finished' = finished /\ cassette' = cassette
      /\ receiver' = receiver /\ live' = live /\ calls' = calls /\ sender' = Idle
  BY <1>3 DEF NoteSend, SameReplay, replayVars, Now
<1> QED
  BY <1>1, <1>3, <1>5, <1>6, <1>7, <1>8, <1>9

LEMMA CloseSendEffect ==
    ASSUME TypeInv, NEW ok \in BOOLEAN, CloseSend(ok)
    PROVE  /\ SameReplay /\ SameRec /\ SameWire /\ SameInbound
           /\ live'.done = live.done /\ receiver' = receiver
           /\ sender = Idle /\ sender'.at \in {"idle", "closed"}
           /\ Was'.sends = Was.sends /\ Was'.got = Was.got
<1>1. /\ live' = [live EXCEPT !.closed = ok /\ live.end = "open"]
      /\ live \in Lives /\ calls \in [Runs -> Histories]
      /\ calls' = Closed("record")
  BY DEF CloseSend, TypeInv
<1>2. SameWire /\ SameInbound /\ live'.done = live.done
  BY <1>1 DEF Lives, SameWire, SameInbound
<1>3. Was'.sends = Was.sends /\ Was'.got = Was.got /\ Now' = Now
  BY <1>1, ClosedFacts, TheRuns DEF Was, Now
<1>4. sender = Idle /\ sender'.at \in {"idle", "closed"}
  BY DEF CloseSend, Idle
<1> QED
  BY <1>2, <1>3, <1>4 DEF CloseSend, SameReplay, SameRec, Sends, Recvs, replayVars

LEMMA NoteHalfCloseEffect ==
    ASSUME TypeInv, OpenInv, NoteHalfClose
    PROVE  /\ SameReplay /\ key' = key /\ finished' = finished /\ cassette' = cassette
           /\ receiver' = receiver /\ live' = live /\ calls' = calls
           /\ sender.at = "closed" /\ sender' = Idle
           /\ rec' = NoRecording <=> rec = NoRecording
           /\ Recvs' = Recvs /\ Sends' = Sends /\ rec'.finished = rec.finished
           /\ finished => rec' = rec
<1>1. sender.at = "closed"
  BY DEF NoteHalfClose
<1>2. sender # Idle
  BY <1>1, SenderTyped
<1>3. stage = "record"
  BY <1>1, <1>2 DEF OpenInv
<1>4. /\ SameReplay /\ key' = key /\ finished' = finished /\ cassette' = cassette
      /\ receiver' = receiver /\ live' = live /\ calls' = calls /\ sender' = Idle
  BY <1>3 DEF NoteHalfClose, SameReplay, replayVars, Now
<1>5. CASE rec = NoRecording
  <2>1. rec' = rec
    BY <1>5 DEF NoteHalfClose
  <2> QED
    BY <1>1, <1>4, <1>5, <2>1 DEF Sends, Recvs
<1>6. CASE rec # NoRecording
  <2>1. rec' = RecordHalfClose(rec)
    BY <1>6 DEF NoteHalfClose
  <2>2. rec \in Recordings /\ finished = rec.finished
    BY <1>6, RecTyped DEF TypeInv
  <2>3. PICK s : s = rec'
    OBVIOUS
  <2>4. /\ s \in Recordings
        /\ s.sends = rec.sends /\ s.recvs = rec.recvs /\ s.finished = rec.finished
        /\ rec.finished => s = rec
    BY <2>1, <2>2, <2>3, RecordHalfCloseFacts
  <2>5. rec' # NoRecording
    BY <2>3, <2>4, NotARecording
  <2>6. Recvs' = Recvs /\ Sends' = Sends
    BY <1>6, <2>3, <2>4, <2>5 DEF Sends, Recvs
  <2> QED
    BY <1>1, <1>4, <1>6, <2>2, <2>3, <2>4, <2>5, <2>6
<1> QED
  BY <1>5, <1>6

LEMMA RecvMsgEffect ==
    ASSUME TypeInv, RecvMsg
    PROVE  /\ SameReplay /\ SameRec /\ SameWire /\ live'.end = live.end
           /\ sender' = sender /\ calls' = calls /\ receiver = Idle
           /\ \/ /\ live.outbox # << >> /\ live'.outbox = Tail(live.outbox)
                 /\ receiver'.at = "got" /\ receiver'.message = Head(live.outbox)
                 /\ live'.done = (live.done \/ typ = "client")
              \/ /\ live.outbox = << >> /\ live'.outbox = << >>
                 /\ live.end # "open" /\ live'.done = TRUE
                 /\ receiver'.at = "end" /\ receiver'.result = Terminal(live.end)
<1>1. live \in Lives
  BY DEF TypeInv
<1>2. /\ SameReplay /\ SameRec /\ sender' = sender /\ calls' = calls
      /\ receiver = Idle
  BY DEF RecvMsg, SameReplay, SameRec, replayVars, Now, Sends, Recvs
<1>3. CASE live.outbox # << >>
  <2>1. PICK q, b : q = Tail(live.outbox) /\ b = (live.done \/ typ = "client")
    OBVIOUS
  <2>2. /\ live' = [live EXCEPT !.outbox = q, !.done = b]
        /\ receiver' = [at |-> "got", message |-> Head(live.outbox)]
    BY <1>3, <2>1 DEF RecvMsg
  <2>3. /\ live'.wire = live.wire /\ live'.end = live.end
        /\ live'.outbox = q /\ live'.done = b
    BY <1>1, <2>2 DEF Lives
  <2> QED
    BY <1>2, <1>3, <2>1, <2>2, <2>3 DEF SameWire
<1>4. CASE live.outbox = << >>
  <2>1. /\ live' = [live EXCEPT !.done = TRUE] /\ live.end # "open"
        /\ receiver' = [at |-> "end", result |-> Terminal(live.end)]
    BY <1>4 DEF RecvMsg
  <2>2. /\ live'.wire = live.wire /\ live'.end = live.end
        /\ live'.outbox = live.outbox /\ live'.done = TRUE
    BY <1>1, <2>1 DEF Lives
  <2> QED
    BY <1>2, <1>4, <2>1, <2>2 DEF SameWire
<1> QED
  BY <1>3, <1>4

LEMMA NoteRecvEffect ==
    ASSUME TypeInv, OpenInv, RecvInv, NoteRecv
    PROVE  /\ SameReplay /\ key' = key /\ finished' = finished /\ cassette' = cassette
           /\ ~finished /\ sender' = sender /\ live' = live
           /\ receiver.at = "got" /\ receiver.message \in Messages
           /\ rec # NoRecording /\ rec' # NoRecording
           /\ Sends' = Sends /\ rec'.finished = rec.finished
           /\ Recvs' = Append(Recvs, StreamFrame(rec.seq, Scrub[receiver.message]))
           /\ Was'.sends = Was.sends
           /\ \/ /\ typ = "client" /\ Was'.got = Was.got /\ receiver'.at = "end"
                 /\ receiver'.result = Message(receiver.message)
              \/ /\ typ # "client" /\ receiver' = Idle
                 /\ Was'.got = Append(Was.got, Message(receiver.message))
<1>1. receiver.at = "got"
  BY DEF NoteRecv
<1>2. receiver.message \in Messages /\ receiver # Idle
  BY <1>1, ReceiverTyped
<1>3. stage = "record" /\ rec # NoRecording /\ ~finished
  BY <1>1, <1>2 DEF OpenInv, RecvInv
<1>4. rec \in Recordings /\ finished = rec.finished
  BY <1>3, RecTyped DEF TypeInv
<1>5. PICK s : s = rec'
  OBVIOUS
<1>6. rec' = RecordRecv(rec, Scrub, receiver.message)
  BY <1>3 DEF NoteRecv
<1>7. /\ s \in Recordings
      /\ s.sends = rec.sends /\ s.finished = rec.finished
      /\ s.recvs = Append(rec.recvs, StreamFrame(rec.seq, Scrub[receiver.message]))
  BY <1>2, <1>3, <1>4, <1>5, <1>6, RecordRecvFacts
<1>8. rec' # NoRecording
  BY <1>5, <1>7, NotARecording
<1>9. /\ Sends' = Sends
      /\ Recvs' = Append(Recvs, StreamFrame(rec.seq, Scrub[receiver.message]))
  BY <1>3, <1>5, <1>7, <1>8 DEF Sends, Recvs
<1>10. PICK r : r = Message(receiver.message)
  OBVIOUS
<1>11. r \in Results /\ calls \in [Runs -> Histories]
  BY <1>2, <1>10 DEF Results, Message, TypeInv
<1>12. /\ Was'.sends = Was.sends /\ Now' = Now
       /\ \/ /\ typ = "client" /\ Was'.got = Was.got /\ receiver'.at = "end"
             /\ receiver'.result = Message(receiver.message)
          \/ /\ typ # "client" /\ receiver' = Idle
             /\ Was'.got = Append(Was.got, Message(receiver.message))
  <2>1. CASE typ = "client"
    <3>1. receiver' = [at |-> "end", result |-> r]
      BY <1>3, <1>10, <2>1 DEF NoteRecv
    <3>2. calls' = calls
      BY <3>1 DEF NoteRecv
    <3> QED
      BY <1>10, <2>1, <3>1, <3>2 DEF Was, Now
  <2>2. CASE typ # "client"
    <3>1. receiver' = Idle
      BY <1>3, <2>2 DEF NoteRecv
    <3>2. receiver'.at = "idle"
      BY <3>1 DEF Idle
    <3>3. calls' = Got("record", r)
      BY <1>10, <3>2 DEF NoteRecv
    <3>4. /\ Was'.got = Append(Was.got, r) /\ Was'.sends = Was.sends
          /\ Now' = Now
      BY <1>11, <3>3, GotFacts, TheRuns DEF Was, Now
    <3> QED
      BY <1>10, <2>2, <3>1, <3>4
  <2> QED
    BY <2>1, <2>2
<1>13. /\ typ' = typ /\ stage' = stage /\ key' = key /\ finished' = finished
       /\ cassette' = cassette /\ sender' = sender /\ live' = live
       /\ rp' = rp /\ openErr' = openErr
  BY DEF NoteRecv, replayVars
<1> QED
  BY <1>1, <1>2, <1>3, <1>5, <1>7, <1>8, <1>9, <1>12, <1>13 DEF SameReplay

\* finish records once: the frames stay, the terminal comes, and the pair is
\* saved under the key the recording was opened with, or not at all.
LEMMA FinishStreamEffect ==
    ASSUME TypeInv, OpenInv, NEW saved \in BOOLEAN, FinishStream(saved)
    PROVE  /\ SameReplay /\ key' = key /\ sender' = sender /\ live' = live
           /\ receiver.at = "end" /\ receiver' = Idle
           /\ receiver.result \in Results
           /\ rec' = NoRecording <=> rec = NoRecording
           /\ Sends' = Sends /\ Recvs' = Recvs
           /\ Was'.sends = Was.sends
           /\ IF Ended("record") THEN Was'.got = Was.got
              ELSE Was'.got = Append(Was.got, receiver.result)
           /\ IF finished \/ rec = NoRecording
              THEN rec' = rec /\ finished' = finished /\ cassette' = cassette
              ELSE /\ finished' = TRUE /\ rec'.finished = TRUE
                   /\ rec'.err = (/\ receiver.result[1] = "terminal"
                                  /\ receiver.result[2] # "EOF")
                   /\ \/ cassette' = cassette
                      \/ cassette' = WriteFile(cassette, key,
                            [pair |-> RecordedPair(rec'),
                             code |-> TerminalCode(receiver.result)])
<1>1. receiver.at = "end"
  BY DEF FinishStream
<1>2. receiver.result \in Results /\ receiver # Idle
  BY <1>1, ReceiverTyped
<1>3. stage = "record"
  BY <1>2 DEF OpenInv
<1>4. calls \in [Runs -> Histories]
  BY DEF TypeInv
<1>5. /\ typ' = typ /\ stage' = stage /\ key' = key /\ sender' = sender
      /\ live' = live /\ rp' = rp /\ openErr' = openErr /\ receiver' = Idle
  BY DEF FinishStream, replayVars
<1>6. /\ Was'.sends = Was.sends /\ Now' = Now
      /\ IF Ended("record") THEN Was'.got = Was.got
         ELSE Was'.got = Append(Was.got, receiver.result)
  <2>1. CASE Ended("record")
    BY <2>1 DEF FinishStream, Was, Now
  <2>2. CASE ~Ended("record")
    <3>1. calls' = Got("record", receiver.result)
      BY <2>2 DEF FinishStream
    <3>2. /\ Was'.got = Append(Was.got, receiver.result) /\ Was'.sends = Was.sends
          /\ Now' = Now
      BY <1>2, <1>4, <3>1, GotFacts, TheRuns DEF Was, Now
    <3> QED
      BY <2>2, <3>2
  <2> QED
    BY <2>1, <2>2
<1>7. /\ rec' = NoRecording <=> rec = NoRecording
      /\ Sends' = Sends /\ Recvs' = Recvs
      /\ IF finished \/ rec = NoRecording
         THEN rec' = rec /\ finished' = finished /\ cassette' = cassette
         ELSE /\ finished' = TRUE /\ rec'.finished = TRUE
              /\ rec'.err = (/\ receiver.result[1] = "terminal"
                             /\ receiver.result[2] # "EOF")
              /\ \/ cassette' = cassette
                 \/ cassette' = WriteFile(cassette, key,
                       [pair |-> RecordedPair(rec'),
                        code |-> TerminalCode(receiver.result)])
  <2>1. CASE finished \/ rec = NoRecording
    <3>1. rec' = rec /\ finished' = finished /\ cassette' = cassette
      BY <2>1 DEF FinishStream
    <3> QED
      BY <2>1, <3>1 DEF Sends, Recvs
  <2>2. CASE ~(finished \/ rec = NoRecording)
    <3>1. PICK failed : failed \in BOOLEAN /\ failed =
               (receiver.result[1] = "terminal" /\ receiver.result[2] # "EOF")
      BY Zenon
    <3>2. /\ rec' = FinishRecording(rec, failed) /\ finished' = TRUE
          /\ \/ cassette' = cassette
             \/ cassette' = WriteFile(cassette, key,
                   [pair |-> RecordedPair(rec'),
                    code |-> TerminalCode(receiver.result)])
      BY <2>2, <3>1 DEF FinishStream
    <3>3. PICK s : s = rec'
      OBVIOUS
    <3>4. rec \in Recordings
      BY <2>2, RecTyped
    <3>5. /\ s \in Recordings /\ s.sends = rec.sends /\ s.recvs = rec.recvs
          /\ s.finished = TRUE /\ s.err = failed
      BY <3>1, <3>2, <3>3, <3>4, FinishRecordingFacts
    <3>6. rec' # NoRecording
      BY <3>3, <3>5, NotARecording
    <3>7. Sends' = Sends /\ Recvs' = Recvs
      BY <2>2, <3>3, <3>5, <3>6 DEF Sends, Recvs
    <3> QED
      BY <2>2, <3>1, <3>2, <3>3, <3>5, <3>6, <3>7
  <2> QED
    BY <2>1, <2>2
<1> QED
  BY <1>1, <1>2, <1>3, <1>5, <1>6, <1>7 DEF SameReplay

LEMMA ServerSendsEffect ==
    ASSUME TypeInv, NEW m \in Messages, ServerSends(m)
    PROVE  /\ SameReplay /\ SameRec /\ SameWire
           /\ live'.done = live.done /\ live'.end = live.end
           /\ live'.outbox = Append(live.outbox, m)
           /\ sender' = sender /\ receiver' = receiver /\ calls' = calls
           /\ typ # "client" /\ live.end = "open"
           /\ typ = "server" => live.wire # << >>
<1>1. PICK q, n : q = Append(live.outbox, m) /\ n = live.sent + 1
  OBVIOUS
<1>2. live' = [live EXCEPT !.outbox = q, !.sent = n] /\ live \in Lives
  BY <1>1 DEF ServerSends, TypeInv
<1>3. SameWire /\ live'.done = live.done /\ live'.end = live.end /\ live'.outbox = q
  BY <1>2 DEF Lives, SameWire
<1> QED
  BY <1>1, <1>3 DEF ServerSends, SameReplay, SameRec, Sends, Recvs, replayVars, Now

LEMMA ServerEndsEffect ==
    ASSUME TypeInv, NEW m \in Messages, NEW code \in Codes \cup {"EOF"},
           ServerEnds(code, m)
    PROVE  /\ SameReplay /\ SameRec /\ SameWire
           /\ live'.done = live.done /\ live'.end = code
           /\ live'.outbox = IF typ # "client" THEN live.outbox
                             ELSE IF code = "EOF" THEN <<m>> ELSE << >>
           /\ sender' = sender /\ receiver' = receiver /\ calls' = calls
           /\ live.end = "open"
<1>1. PICK q : q = IF typ # "client" THEN live.outbox
                   ELSE IF code = "EOF" THEN <<m>> ELSE << >>
  OBVIOUS
<1>2. live' = [live EXCEPT !.end = code, !.outbox = q] /\ live \in Lives
  BY <1>1 DEF ServerEnds, TypeInv
<1>3. SameWire /\ live'.done = live.done /\ live'.end = code /\ live'.outbox = q
  BY <1>2 DEF Lives, SameWire
<1> QED
  BY <1>1, <1>3 DEF ServerEnds, SameReplay, SameRec, Sends, Recvs, replayVars, Now

LEMMA NewRecordStreamEffect ==
    ASSUME TypeInv, OpenInv, NEW opened \in BOOLEAN, NewRecordStream(opened)
    PROVE  /\ typ' = typ /\ rp' = rp /\ openErr' = openErr /\ calls' = calls
           /\ stage = "start" /\ stage' \in {"record", "failed"}
           /\ Sends' = Sends /\ Recvs' = Recvs
           /\ finished' = finished /\ cassette' = cassette
           /\ sender' = sender /\ receiver' = receiver /\ live' = live
           /\ rec = NoRecording
           /\ IF typ = "server" THEN rec' = NoRecording
              ELSE rec' # NoRecording /\ key' = <<"n", 0>>
<1>1. stage = "start" /\ rec = NoRecording
  BY DEF NewRecordStream, OpenInv
<1>2. IF typ = "server" THEN rec' = NoRecording
      ELSE rec' = NewRecording(typ) /\ key' = <<"n", 0>>
  BY <1>1 DEF NewRecordStream
<1>3. /\ IF typ = "server" THEN rec' = NoRecording ELSE rec' # NoRecording
      /\ Sends' = Sends /\ Recvs' = Recvs
  BY <1>1, <1>2, NewRecordingFacts, NotARecording DEF Sends, Recvs, TypeInv
<1> QED
  BY <1>1, <1>2, <1>3 DEF NewRecordStream, replayVars

\* The replay leaves the recording run alone, which is over.
LEMMA ReplayStepEffect ==
    ASSUME TypeInv, CassetteInv, ServeInv, ReplayStep
    PROVE  /\ typ' = typ /\ SameRec /\ sender' = sender /\ receiver' = receiver
           /\ live' = live /\ Was' = Was
           /\ stage # "start" /\ stage' # "start"
           /\ \/ stage' = stage /\ stage = "replay"
              \/ stage' # "record" /\ sender = Idle /\ receiver = Idle
<1>1. calls \in [Runs -> Histories]
  BY DEF TypeInv
<1>2. ASSUME NewReplayStream PROVE Was' = Was
  BY <1>2 DEF NewReplayStream, Was
<1>3. ASSUME NEW m \in Messages, ReplaySendMsg(m) PROVE Was' = Was
  BY <1>1, <1>3, CalledFacts, TheRuns DEF ReplaySendMsg, Was
<1>4. ASSUME ReplayCloseSend PROVE Was' = Was
  BY <1>1, <1>4, ClosedFacts, TheRuns DEF ReplayCloseSend, Was
<1>5. ASSUME ReplayRecvMsg PROVE Was' = Was
  <2>1. PICK r : r = IF RecvResult(rp) = "message"
                     THEN Message(rp.pair.recvs[rp.recvIdx + 1].message)
                     ELSE MapErr(RecvResult(rp))
    OBVIOUS
  <2>2. calls' = Got("replay", r) /\ rp # NoReplay
    BY <1>5, <2>1 DEF ReplayRecvMsg
  <2>3. r \in Results
    BY <2>1, <2>2, ReplayedReads
  <2> QED
    BY <1>1, <2>2, <2>3, GotFacts, TheRuns DEF Was
<1>6. Was' = Was
  BY <1>2, <1>3, <1>4, <1>5 DEF ReplayStep
<1>7. /\ typ' = typ /\ rec' = rec /\ key' = key /\ finished' = finished
      /\ cassette' = cassette /\ sender' = sender /\ receiver' = receiver
      /\ live' = live
  BY DEF ReplayStep, NewReplayStream, ReplaySendMsg, ReplayCloseSend, ReplayRecvMsg,
         recordVars
<1>8. \/ stage' = stage /\ stage = "replay"
      \/ /\ stage' # "record" /\ stage' # "start" /\ stage # "start"
         /\ sender = Idle /\ receiver = Idle
  BY DEF ReplayStep, NewReplayStream, ReplaySendMsg, ReplayCloseSend, ReplayRecvMsg
<1> QED
  BY <1>6, <1>7, <1>8 DEF SameRec, Sends, Recvs

-----------------------------------------------------------------------------
(***************************************************************************)
(* OpenInv.                                                                *)
(***************************************************************************)
LEMMA InitOpen == Init => OpenInv
  BY DEF Init, OpenInv, Idle

LEMMA OpenFrame ==
    ASSUME OpenInv, typ' = typ, stage = "record", stage' = "record",
           rec' = NoRecording <=> rec = NoRecording, key' = key,
           Was'.sends = Was.sends, live'.wire = live.wire,
           live'.outbox = live.outbox,
           sender'.at \in {"send", "sent"} => sender.at \in {"send", "sent"},
           receiver'.at = "got" => receiver.at = "got"
    PROVE  OpenInv'
  BY DEF OpenInv

LEMMA NextOpen ==
    ASSUME TypeInv, OpenInv, RecvInv, CassetteInv, ServeInv, [Next]_vars
    PROVE  OpenInv'
<1>1. Idle.at = "idle"
  BY DEF Idle
<1>2. /\ Was \in Histories /\ Was.sends \in Seq(Messages)
      /\ live.outbox \in Seq(Messages) /\ live.wire \in Seq(Messages)
      /\ typ \in StreamTypes
  BY CallsTyped, HistoryTyped, LiveTyped DEF TypeInv
<1>3. ASSUME NEW opened \in BOOLEAN, NewRecordStream(opened) PROVE OpenInv'
  <2>1. Was' = Was
    BY <1>3, NewRecordStreamEffect DEF Was
  <2> QED
    BY <1>1, <1>3, <2>1, NewRecordStreamEffect DEF OpenInv
<1>4. ASSUME NEW m \in Messages, SendMsg(m) PROVE OpenInv'
  <2>1. /\ typ' = typ /\ stage = "record" /\ stage' = "record" /\ rec' # NoRecording
        /\ IF rec # NoRecording THEN rec' = rec /\ key' = key
           ELSE key' = StreamOpenKey(m)
        /\ Was'.sends = Append(Was.sends, m)
        /\ typ = "server" => Len(Was.sends) < 1
    BY <1>4, SendMsgEffect DEF SameReplay
  <2>2. CASE typ = "server"
    <3>1. rec = NoRecording /\ Len(Was.sends) = 0
      BY <1>2, <2>1, <2>2 DEF OpenInv
    <3>2. Was'.sends = Append(Was.sends, m)
      BY <2>1
    <3>3. Len(Was'.sends) = 1 /\ Was'.sends[1] = m
      BY <1>2, <3>1, <3>2
    <3>4. key' = <<"msg_hash", Scrub[m]>>
      BY <2>1, <2>2, <3>1 DEF StreamOpenKey
    <3> QED
      BY <2>1, <2>2, <3>3, <3>4 DEF OpenInv
  <2>3. CASE typ # "server"
    BY <2>1, <2>3 DEF OpenInv
  <2> QED
    BY <2>2, <2>3
<1>5. ASSUME NEW ok \in BOOLEAN, LiveSendMsg(ok) PROVE OpenInv'
  <2>1. /\ typ' = typ /\ stage' = "record" /\ rec' = rec /\ key' = key
        /\ stage = "record"
        /\ receiver' = receiver /\ calls' = calls /\ sender.at = "send"
    BY <1>5, LiveSendMsgEffect DEF SameReplay, SameRec
  <2> QED
    BY <2>1 DEF OpenInv, Was
<1>6. ASSUME NoteSend PROVE OpenInv'
  <2>1. /\ typ' = typ /\ stage = "record" /\ stage' = "record"
        /\ rec # NoRecording /\ rec' # NoRecording /\ key' = key
        /\ live' = live /\ receiver' = receiver /\ sender' = Idle /\ calls' = calls
    BY <1>6, NoteSendEffect DEF SameReplay
  <2> QED
    BY <2>1 DEF OpenInv, Was
<1>7. ASSUME NEW ok \in BOOLEAN, CloseSend(ok) PROVE OpenInv'
  <2>1. /\ typ' = typ /\ stage = "record" /\ stage' = "record"
        /\ rec' = rec /\ key' = key /\ Was'.sends = Was.sends
        /\ live'.wire = live.wire /\ live'.outbox = live.outbox
        /\ receiver' = receiver /\ sender'.at \in {"idle", "closed"}
    BY <1>7, CloseSendEffect DEF SameReplay, SameRec, SameWire, SameInbound
  <2> QED
    BY <2>1, OpenFrame
<1>8. ASSUME NoteHalfClose PROVE OpenInv'
  <2>1. /\ typ' = typ /\ stage = "record" /\ stage' = "record"
        /\ rec' = NoRecording <=> rec = NoRecording
        /\ key' = key /\ calls' = calls /\ live' = live
        /\ receiver' = receiver /\ sender' = Idle
    BY <1>8, NoteHalfCloseEffect DEF SameReplay
  <2> QED
    BY <1>1, <2>1 DEF OpenInv, Was
<1>9. ASSUME RecvMsg PROVE OpenInv'
  <2>1. /\ typ' = typ /\ stage = "record" /\ stage' = "record"
        /\ rec' = rec /\ key' = key /\ calls' = calls
        /\ live'.wire = live.wire /\ sender' = sender
        /\ \/ live.outbox # << >>
           \/ live'.outbox = << >> /\ receiver'.at = "end"
    BY <1>9, RecvMsgEffect DEF SameReplay, SameRec, SameWire
  <2> QED
    BY <2>1 DEF OpenInv, Was
<1>10. ASSUME NoteRecv PROVE OpenInv'
  <2>1. /\ typ' = typ /\ stage = "record" /\ stage' = "record"
        /\ rec # NoRecording /\ rec' # NoRecording /\ key' = key
        /\ Was'.sends = Was.sends
    BY <1>10, NoteRecvEffect DEF SameReplay
  <2> QED
    BY <2>1 DEF OpenInv
<1>11. ASSUME NEW saved \in BOOLEAN, FinishStream(saved) PROVE OpenInv'
  <2>1. /\ typ' = typ /\ stage = "record" /\ stage' = "record"
        /\ rec' = NoRecording <=> rec = NoRecording
        /\ key' = key /\ Was'.sends = Was.sends /\ live' = live
        /\ receiver' = Idle /\ sender' = sender
    BY <1>11, FinishStreamEffect DEF SameReplay
  <2> QED
    BY <1>1, <2>1 DEF OpenInv
<1>12. ASSUME NEW m \in Messages, ServerSends(m) PROVE OpenInv'
  <2>1. /\ typ' = typ /\ stage = "record" /\ stage' = "record"
        /\ rec' = rec /\ key' = key /\ calls' = calls
        /\ typ = "server" => live.wire # << >>
    BY <1>12, ServerSendsEffect DEF SameReplay, SameRec
  <2>2. rec # NoRecording
    BY <2>1 DEF OpenInv
  <2> QED
    BY <2>1, <2>2 DEF OpenInv, Was
<1>13. ASSUME NEW m \in Messages, NEW code \in Codes \cup {"EOF"}, ServerEnds(code, m)
       PROVE  OpenInv'
  <2>1. /\ typ' = typ /\ stage = "record" /\ stage' = "record"
        /\ rec' = rec /\ key' = key /\ calls' = calls /\ live'.wire = live.wire
        /\ typ = "server" => live'.outbox = live.outbox
        /\ sender' = sender /\ receiver' = receiver
    BY <1>13, ServerEndsEffect DEF SameReplay, SameRec, SameWire
  <2> QED
    BY <2>1 DEF OpenInv, Was
<1>14. ASSUME ReplayStep PROVE OpenInv'
  BY <1>14, ReplayStepEffect DEF OpenInv, SameRec
<1>15. ASSUME UNCHANGED vars PROVE OpenInv'
  BY <1>15 DEF vars, OpenInv, Was
<1> QED
  BY <1>3, <1>4, <1>5, <1>6, <1>7, <1>8, <1>9, <1>10, <1>11, <1>12, <1>13, <1>14,
     <1>15 DEF Next, SenderStep, ReceiverStep, ServerStep

-----------------------------------------------------------------------------
(***************************************************************************)
(* SendInv.                                                                *)
(***************************************************************************)
LEMMA InitSend == Init => SendInv
<1> SUFFICES ASSUME Init PROVE SendInv
  OBVIOUS
<1>1. /\ Sends = << >> /\ live.wire = << >> /\ Was.sends = << >>
      /\ sender.at = "idle" /\ finished = FALSE /\ live.done = FALSE
  BY TheRuns DEF Init, Sends, Was, Idle
<1>2. Len(<< >>) = 0
  OBVIOUS
<1> QED
  BY <1>1, <1>2 DEF SendInv

\* The lengths are numbers.
LEMMA SendLengths ==
    ASSUME TypeInv
    PROVE  /\ IsSeq(Sends) /\ IsSeq(live.wire) /\ IsSeq(Was.sends)
           /\ Len(Sends) \in Nat /\ Len(live.wire) \in Nat /\ Len(Was.sends) \in Nat
<1>1. Sends \in Seq(Frames)
  <2>1. CASE rec = NoRecording
    BY <2>1 DEF Sends
  <2>2. CASE rec # NoRecording
    BY <2>2, RecTyped, RecordingFields DEF Sends, Fields
  <2> QED
    BY <2>1, <2>2
<1>2. live.wire \in Seq(Messages) /\ Was.sends \in Seq(Messages)
  BY LiveTyped, CallsTyped, HistoryTyped DEF TypeInv
<1>3. IsSeq(Sends)
  BY <1>1 DEF IsSeq
<1>4. IsSeq(live.wire) /\ IsSeq(Was.sends)
  BY <1>2 DEF IsSeq
<1> QED
  BY <1>1, <1>2, <1>3, <1>4

\* Steps that leave the sends alone, though the stream may end meanwhile.
LEMMA SendFrame ==
    ASSUME SendInv, finished' = finished, Sends' = Sends, live'.wire = live.wire,
           live.done => live'.done, Was'.sends = Was.sends,
           sender'.at = sender.at \/ (sender.at \notin {"send", "sent"}
                                      /\ sender'.at \notin {"send", "sent"}),
           sender.at \in {"send", "sent"} => sender'.message = sender.message
    PROVE  SendInv'
  BY DEF SendInv

LEMMA NextSend ==
    ASSUME TypeInv, OpenInv, SendInv, RecvInv, CassetteInv, ServeInv, [Next]_vars
    PROVE  SendInv'
<1>1. Idle.at = "idle"
  BY DEF Idle
<1>2. /\ IsSeq(Sends) /\ IsSeq(live.wire) /\ IsSeq(Was.sends)
      /\ Len(Sends) \in Nat /\ Len(live.wire) \in Nat /\ Len(Was.sends) \in Nat
  BY SendLengths
<1>3. ASSUME NEW opened \in BOOLEAN, NewRecordStream(opened) PROVE SendInv'
  <2>1. /\ finished' = finished /\ Sends' = Sends /\ live' = live
        /\ sender' = sender /\ Was' = Was
    BY <1>3, NewRecordStreamEffect DEF Was
  <2> QED
    BY <2>1, SendFrame
<1>4. ASSUME NEW m \in Messages, SendMsg(m) PROVE SendInv'
  <2>1. /\ finished' = finished /\ Sends' = Sends /\ live' = live
        /\ sender = Idle /\ sender'.at = "send" /\ sender'.message = m
        /\ Was'.sends = Append(Was.sends, m)
    BY <1>4, SendMsgEffect
  <2>2. PICK n : n = Len(Was.sends) /\ n \in Nat
    BY <1>2
  <2>3. /\ Len(Was'.sends) = n + 1 /\ Was'.sends[n + 1] = m
        /\ \A i \in 1 .. n : Was'.sends[i] = Was.sends[i]
    BY <1>2, <2>1, <2>2, AppendFacts
  <2>4. sender.at = "idle"
    BY <1>1, <2>1
  <2>5. \A i \in 1 .. Len(live.wire) : i \in 1 .. n
    BY <1>2, <2>2 DEF SendInv
  <2>6. \A i \in 1 .. Len(live.wire) : live.wire[i] = Was'.sends[i]
    BY <2>3, <2>5 DEF SendInv
  <2> QED
    BY <1>2, <2>1, <2>2, <2>3, <2>4, <2>6 DEF SendInv
<1>5. ASSUME NEW ok \in BOOLEAN, LiveSendMsg(ok) PROVE SendInv'
  <2>1. /\ finished' = finished /\ Sends' = Sends /\ Was' = Was
        /\ sender.at = "send"
        /\ \/ /\ ok /\ ~live.done /\ live'.done = live.done
              /\ live'.wire = Append(live.wire, sender.message)
              /\ sender'.at = "sent" /\ sender'.message = sender.message
           \/ /\ ~ok /\ live'.done = TRUE /\ live'.wire = live.wire
              /\ sender' = Idle
    BY <1>5, LiveSendMsgEffect DEF SameRec, SameWire, Was
  <2>2. CASE ok
    <3>1. /\ ~live.done /\ live'.done = live.done
          /\ live'.wire = Append(live.wire, sender.message)
          /\ sender'.at = "sent" /\ sender'.message = sender.message
      BY <2>1, <2>2
    <3>2. PICK n : n = Len(live.wire) /\ n \in Nat
      BY <1>2
    <3>3. /\ Len(live'.wire) = n + 1 /\ live'.wire[n + 1] = sender.message
          /\ \A i \in 1 .. n : live'.wire[i] = live.wire[i]
      BY <1>2, <3>1, <3>2, AppendFacts
    <3>4. Len(Was.sends) = n + 1 /\ Was.sends[n + 1] = sender.message
      BY <2>1, <3>1, <3>2 DEF SendInv
    <3>5. ~finished /\ Len(Sends) = n
      BY <2>1, <3>1, <3>2 DEF SendInv
    <3>6. \A i \in 1 .. n + 1 : live'.wire[i] = Was.sends[i]
      <4> SUFFICES ASSUME NEW i \in 1 .. n + 1 PROVE live'.wire[i] = Was.sends[i]
        OBVIOUS
      <4>1. CASE i = n + 1
        BY <3>3, <3>4, <4>1
      <4>2. CASE i # n + 1
        <5>1. i \in 1 .. n
          BY <3>2, <4>2
        <5> QED
          BY <3>2, <3>3, <5>1 DEF SendInv
      <4> QED
        BY <4>1, <4>2
    <3>7. \A i \in 1 .. n : Sends[i].message = Scrub[live'.wire[i]]
      BY <3>3, <3>5 DEF SendInv
    <3>8. n + 1 > 0 /\ n = n + 1 - 1 /\ n + 1 = n + 1 + 0
      BY <3>2
    <3> QED
      BY <2>1, <3>1, <3>3, <3>4, <3>5, <3>6, <3>7, <3>8 DEF SendInv
  <2>3. CASE ~ok
    <3>1. /\ live'.done = TRUE /\ live'.wire = live.wire /\ sender'.at = "idle"
      BY <1>1, <2>1, <2>3
    <3> QED
      BY <2>1, <3>1 DEF SendInv
  <2> QED
    BY <2>2, <2>3
<1>6. ASSUME NoteSend PROVE SendInv'
  <2>1. /\ finished' = finished /\ live' = live /\ calls' = calls
        /\ sender.at = "sent" /\ sender' = Idle
        /\ finished => Sends' = Sends
        /\ ~finished => Sends' = Append(Sends,
                             StreamFrame(rec.seq, Scrub[sender.message]))
    BY <1>6, NoteSendEffect
  <2>2. sender'.at = "idle" /\ Was' = Was
    BY <1>1, <2>1 DEF Was
  <2>3. CASE finished
    BY <2>1, <2>2, <2>3 DEF SendInv
  <2>4. CASE ~finished
    <3>1. PICK n : n = Len(Sends) /\ n \in Nat
      BY <1>2
    <3>2. PICK f : f = StreamFrame(rec.seq, Scrub[sender.message])
      OBVIOUS
    <3>3. f.message = Scrub[sender.message]
      BY <3>2 DEF StreamFrame
    <3>4. Len(live.wire) = n + 1 /\ sender.message = live.wire[n + 1]
      BY <1>2, <2>1, <2>4, <3>1 DEF SendInv
    <3>5. /\ Len(Sends') = n + 1 /\ Sends'[n + 1] = f
          /\ \A i \in 1 .. n : Sends'[i] = Sends[i]
      <4>1. Sends' = Append(Sends, f)
        BY <2>1, <2>4, <3>2
      <4> QED
        BY <1>2, <3>1, <4>1, AppendFacts
    <3>6. \A i \in 1 .. n + 1 : Sends'[i].message = Scrub[live.wire[i]]
      <4> SUFFICES ASSUME NEW i \in 1 .. n + 1
                   PROVE  Sends'[i].message = Scrub[live.wire[i]]
        OBVIOUS
      <4>1. CASE i = n + 1
        BY <3>3, <3>4, <3>5, <4>1
      <4>2. CASE i # n + 1
        <5>1. i \in 1 .. n
          BY <3>1, <4>2
        <5> QED
          BY <3>1, <3>5, <5>1 DEF SendInv
      <4> QED
        BY <4>1, <4>2
    <3>7. n + 1 = n + 1 - 0
      BY <3>1
    <3> QED
      BY <2>1, <2>2, <2>4, <3>4, <3>5, <3>6, <3>7 DEF SendInv
  <2> QED
    BY <2>3, <2>4
<1>7. ASSUME NEW ok \in BOOLEAN, CloseSend(ok) PROVE SendInv'
  <2>1. /\ finished' = finished /\ Sends' = Sends /\ live'.wire = live.wire
        /\ live'.done = live.done /\ Was'.sends = Was.sends
        /\ sender = Idle /\ sender'.at \in {"idle", "closed"}
    BY <1>7, CloseSendEffect DEF SameRec, SameWire
  <2> QED
    BY <1>1, <2>1, SendFrame
<1>8. ASSUME NoteHalfClose PROVE SendInv'
  <2>1. /\ finished' = finished /\ Sends' = Sends /\ live' = live
        /\ Was' = Was /\ sender.at = "closed" /\ sender' = Idle
    BY <1>8, NoteHalfCloseEffect DEF Was
  <2> QED
    BY <1>1, <2>1, SendFrame
<1>9. ASSUME RecvMsg PROVE SendInv'
  <2>1. /\ finished' = finished /\ Sends' = Sends /\ live'.wire = live.wire
        /\ Was' = Was /\ sender' = sender
        /\ live.done => live'.done
    BY <1>9, RecvMsgEffect DEF SameRec, SameWire, Was
  <2> QED
    BY <2>1, SendFrame
<1>10. ASSUME NoteRecv PROVE SendInv'
  <2>1. /\ finished' = finished /\ Sends' = Sends /\ live' = live
        /\ Was'.sends = Was.sends /\ sender' = sender
    BY <1>10, NoteRecvEffect
  <2> QED
    BY <2>1, SendFrame
<1>11. ASSUME NEW saved \in BOOLEAN, FinishStream(saved) PROVE SendInv'
  <2>1. /\ Sends' = Sends /\ live' = live /\ receiver.at = "end"
        /\ Was'.sends = Was.sends /\ sender' = sender
        /\ finished' = finished \/ (~finished /\ finished' = TRUE)
    BY <1>11, FinishStreamEffect
  <2>2. live.done
    BY <2>1 DEF RecvInv, Drained
  <2>3. CASE finished' = finished
    BY <2>1, <2>3, SendFrame
  <2>4. CASE ~finished /\ finished' = TRUE
    <3>1. Len(Sends) \in {Len(live.wire) - 1, Len(live.wire)}
      BY <1>2, <2>4 DEF SendInv
    <3> QED
      BY <2>1, <2>2, <2>4, <3>1 DEF SendInv
  <2> QED
    BY <2>1, <2>3, <2>4
<1>12. ASSUME NEW m \in Messages, ServerSends(m) PROVE SendInv'
  <2>1. /\ finished' = finished /\ Sends' = Sends /\ live'.wire = live.wire
        /\ live'.done = live.done /\ Was' = Was /\ sender' = sender
    BY <1>12, ServerSendsEffect DEF SameRec, SameWire, Was
  <2> QED
    BY <2>1, SendFrame
<1>13. ASSUME NEW m \in Messages, NEW code \in Codes \cup {"EOF"}, ServerEnds(code, m)
       PROVE  SendInv'
  <2>1. /\ finished' = finished /\ Sends' = Sends /\ live'.wire = live.wire
        /\ live'.done = live.done /\ Was' = Was /\ sender' = sender
    BY <1>13, ServerEndsEffect DEF SameRec, SameWire, Was
  <2> QED
    BY <2>1, SendFrame
<1>14. ASSUME ReplayStep PROVE SendInv'
  <2>1. /\ finished' = finished /\ Sends' = Sends /\ live' = live
        /\ Was' = Was /\ sender' = sender
    BY <1>14, ReplayStepEffect DEF SameRec
  <2> QED
    BY <2>1, SendFrame
<1>15. ASSUME UNCHANGED vars PROVE SendInv'
  <2>1. /\ finished' = finished /\ Sends' = Sends /\ live' = live
        /\ Was' = Was /\ sender' = sender
    BY <1>15 DEF vars, Sends, Was
  <2> QED
    BY <2>1, SendFrame
<1> QED
  BY <1>3, <1>4, <1>5, <1>6, <1>7, <1>8, <1>9, <1>10, <1>11, <1>12, <1>13, <1>14,
     <1>15 DEF Next, SenderStep, ReceiverStep, ServerStep

-----------------------------------------------------------------------------
(***************************************************************************)
(* RecvInv.                                                                *)
(***************************************************************************)
LEMMA InitRecv == Init => RecvInv
<1> SUFFICES ASSUME Init PROVE RecvInv
  OBVIOUS
<1>1. /\ Recvs = << >> /\ live.outbox = << >> /\ Was.got = << >>
      /\ receiver.at = "idle" /\ finished = FALSE
  BY TheRuns DEF Init, Recvs, Was, Idle
<1>2. Len(<< >>) = 0 /\ ~Pending
  BY <1>1 DEF Pending
<1>3. Handed = 0
  BY <1>1, <1>2 DEF Handed
<1> QED
  BY <1>1, <1>2, <1>3 DEF RecvInv

\* The lengths are numbers.
LEMMA RecvLengths ==
    ASSUME TypeInv
    PROVE  /\ IsSeq(Recvs) /\ IsSeq(live.outbox) /\ IsSeq(Was.got)
           /\ Len(Recvs) \in Nat /\ Len(live.outbox) \in Nat /\ Len(Was.got) \in Nat
<1>1. Recvs \in Seq(Frames)
  <2>1. CASE rec = NoRecording
    BY <2>1 DEF Recvs
  <2>2. CASE rec # NoRecording
    BY <2>2, RecTyped, RecordingFields DEF Recvs, Fields
  <2> QED
    BY <2>1, <2>2
<1>2. live.outbox \in Seq(Messages) /\ Was.got \in Seq(Results)
  BY LiveTyped, CallsTyped, HistoryTyped DEF TypeInv
<1>3. IsSeq(Recvs)
  BY <1>1 DEF IsSeq
<1>4. IsSeq(live.outbox)
  BY <1>2 DEF IsSeq
<1>5. IsSeq(Was.got)
  BY <1>2 DEF IsSeq
<1> QED
  BY <1>1, <1>2, <1>3, <1>4, <1>5

\* Steps that leave the reads alone.
LEMMA RecvFrame ==
    ASSUME RecvInv, typ' = typ, finished' = finished, Recvs' = Recvs,
           receiver' = receiver, live'.outbox = live.outbox, live'.end = live.end,
           live.done => live'.done, Was'.got = Was.got,
           rec # NoRecording => rec' # NoRecording
    PROVE  RecvInv'
<1>1. /\ Pending' <=> Pending
      /\ Drained => Drained'
  BY DEF Pending, Drained
<1>2. Handed' = Handed
  BY <1>1 DEF Handed
<1> QED
  BY <1>1, <1>2 DEF RecvInv

\* A message was taken off the live stream: nothing was finished before.
LEMMA RecvMsgRecv ==
    ASSUME TypeInv, OpenInv, RecvInv, RecvMsg
    PROVE  RecvInv'
<1>1. /\ typ' = typ /\ finished' = finished /\ Recvs' = Recvs /\ rec' = rec
      /\ Was' = Was /\ receiver = Idle /\ live'.end = live.end
      /\ \/ /\ live.outbox # << >> /\ live'.outbox = Tail(live.outbox)
            /\ receiver'.at = "got"
            /\ live'.done = (live.done \/ typ = "client")
         \/ /\ live.outbox = << >> /\ live'.outbox = << >>
            /\ live.end # "open" /\ live'.done = TRUE
            /\ receiver'.at = "end" /\ receiver'.result = Terminal(live.end)
  BY RecvMsgEffect DEF SameReplay, SameRec, Was
<1>2. receiver.at = "idle" /\ ~Pending
  BY <1>1 DEF Idle, Pending
<1>3. /\ IsSeq(live.outbox) /\ Len(Recvs) \in Nat /\ Len(Was.got) \in Nat
      /\ Len(live.outbox) \in Nat
  BY RecvLengths
<1>4. Handed = Len(Recvs)
  BY <1>2, <1>3 DEF Handed
<1>5. ~Pending'
  BY <1>1 DEF Pending, Terminal
<1>6. Handed' = Handed
  BY <1>1, <1>3, <1>4, <1>5 DEF Handed
<1>7. CASE live.outbox # << >>
  <2>1. ~Drained
    BY <1>7 DEF Drained
  <2>2. ~finished /\ Len(Was.got) = Handed /\ rec # NoRecording
    BY <1>2, <1>7, <2>1 DEF RecvInv, OpenInv
  <2>3. typ = "client" => live.end = "EOF" /\ Len(live.outbox) = 1
    BY <1>7 DEF RecvInv
  <2>4. typ = "client" => live'.outbox = << >>
    BY <1>1, <1>3, <1>7, <2>3, TailFacts
  <2>5. receiver'.at = "got" /\ (typ = "client" => live'.done)
    BY <1>1, <1>7
  <2>6. /\ typ' = typ /\ finished' = finished /\ Recvs' = Recvs /\ rec' = rec
        /\ Was' = Was /\ live'.end = live.end
    BY <1>1
  <2>7. Handed # Handed + 1
    BY <1>3, <1>4
  <2> QED
    BY <1>5, <1>6, <2>2, <2>3, <2>4, <2>5, <2>6, <2>7 DEF RecvInv
<1>8. CASE live.outbox = << >>
  <2>1. /\ live'.outbox = << >> /\ live.end # "open" /\ live'.done = TRUE
        /\ receiver'.at = "end" /\ receiver'.result = Terminal(live.end)
    BY <1>1, <1>8
  <2>2. Drained'
    BY <1>1, <2>1 DEF Drained
  <2> QED
    BY <1>1, <1>3, <1>4, <1>5, <1>6, <2>1, <2>2 DEF RecvInv
<1> QED
  BY <1>7, <1>8

\* The message is recorded; but for a client stream it is handed over too.
LEMMA NoteRecvRecv ==
    ASSUME TypeInv, OpenInv, RecvInv, NoteRecv
    PROVE  RecvInv'
<1>1. PICK m, f : /\ m = receiver.message
                  /\ f = StreamFrame(rec.seq, Scrub[receiver.message])
  OBVIOUS
<1>2. /\ typ' = typ /\ finished' = finished /\ ~finished /\ live' = live
      /\ receiver.at = "got" /\ rec' # NoRecording
      /\ Recvs' = Append(Recvs, f)
      /\ \/ /\ typ = "client" /\ Was'.got = Was.got /\ receiver'.at = "end"
            /\ receiver'.result = Message(m)
         \/ /\ typ # "client" /\ receiver' = Idle
            /\ Was'.got = Append(Was.got, Message(m))
  BY <1>1, NoteRecvEffect DEF SameReplay
<1>3. f.message = Scrub[m]
  BY <1>1 DEF StreamFrame
<1>4. /\ IsSeq(Recvs) /\ Len(Recvs) \in Nat /\ IsSeq(Was.got)
  BY RecvLengths
<1>5. PICK n : n = Len(Recvs) /\ n \in Nat
  BY <1>4
<1>6. /\ Len(Recvs') = n + 1 /\ Recvs'[n + 1] = f
      /\ \A i \in 1 .. n : Recvs'[i] = Recvs[i]
  BY <1>2, <1>4, <1>5, AppendFacts
<1>7. ~Pending
  BY <1>2 DEF Pending
<1>8. Handed = n
  BY <1>5, <1>7 DEF Handed
<1>9. Len(Was.got) = n
  BY <1>2, <1>8 DEF RecvInv
<1>10. \A i \in 1 .. n : /\ Was.got[i][1] = "message"
                         /\ Scrub[Was.got[i][2]] = Recvs'[i].message
  BY <1>6, <1>8 DEF RecvInv
<1>11. Message(m)[1] = "message" /\ Message(m)[2] = m
  BY DEF Message
<1>12. CASE typ = "client"
  <2>1. Was'.got = Was.got /\ receiver'.at = "end" /\ receiver'.result = Message(m)
    BY <1>2, <1>12
  <2>2. Pending'
    BY <1>11, <2>1 DEF Pending
  <2>3. Handed' = n
    BY <1>5, <1>6, <2>2 DEF Handed
  <2>4. live.end = "EOF" /\ live.outbox = << >> /\ live.done
    BY <1>2, <1>12 DEF RecvInv
  <2>5. Drained'
    BY <1>2, <2>4 DEF Drained
  <2>6. Len(Was'.got) = n /\ n >= 0 /\ n # n + 1
    BY <1>5, <1>9, <2>1
  <2>7. \A i \in 1 .. n : /\ Was'.got[i][1] = "message"
                          /\ Scrub[Was'.got[i][2]] = Recvs'[i].message
    BY <1>10, <2>1
  <2>8. Scrub[receiver'.result[2]] = Recvs'[Len(Recvs')].message
    BY <1>3, <1>6, <1>11, <2>1
  <2> QED
    BY <1>2, <2>1, <2>2, <2>3, <2>4, <2>5, <2>6, <2>7, <2>8 DEF RecvInv
<1>13. CASE typ # "client"
  <2>1. receiver' = Idle /\ Was'.got = Append(Was.got, Message(m))
    BY <1>2, <1>13
  <2>2. receiver'.at = "idle"
    BY <2>1 DEF Idle
  <2>3. ~Pending'
    BY <2>2 DEF Pending
  <2>4. Handed' = n + 1
    BY <1>5, <1>6, <2>3 DEF Handed
  <2>5. /\ Len(Was'.got) = n + 1 /\ Was'.got[n + 1] = Message(m)
        /\ \A i \in 1 .. n : Was'.got[i] = Was.got[i]
    BY <1>4, <1>9, <2>1, AppendFacts
  <2>6. \A i \in 1 .. n + 1 : /\ Was'.got[i][1] = "message"
                              /\ Scrub[Was'.got[i][2]] = Recvs'[i].message
    <3> SUFFICES ASSUME NEW i \in 1 .. n + 1
                 PROVE  /\ Was'.got[i][1] = "message"
                        /\ Scrub[Was'.got[i][2]] = Recvs'[i].message
      OBVIOUS
    <3>1. CASE i = n + 1
      BY <1>3, <1>6, <1>11, <2>5, <3>1
    <3>2. CASE i # n + 1
      <4>1. i \in 1 .. n
        BY <1>5, <3>2
      <4> QED
        BY <1>10, <2>5, <4>1
    <3> QED
      BY <3>1, <3>2
  <2>7. n + 1 >= 0 /\ n + 1 # n + 1 + 1
    BY <1>5
  <2> QED
    BY <1>2, <1>13, <2>2, <2>3, <2>4, <2>5, <2>6, <2>7 DEF RecvInv
<1> QED
  BY <1>12, <1>13

\* The terminal, or the response of a client stream, is handed over.
LEMMA FinishStreamRecv ==
    ASSUME TypeInv, OpenInv, RecvInv, NEW saved \in BOOLEAN, FinishStream(saved)
    PROVE  RecvInv'
<1>1. PICK r : r = receiver.result
  OBVIOUS
<1>2. /\ typ' = typ /\ live' = live /\ receiver.at = "end" /\ receiver' = Idle
      /\ Recvs' = Recvs
      /\ IF Ended("record") THEN Was'.got = Was.got
         ELSE Was'.got = Append(Was.got, r)
  BY <1>1, FinishStreamEffect DEF SameReplay
<1>3. receiver'.at = "idle"
  BY <1>2 DEF Idle
<1>4. Drained /\ Drained'
  BY <1>2 DEF RecvInv, Drained
<1>5. ~Pending'
  BY <1>3 DEF Pending
<1>6. /\ IsSeq(Recvs) /\ Len(Recvs) \in Nat /\ IsSeq(Was.got) /\ Len(Was.got) \in Nat
  BY RecvLengths
<1>7. PICK n, h : n = Len(Recvs) /\ n \in Nat /\ h = Handed
  BY <1>6
<1>8. Handed' = n
  BY <1>2, <1>5, <1>7 DEF Handed
<1>9. DOMAIN Was.got = 1 .. Len(Was.got)
  BY <1>6, AppendFacts
<1>10. h >= 0 /\ h = IF Pending THEN n - 1 ELSE n
  BY <1>7 DEF RecvInv, Handed
<1>11. h \in Nat
  BY <1>7, <1>10
<1>12. \A i \in 1 .. h : /\ Was.got[i][1] = "message"
                         /\ Scrub[Was.got[i][2]] = Recvs[i].message
  BY <1>7 DEF RecvInv
<1>13. Len(Was.got) = h \/ (Len(Was.got) = h + 1 /\ Was.got[h + 1] = Terminal(live.end))
  BY <1>7 DEF RecvInv
<1>14. Ended("record") <=> Len(Was.got) = h + 1
  <2>1. ASSUME Len(Was.got) = h + 1 PROVE Ended("record")
    <3>1. h + 1 \in DOMAIN Was.got /\ Was.got[h + 1] = Terminal(live.end)
      BY <1>9, <1>11, <1>13, <2>1
    <3>2. Was.got[h + 1][1] = "terminal"
      BY <3>1 DEF Terminal
    <3> QED
      BY <3>1, <3>2 DEF Ended, Was
  <2>2. ASSUME Ended("record"), Len(Was.got) = h PROVE FALSE
    <3>1. PICK i \in DOMAIN Was.got : Was.got[i][1] = "terminal"
      BY <2>2 DEF Ended, Was
    <3>2. i \in 1 .. h
      BY <1>9, <2>2
    <3> QED
      BY <1>12, <3>1, <3>2
  <2> QED
    BY <1>11, <1>13, <2>1, <2>2
<1>15. CASE Pending
  <2>1. /\ Len(Was.got) = h /\ Scrub[r[2]] = Recvs[n].message
        /\ r[1] = "message" /\ n = h + 1
    BY <1>1, <1>7, <1>10, <1>15 DEF RecvInv, Pending
  <2>2. Was'.got = Append(Was.got, r)
    BY <1>2, <1>11, <1>14, <2>1
  <2>3. /\ Len(Was'.got) = h + 1 /\ Was'.got[h + 1] = r
        /\ \A i \in 1 .. h : Was'.got[i] = Was.got[i]
    BY <1>6, <2>1, <2>2, AppendFacts
  <2>4. \A i \in 1 .. n : /\ Was'.got[i][1] = "message"
                          /\ Scrub[Was'.got[i][2]] = Recvs'[i].message
    <3> SUFFICES ASSUME NEW i \in 1 .. h + 1
                 PROVE  /\ Was'.got[i][1] = "message"
                        /\ Scrub[Was'.got[i][2]] = Recvs[i].message
      BY <1>2, <2>1
    <3>1. CASE i = h + 1
      BY <2>1, <2>3, <3>1
    <3>2. CASE i # h + 1
      <4>1. i \in 1 .. h
        BY <1>11, <3>2
      <4> QED
        BY <1>12, <2>3, <4>1
    <3> QED
      BY <3>1, <3>2
  <2>5. n >= 0 /\ n # n + 1 /\ Len(Was'.got) = n
    BY <1>7, <2>1, <2>3
  <2>6. typ' = "client" => live'.outbox = << >>
    BY <1>4 DEF Drained
  <2> QED
    BY <1>3, <1>4, <1>5, <1>8, <2>4, <2>5, <2>6 DEF RecvInv
<1>16. CASE ~Pending
  <2>1. h = n /\ r = Terminal(live.end)
    BY <1>1, <1>2, <1>10, <1>16 DEF RecvInv
  <2>2. /\ Len(Was'.got) = n + 1 /\ Was'.got[n + 1] = Terminal(live.end)
        /\ \A i \in 1 .. n : Was'.got[i] = Was.got[i]
    <3>1. CASE Len(Was.got) = h + 1
      BY <1>2, <1>13, <1>14, <2>1, <3>1
    <3>2. CASE Len(Was.got) # h + 1
      <4>1. Len(Was.got) = n /\ Was'.got = Append(Was.got, r)
        BY <1>2, <1>13, <1>14, <2>1, <3>2
      <4> QED
        BY <1>6, <2>1, <4>1, AppendFacts
    <3> QED
      BY <3>1, <3>2
  <2>3. \A i \in 1 .. n : /\ Was'.got[i][1] = "message"
                          /\ Scrub[Was'.got[i][2]] = Recvs'[i].message
    BY <1>2, <1>12, <2>1, <2>2
  <2>4. n >= 0 /\ live'.end = live.end
    BY <1>2, <1>7
  <2>5. typ' = "client" => live'.outbox = << >>
    BY <1>4 DEF Drained
  <2> QED
    BY <1>3, <1>4, <1>5, <1>8, <2>2, <2>3, <2>4, <2>5 DEF RecvInv
<1> QED
  BY <1>15, <1>16

LEMMA ServerRecv ==
    ASSUME TypeInv, OpenInv, RecvInv, ServerStep
    PROVE  RecvInv'
<1>1. ASSUME live.end = "open", receiver' = receiver, finished' = finished,
             typ' = typ, Recvs' = Recvs, rec' = rec, Was' = Was,
             typ = "client" => /\ live'.outbox = << >> \/ live'.end = "EOF"
                               /\ live'.outbox # << >> => Len(live'.outbox) = 1
      PROVE  RecvInv'
  <2>1. ~Drained
    BY <1>1 DEF Drained
  <2>2. /\ ~finished /\ receiver.at # "end" /\ Len(Was.got) = Handed
        /\ typ = "client" => receiver.at # "got"
    BY <1>1, <2>1 DEF RecvInv
  <2>3. ~Pending /\ ~Pending'
    BY <1>1, <2>2 DEF Pending
  <2>4. Handed' = Handed
    BY <1>1, <2>3 DEF Handed
  <2>5. Handed # Handed + 1
    BY <2>2, RecvLengths
  <2> QED
    BY <1>1, <2>2, <2>3, <2>4, <2>5 DEF RecvInv
<1>2. ASSUME NEW m \in Messages, ServerSends(m) PROVE RecvInv'
  <2>1. /\ live.end = "open" /\ receiver' = receiver /\ finished' = finished
        /\ typ' = typ /\ Recvs' = Recvs /\ rec' = rec /\ Was' = Was
        /\ typ # "client"
    BY <1>2, ServerSendsEffect DEF SameReplay, SameRec, Was
  <2> QED
    BY <1>1, <2>1
<1>3. ASSUME NEW m \in Messages, NEW code \in Codes \cup {"EOF"}, ServerEnds(code, m)
      PROVE  RecvInv'
  <2>1. /\ live.end = "open" /\ receiver' = receiver /\ finished' = finished
        /\ typ' = typ /\ Recvs' = Recvs /\ rec' = rec /\ Was' = Was
        /\ live'.end = code
        /\ typ = "client" => live'.outbox = IF code = "EOF" THEN <<m>> ELSE << >>
    BY <1>3, ServerEndsEffect DEF SameReplay, SameRec, Was
  <2>2. Len(<<m>>) = 1
    OBVIOUS
  <2>3. typ = "client" => /\ live'.outbox = << >> \/ live'.end = "EOF"
                          /\ live'.outbox # << >> => Len(live'.outbox) = 1
    BY <2>1, <2>2
  <2> QED
    BY <1>1, <2>1, <2>3
<1> QED
  BY <1>2, <1>3 DEF ServerStep

LEMMA NextRecv ==
    ASSUME TypeInv, OpenInv, RecvInv, CassetteInv, ServeInv, [Next]_vars
    PROVE  RecvInv'
<1>1. ASSUME NEW opened \in BOOLEAN, NewRecordStream(opened) PROVE RecvInv'
  <2>1. /\ typ' = typ /\ finished' = finished /\ Recvs' = Recvs /\ live' = live
        /\ receiver' = receiver /\ Was' = Was /\ rec = NoRecording
    BY <1>1, NewRecordStreamEffect DEF Was
  <2> QED
    BY <2>1, RecvFrame
<1>2. ASSUME SenderStep PROVE RecvInv'
  <2>1. ASSUME NEW m \in Messages, SendMsg(m) PROVE RecvInv'
    BY <2>1, SendMsgEffect, RecvFrame DEF SameReplay
  <2>2. ASSUME NEW ok \in BOOLEAN, LiveSendMsg(ok) PROVE RecvInv'
    <3>1. live.done => live'.done
      BY <2>2, LiveSendMsgEffect
    <3> QED
      BY <2>2, <3>1, LiveSendMsgEffect, RecvFrame DEF SameReplay, SameRec, SameInbound, Was
  <2>3. ASSUME NEW ok \in BOOLEAN, CloseSend(ok) PROVE RecvInv'
    BY <2>3, CloseSendEffect, RecvFrame DEF SameReplay, SameRec, SameInbound
  <2>4. ASSUME NoteSend PROVE RecvInv'
    BY <2>4, NoteSendEffect, RecvFrame DEF SameReplay, Was
  <2>5. ASSUME NoteHalfClose PROVE RecvInv'
    BY <2>5, NoteHalfCloseEffect, RecvFrame DEF SameReplay, Was
  <2> QED
    BY <1>2, <2>1, <2>2, <2>3, <2>4, <2>5 DEF SenderStep
<1>3. ASSUME ReplayStep PROVE RecvInv'
  BY <1>3, ReplayStepEffect, RecvFrame DEF SameRec
<1>4. ASSUME UNCHANGED vars PROVE RecvInv'
  <2>1. /\ typ' = typ /\ finished' = finished /\ Recvs' = Recvs /\ live' = live
        /\ receiver' = receiver /\ Was' = Was /\ rec' = rec
    BY <1>4 DEF vars, Recvs, Was
  <2> QED
    BY <2>1, RecvFrame
<1> QED
  BY <1>1, <1>2, <1>3, <1>4, RecvMsgRecv, NoteRecvRecv, FinishStreamRecv, ServerRecv
     DEF Next, ReceiverStep

-----------------------------------------------------------------------------
(***************************************************************************)
(* CassetteInv.                                                            *)
(***************************************************************************)
LEMMA InitCassette == Init => CassetteInv
<1> SUFFICES ASSUME Init PROVE CassetteInv
  OBVIOUS
<1>1. DOMAIN cassette = {}
  BY DEF Init
<1> QED
  BY <1>1 DEF CassetteInv

\* Until finish there is nothing to keep; after it, nothing changes.
LEMMA CassetteFrame ==
    ASSUME CassetteInv, cassette' = cassette, finished' = finished,
           finished => rec' = rec /\ key' = key /\ live'.end = live.end
    PROVE  CassetteInv'
<1>1. CASE finished
  BY <1>1 DEF CassetteInv
<1>2. CASE ~finished
  <2>1. DOMAIN cassette' = {}
    BY <1>2 DEF CassetteInv
  <2> QED
    BY <2>1 DEF CassetteInv
<1> QED
  BY <1>1, <1>2

LEMMA FinishStreamCassette ==
    ASSUME TypeInv, OpenInv, RecvInv, CassetteInv,
           NEW saved \in BOOLEAN, FinishStream(saved)
    PROVE  CassetteInv'
<1>1. PICK r : r = receiver.result
  OBVIOUS
<1>2. PICK file : file = [pair |-> RecordedPair(rec'), code |-> TerminalCode(r)]
  OBVIOUS
<1>3. /\ key' = key /\ live' = live /\ receiver.at = "end"
      /\ rec' = NoRecording <=> rec = NoRecording
      /\ IF finished \/ rec = NoRecording
         THEN rec' = rec /\ finished' = finished /\ cassette' = cassette
         ELSE /\ finished' = TRUE
              /\ rec'.err = (r[1] = "terminal" /\ r[2] # "EOF")
              /\ \/ cassette' = cassette
                 \/ cassette' = WriteFile(cassette, key, file)
  BY <1>1, <1>2, FinishStreamEffect
<1>4. CASE finished \/ rec = NoRecording
  <2>1. /\ rec' = rec /\ finished' = finished /\ cassette' = cassette
        /\ live'.end = live.end
    BY <1>3, <1>4
  <2> QED
    BY <1>3, <2>1, CassetteFrame
<1>5. CASE ~(finished \/ rec = NoRecording)
  <2>1. finished' /\ rec' # NoRecording
    BY <1>3, <1>5
  <2>2. DOMAIN cassette = {}
    BY <1>5 DEF CassetteInv
  <2>3. CASE cassette' = cassette
    BY <2>2, <2>3 DEF CassetteInv
  <2>4. CASE cassette' = WriteFile(cassette, key, file)
    <3>1. DOMAIN cassette' = {key} /\ cassette'[key] = file
      BY <2>2, <2>4 DEF WriteFile
    <3>2. /\ TerminalCode(r) = TerminalCode(Terminal(live.end))
          /\ r[1] = "terminal" /\ r[2] # "EOF" <=> live.end # "EOF"
      <4>1. CASE Pending
        <5>1. r[1] = "message" /\ live.end = "EOF"
          BY <1>1, <4>1 DEF RecvInv, Pending
        <5> QED
          BY <5>1 DEF TerminalCode, Terminal
      <4>2. CASE ~Pending
        <5>1. r = Terminal(live.end)
          BY <1>1, <1>3, <4>2 DEF RecvInv
        <5> QED
          BY <5>1 DEF Terminal
      <4> QED
        BY <4>1, <4>2
    <3>3. /\ cassette'[key].pair = RecordedPair(rec')
          /\ cassette'[key].code = TerminalCode(Terminal(live.end))
      BY <1>2, <3>1, <3>2
    <3>4. rec'.err = (live.end # "EOF")
      BY <1>3, <1>5, <3>2
    <3> QED
      BY <1>3, <2>1, <3>1, <3>3, <3>4 DEF CassetteInv, RecordedPair
  <2> QED
    BY <1>3, <1>5, <2>3, <2>4
<1> QED
  BY <1>4, <1>5

LEMMA NextCassette ==
    ASSUME TypeInv, OpenInv, RecvInv, CassetteInv, ServeInv, [Next]_vars
    PROVE  CassetteInv'
<1>1. rec = NoRecording => ~finished
  BY RecTyped
<1>2. ASSUME NEW opened \in BOOLEAN, NewRecordStream(opened) PROVE CassetteInv'
  BY <1>1, <1>2, NewRecordStreamEffect, CassetteFrame
<1>3. ASSUME NEW m \in Messages, SendMsg(m) PROVE CassetteInv'
  <2>1. /\ cassette' = cassette /\ finished' = finished /\ live' = live
        /\ rec # NoRecording => rec' = rec /\ key' = key
    BY <1>3, SendMsgEffect
  <2> QED
    BY <1>1, <2>1, CassetteFrame
<1>4. ASSUME NEW ok \in BOOLEAN, LiveSendMsg(ok) PROVE CassetteInv'
  <2>1. SameRec /\ live'.end = live.end
    BY <1>4, LiveSendMsgEffect DEF SameInbound
  <2> QED
    BY <2>1, CassetteFrame DEF SameRec
<1>5. ASSUME NEW ok \in BOOLEAN, CloseSend(ok) PROVE CassetteInv'
  BY <1>5, CloseSendEffect, CassetteFrame DEF SameRec, SameInbound
<1>6. ASSUME NoteSend PROVE CassetteInv'
  BY <1>6, NoteSendEffect, CassetteFrame
<1>7. ASSUME NoteHalfClose PROVE CassetteInv'
  BY <1>7, NoteHalfCloseEffect, CassetteFrame
<1>8. ASSUME RecvMsg PROVE CassetteInv'
  <2>1. SameRec /\ live'.end = live.end
    BY <1>8, RecvMsgEffect
  <2> QED
    BY <2>1, CassetteFrame DEF SameRec
<1>9. ASSUME NoteRecv PROVE CassetteInv'
  BY <1>9, NoteRecvEffect, CassetteFrame
<1>10. ASSUME ServerStep PROVE CassetteInv'
  <2>1. live.end = "open" /\ SameRec
    BY <1>10, ServerSendsEffect, ServerEndsEffect DEF ServerStep
  <2>2. ~finished
    BY <2>1 DEF RecvInv, Drained
  <2> QED
    BY <2>1, <2>2, CassetteFrame DEF SameRec
<1>11. ASSUME ReplayStep PROVE CassetteInv'
  BY <1>11, ReplayStepEffect, CassetteFrame DEF SameRec
<1>12. ASSUME UNCHANGED vars PROVE CassetteInv'
  BY <1>12, CassetteFrame DEF vars
<1> QED
  BY <1>2, <1>3, <1>4, <1>5, <1>6, <1>7, <1>8, <1>9, <1>10, <1>11, <1>12,
     FinishStreamCassette DEF Next, SenderStep, ReceiverStep

-----------------------------------------------------------------------------
(***************************************************************************)
(* ServeInv and NoServeInv.                                                *)
(***************************************************************************)
LEMMA InitServe == Init => ServeInv /\ NoServeInv
<1> SUFFICES ASSUME Init PROVE ServeInv /\ NoServeInv
  OBVIOUS
<1>1. /\ rp = NoReplay /\ ~openErr /\ stage = "start"
      /\ Now.got = << >> /\ Now.sends = << >>
  BY TheRuns DEF Init, Now
<1> QED
  BY <1>1 DEF ServeInv, NoServeInv

\* While the stream is recorded there is no replay, whatever happens.
LEMMA RecordingServe ==
    ASSUME NoServeInv, stage \in {"start", "record"}, stage' \in {"record", "failed"},
           rp' = rp, openErr' = openErr, Now' = Now
    PROVE  ServeInv' /\ NoServeInv'
<1>1. rp = NoReplay /\ ~openErr /\ Now.got = << >> /\ Now.sends = << >>
  BY DEF NoServeInv
<1> QED
  BY <1>1 DEF ServeInv, NoServeInv

\* The parts of ServeInv about a replay that has not mismatched.
Places(r, now) ==
    /\ r.sendIdx = Smaller(Len(now.sends), Len(r.pair.sends))
    /\ r.recvIdx = Smaller(Len(now.got), Len(r.pair.recvs))

Reads(r, now) ==
    \A i \in 1 .. Len(now.got) :
        now.got[i] = IF i <= Len(r.pair.recvs) THEN Message(r.pair.recvs[i].message)
                     ELSE MapErr(TerminalErr(r))

LEMMA ServeParts ==
    ServeInv <=>
        (rp # NoReplay =>
            /\ IsReplay(rp) /\ stage = "replay" /\ ~openErr
            /\ key \in DOMAIN cassette /\ rp.pair = cassette[key].pair
            /\ rp.mismatch = "none" => Places(rp, Now) /\ Reads(rp, Now))
  BY DEF ServeInv, Places, Reads, IsReplay

\* A replay just opened, with no calls made.
LEMMA OpenedServe ==
    ASSUME NEW p, NEW now, now.sends = << >>, now.got = << >>,
           Len(p.sends) \in Nat, Len(p.recvs) \in Nat
    PROVE  Places(NewReplay(p), now) /\ Reads(NewReplay(p), now)
<1>1. PICK r : r = NewReplay(p)
  OBVIOUS
<1>2. r.pair = p /\ r.sendIdx = 0 /\ r.recvIdx = 0
  BY <1>1, NewReplayFacts
<1>3. Len(now.sends) = 0 /\ Len(now.got) = 0
  OBVIOUS
<1>4. Places(r, now) /\ Reads(r, now)
  BY <1>2, <1>3 DEF Places, Reads, Smaller
<1> QED
  BY <1>1, <1>4

\* A replay follows the calls of a run until it mismatches.
Follows(r, now) == r.mismatch = "none" => Places(r, now) /\ Reads(r, now)

LEMMA ServeStep ==
    ASSUME NEW r, rp' = r, IsReplay(r), stage' = "replay", ~openErr', typ' = typ,
           key' = key, cassette' = cassette, key \in DOMAIN cassette,
           r.pair = cassette[key].pair, Follows(r, Now')
    PROVE  ServeInv' /\ NoServeInv'
<1>1. r # NoReplay
  BY NotAReplay
<1>2. \A x : MapErr(x)' = MapErr(x)
  BY DEF MapErr, RecordedStatus
<1>3. MapErr(TerminalErr(r))' = MapErr(TerminalErr(r))
  BY <1>2
<1>4. r.mismatch = "none" =>
          /\ r.sendIdx = Smaller(Len(Now'.sends), Len(r.pair.sends))
          /\ r.recvIdx = Smaller(Len(Now'.got), Len(r.pair.recvs))
          /\ \A i \in 1 .. Len(Now'.got) :
                Now'.got[i] = IF i <= Len(r.pair.recvs)
                              THEN Message(r.pair.recvs[i].message)
                              ELSE MapErr(TerminalErr(r))
  BY DEF Follows, Places, Reads
<1>5. ServeInv'
  BY <1>1, <1>3, <1>4 DEF ServeInv, IsReplay
<1> QED
  BY <1>1, <1>5 DEF NoServeInv

\* The pair on disk is what the recording has.
LEMMA SavedPair ==
    ASSUME TypeInv, CassetteInv, key \in DOMAIN cassette
    PROVE  LET p == cassette[key].pair IN
           /\ p.sends = Sends /\ p.recvs = Recvs
           /\ Len(p.sends) \in Nat /\ Len(p.recvs) \in Nat
           /\ finished /\ DOMAIN cassette = {key}
           /\ cassette[key].code = TerminalCode(Terminal(live.end))
           /\ p.err = (live.end # "EOF")
<1>1. /\ cassette[key].pair = RecordedPair(rec) /\ rec # NoRecording /\ finished
      /\ DOMAIN cassette = {key} /\ rec.err = (live.end # "EOF")
      /\ cassette[key].code = TerminalCode(Terminal(live.end))
  BY DEF CassetteInv
<1>2. RecordedPair(rec).sends = Sends /\ RecordedPair(rec).recvs = Recvs
  BY <1>1 DEF RecordedPair, Sends, Recvs
<1>3. RecordedPair(rec).err = rec.err
  BY DEF RecordedPair
<1> QED
  BY <1>1, <1>2, <1>3, SendLengths, RecvLengths

LEMMA NewReplayStreamServe ==
    ASSUME TypeInv, OpenInv, CassetteInv, NoServeInv, NewReplayStream
    PROVE  ServeInv' /\ NoServeInv'
<1>1. /\ rp = NoReplay /\ ~openErr /\ Now.got = << >> /\ Now.sends = << >>
      /\ stage # "start"
  BY DEF NewReplayStream, NoServeInv
<1>2. /\ typ' = typ /\ key' = key /\ cassette' = cassette /\ openErr' = openErr
      /\ Now' = Now
  BY DEF NewReplayStream, recordVars, Now
<1>3. CASE typ = "server"
  <2>1. stage' = "replay" /\ rp' = rp
    BY <1>3 DEF NewReplayStream
  <2> QED
    BY <1>1, <1>2, <1>3, <2>1 DEF ServeInv, NoServeInv
<1>4. CASE typ # "server" /\ <<"n", 0>> \in DOMAIN cassette
  <2>1. key = <<"n", 0>>
    BY <1>1, <1>4 DEF OpenInv
  <2>2. PICK p : p = cassette[key].pair
    OBVIOUS
  <2>3. stage' = "replay" /\ rp' = NewReplay(p)
    BY <1>4, <2>1, <2>2 DEF NewReplayStream
  <2>4. key \in DOMAIN cassette
    BY <1>4, <2>1
  <2>5. Len(p.sends) \in Nat /\ Len(p.recvs) \in Nat
    BY <2>2, <2>4, SavedPair
  <2>6. PICK r : r = NewReplay(p)
    OBVIOUS
  <2>7. IsReplay(r) /\ r.pair = p
    BY <2>6, NewReplayFacts
  <2>8. Places(r, Now) /\ Reads(r, Now)
    BY <1>1, <2>5, <2>6, OpenedServe
  <2>9. Follows(r, Now')
    BY <1>2, <2>8 DEF Follows
  <2>10. rp' = r /\ stage' = "replay" /\ ~openErr' /\ r.pair = cassette[key].pair
    BY <1>1, <1>2, <2>2, <2>3, <2>6, <2>7
  <2> QED
    BY <1>2, <2>4, <2>7, <2>9, <2>10, ServeStep
<1>5. CASE typ # "server" /\ <<"n", 0>> \notin DOMAIN cassette
  <2>1. key = <<"n", 0>>
    BY <1>1, <1>5 DEF OpenInv
  <2>2. DOMAIN cassette = {}
    BY <1>5, <2>1 DEF CassetteInv
  <2>3. stage' = "missed" /\ rp' = rp
    BY <1>5 DEF NewReplayStream
  <2> QED
    BY <1>1, <1>2, <2>2, <2>3 DEF ServeInv, NoServeInv
<1> QED
  BY <1>3, <1>4, <1>5

\* The replay a call works on: the one that is open, or the one its deferred
\* open finds.
LEMMA OpenedReplay ==
    ASSUME TypeInv, CassetteInv, ServeInv, NoServeInv, ~openErr,
           NEW k, rp # NoReplay \/ k \in DOMAIN cassette
    PROVE  LET r == IF rp # NoReplay THEN rp ELSE NewReplay(cassette[k].pair) IN
           /\ IsReplay(r) /\ key \in DOMAIN cassette /\ r.pair = cassette[key].pair
           /\ Follows(r, Now)
<1>1. CASE rp # NoReplay
  <2>1. /\ IsReplay(rp) /\ key \in DOMAIN cassette /\ rp.pair = cassette[key].pair
        /\ rp.mismatch = "none" => Places(rp, Now) /\ Reads(rp, Now)
    BY <1>1, ServeParts
  <2> QED
    BY <1>1, <2>1 DEF Follows
<1>2. CASE rp = NoReplay
  <2>1. k = key /\ key \in DOMAIN cassette
    BY <1>2 DEF CassetteInv
  <2>2. Now.got = << >> /\ Now.sends = << >>
    BY <1>2 DEF NoServeInv
  <2>3. PICK p : p = cassette[key].pair
    OBVIOUS
  <2>4. Len(p.sends) \in Nat /\ Len(p.recvs) \in Nat
    BY <2>1, <2>3, SavedPair
  <2>5. PICK r : r = NewReplay(p)
    OBVIOUS
  <2>6. IsReplay(r) /\ r.pair = p
    BY <2>5, NewReplayFacts
  <2>7. Places(r, Now) /\ Reads(r, Now)
    BY <2>2, <2>4, <2>5, OpenedServe
  <2>8. Follows(r, Now)
    BY <2>7 DEF Follows
  <2> QED
    BY <1>2, <2>1, <2>3, <2>5, <2>6, <2>8
<1> QED
  BY <1>1, <1>2

\* One more send moves the place of the sends, if it does not mismatch.
LEMMA SendFollows ==
    ASSUME NEW r, IsReplay(r), NEW now, NEW next, NEW m, Follows(r, now),
           Len(r.pair.sends) \in Nat, Len(now.sends) \in Nat,
           Len(next.sends) = Len(now.sends) + 1, next.got = now.got
    PROVE  Follows(Send(r, Scrub, m), next)
<1>1. PICK s : s = Send(r, Scrub, m)
  OBVIOUS
<1>2. /\ s.pair = r.pair /\ s.recvIdx = r.recvIdx
      /\ s.mismatch = "none" =>
            /\ r.mismatch = "none"
            /\ s.sendIdx = IF r.sendIdx >= Len(r.pair.sends)
                           THEN r.sendIdx ELSE r.sendIdx + 1
  BY <1>1, SendFacts
<1>3. ASSUME s.mismatch = "none" PROVE Places(s, next) /\ Reads(s, next)
  <2>1. Places(r, now) /\ Reads(r, now)
    BY <1>2, <1>3 DEF Follows
  <2>2. /\ s.sendIdx = IF r.sendIdx >= Len(r.pair.sends)
                       THEN r.sendIdx ELSE r.sendIdx + 1
        /\ r.sendIdx = Smaller(Len(now.sends), Len(r.pair.sends))
    BY <1>2, <1>3, <2>1 DEF Places
  <2>3. s.sendIdx = Smaller(Len(next.sends), Len(r.pair.sends))
    BY <2>2 DEF Smaller
  <2>4. Places(s, next)
    BY <1>2, <2>1, <2>3 DEF Places
  <2>5. TerminalErr(s) = TerminalErr(r)
    BY <1>2 DEF TerminalErr
  <2>6. Reads(s, next)
    BY <1>2, <2>1, <2>5 DEF Reads
  <2> QED
    BY <2>4, <2>6
<1> QED
  BY <1>1, <1>3 DEF Follows

LEMMA HalfCloseFollows ==
    ASSUME NEW r, IsReplay(r), NEW now, NEW next, Follows(r, now),
           next.sends = now.sends, next.got = now.got
    PROVE  Follows(HalfClose(r), next)
<1>1. PICK s : s = HalfClose(r)
  OBVIOUS
<1>2. /\ s.pair = r.pair /\ s.recvIdx = r.recvIdx /\ s.sendIdx = r.sendIdx
      /\ s.mismatch = "none" => r.mismatch = "none"
  BY <1>1, HalfCloseFacts
<1>3. ASSUME s.mismatch = "none" PROVE Places(s, next) /\ Reads(s, next)
  <2>1. Places(r, now) /\ Reads(r, now)
    BY <1>2, <1>3 DEF Follows
  <2>2. TerminalErr(s) = TerminalErr(r)
    BY <1>2 DEF TerminalErr
  <2> QED
    BY <1>2, <2>1, <2>2 DEF Places, Reads
<1> QED
  BY <1>1, <1>3 DEF Follows

\* One more read is the next message of the pair, or its terminal.
LEMMA RecvFollows ==
    ASSUME NEW r, IsReplay(r), NEW now, NEW next, Follows(r, now),
           Len(r.pair.recvs) \in Nat, IsSeq(now.got), next.sends = now.sends,
           next.got = Append(now.got,
                             IF RecvResult(r) = "message"
                             THEN Message(r.pair.recvs[r.recvIdx + 1].message)
                             ELSE MapErr(RecvResult(r)))
    PROVE  Follows(Recv(r), next)
<1>1. PICK s : s = Recv(r)
  OBVIOUS
<1>2. /\ s.pair = r.pair /\ s.sendIdx = r.sendIdx /\ s.mismatch = r.mismatch
      /\ r.mismatch = "none" =>
            s.recvIdx = IF r.recvIdx >= Len(r.pair.recvs)
                        THEN r.recvIdx ELSE r.recvIdx + 1
      /\ r.mismatch = "none" =>
            RecvResult(r) = IF r.recvIdx >= Len(r.pair.recvs)
                            THEN TerminalErr(r) ELSE "message"
  BY <1>1, RecvFacts
<1>3. PICK x : x = IF RecvResult(r) = "message"
                   THEN Message(r.pair.recvs[r.recvIdx + 1].message)
                   ELSE MapErr(RecvResult(r))
  OBVIOUS
<1>4. PICK n : n = Len(now.got) /\ n \in Nat
  BY AppendFacts
<1>5. /\ Len(next.got) = n + 1 /\ next.got[n + 1] = x
      /\ \A i \in 1 .. n : next.got[i] = now.got[i]
  <2>1. next.got = Append(now.got, x)
    BY <1>3
  <2> QED
    BY <1>4, <2>1, AppendFacts
<1>6. PICK k : k = Len(r.pair.recvs) /\ k \in Nat
  OBVIOUS
<1>7. ASSUME s.mismatch = "none" PROVE Places(s, next) /\ Reads(s, next)
  <2>1. Places(r, now) /\ Reads(r, now) /\ r.mismatch = "none"
    BY <1>2, <1>7 DEF Follows
  <2>2. r.recvIdx = Smaller(n, k)
    BY <1>4, <1>6, <2>1 DEF Places
  <2>3. /\ s.recvIdx = IF r.recvIdx >= k THEN r.recvIdx ELSE r.recvIdx + 1
        /\ RecvResult(r) = IF r.recvIdx >= k THEN TerminalErr(r) ELSE "message"
    BY <1>2, <1>6, <2>1
  <2>4. s.recvIdx = Smaller(n + 1, k)
    BY <1>4, <1>6, <2>2, <2>3 DEF Smaller
  <2>5. Places(s, next)
    BY <1>2, <1>5, <1>6, <2>1, <2>4 DEF Places
  <2>6. TerminalErr(s) = TerminalErr(r) /\ TerminalErr(r) # "message"
    BY <1>2 DEF TerminalErr
  <2>7. x = IF n + 1 <= k THEN Message(r.pair.recvs[n + 1].message)
            ELSE MapErr(TerminalErr(r))
    <3>1. CASE n + 1 <= k
      <4>1. r.recvIdx = n /\ ~(n >= k)
        BY <1>4, <1>6, <2>2, <3>1 DEF Smaller
      <4> QED
        BY <1>3, <2>3, <3>1, <4>1
    <3>2. CASE ~(n + 1 <= k)
      <4>1. r.recvIdx >= k
        BY <1>4, <1>6, <2>2, <3>2 DEF Smaller
      <4>2. RecvResult(r) = TerminalErr(r)
        BY <2>3, <4>1
      <4> QED
        BY <1>3, <2>6, <3>2, <4>2
    <3> QED
      BY <3>1, <3>2
  <2>8. \A i \in 1 .. n + 1 :
            next.got[i] = IF i <= k THEN Message(r.pair.recvs[i].message)
                          ELSE MapErr(TerminalErr(r))
    <3> SUFFICES ASSUME NEW i \in 1 .. n + 1
                 PROVE  next.got[i] = IF i <= k THEN Message(r.pair.recvs[i].message)
                                      ELSE MapErr(TerminalErr(r))
      OBVIOUS
    <3>1. CASE i = n + 1
      BY <1>5, <2>7, <3>1
    <3>2. CASE i # n + 1
      <4>1. i \in 1 .. n
        BY <1>4, <3>2
      <4>2. now.got[i] = IF i <= k THEN Message(r.pair.recvs[i].message)
                         ELSE MapErr(TerminalErr(r))
        BY <1>4, <1>6, <2>1, <4>1 DEF Reads
      <4> QED
        BY <1>5, <4>1, <4>2
    <3> QED
      BY <3>1, <3>2
  <2>9. Reads(s, next)
    BY <1>2, <1>5, <1>6, <2>6, <2>8 DEF Reads
  <2> QED
    BY <2>5, <2>9
<1> QED
  BY <1>1, <1>7 DEF Follows

LEMMA ReplaySendMsgServe ==
    ASSUME TypeInv, OpenInv, CassetteInv, ServeInv, NoServeInv,
           NEW m \in Messages, ReplaySendMsg(m)
    PROVE  ServeInv' /\ NoServeInv'
<1>1. PICK k, found : /\ k = StreamOpenKey(m)
                      /\ found <=> (rp # NoReplay \/ k \in DOMAIN cassette)
  OBVIOUS
<1>2. /\ stage = "replay" /\ stage' = "replay" /\ typ' = typ /\ key' = key
      /\ cassette' = cassette /\ calls' = Called("replay", m)
  BY DEF ReplaySendMsg, recordVars
<1>3. calls \in [Runs -> Histories]
  BY DEF TypeInv
<1>4. Now'.sends = Append(Now.sends, m) /\ Now'.got = Now.got
  BY <1>2, <1>3, CalledFacts, TheRuns DEF Now
<1>5. Now.sends \in Seq(Messages) /\ Len(Now.sends) \in Nat
  BY CallsTyped, HistoryTyped
<1>6. CASE openErr \/ ~found
  <2>1. openErr' = TRUE /\ rp' = rp
    BY <1>1, <1>6 DEF ReplaySendMsg
  <2>2. rp = NoReplay
    BY <1>1, <1>6 DEF ServeInv
  <2>3. Now'.got = << >> /\ typ = "server"
    BY <1>2, <1>4, <2>2 DEF NoServeInv
  <2> QED
    BY <1>2, <2>1, <2>2, <2>3 DEF ServeInv, NoServeInv
<1>7. CASE ~(openErr \/ ~found)
  <2>1. PICK r : r = IF rp # NoReplay THEN rp ELSE NewReplay(cassette[k].pair)
    OBVIOUS
  <2>2. rp' = Send(r, Scrub, m) /\ ~openErr'
    BY <1>1, <1>7, <2>1 DEF ReplaySendMsg
  <2>3. /\ IsReplay(r) /\ key \in DOMAIN cassette /\ r.pair = cassette[key].pair
        /\ Follows(r, Now)
    BY <1>1, <1>7, <2>1, OpenedReplay
  <2>4. Len(r.pair.sends) \in Nat
    BY <2>3, SavedPair
  <2>5. Len(Now'.sends) = Len(Now.sends) + 1
    BY <1>4, <1>5
  <2>6. PICK s : s = Send(r, Scrub, m)
    OBVIOUS
  <2>7. IsReplay(s) /\ s.pair = r.pair
    BY <2>3, <2>6, SendFacts
  <2>8. Follows(s, Now')
    BY <1>4, <1>5, <2>3, <2>4, <2>5, <2>6, SendFollows
  <2>9. rp' = s /\ s.pair = cassette[key].pair
    BY <2>2, <2>3, <2>6, <2>7
  <2> QED
    BY <1>2, <2>2, <2>3, <2>7, <2>8, <2>9, ServeStep
<1> QED
  BY <1>6, <1>7

LEMMA ReplayCloseSendServe ==
    ASSUME TypeInv, OpenInv, CassetteInv, ServeInv, NoServeInv, ReplayCloseSend
    PROVE  ServeInv' /\ NoServeInv'
<1>1. /\ stage = "replay" /\ stage' = "replay" /\ typ' = typ /\ key' = key
      /\ cassette' = cassette /\ openErr' = openErr /\ calls' = Closed("replay")
      /\ rp' = IF openErr \/ rp = NoReplay THEN rp ELSE HalfClose(rp)
  BY DEF ReplayCloseSend, recordVars
<1>2. calls \in [Runs -> Histories]
  BY DEF TypeInv
<1>3. Now'.sends = Now.sends /\ Now'.got = Now.got
  BY <1>1, <1>2, ClosedFacts, TheRuns DEF Now
<1>4. CASE rp = NoReplay
  BY <1>1, <1>3, <1>4 DEF ServeInv, NoServeInv
<1>5. CASE rp # NoReplay
  <2>1. /\ IsReplay(rp) /\ key \in DOMAIN cassette /\ rp.pair = cassette[key].pair
        /\ rp.mismatch = "none" => Places(rp, Now) /\ Reads(rp, Now)
        /\ ~openErr
    BY <1>5, ServeParts
  <2>2. PICK s : s = HalfClose(rp)
    OBVIOUS
  <2>3. Follows(rp, Now)
    BY <2>1 DEF Follows
  <2>4. Follows(s, Now')
    BY <1>3, <2>1, <2>2, <2>3, HalfCloseFollows
  <2>5. IsReplay(s) /\ s.pair = cassette[key].pair
    BY <2>1, <2>2, HalfCloseFacts
  <2>6. rp' = s /\ ~openErr'
    BY <1>1, <1>5, <2>1, <2>2
  <2> QED
    BY <1>1, <2>1, <2>4, <2>5, <2>6, ServeStep
<1> QED
  BY <1>4, <1>5

LEMMA ReplayRecvMsgServe ==
    ASSUME TypeInv, OpenInv, CassetteInv, ServeInv, NoServeInv, ReplayRecvMsg
    PROVE  ServeInv' /\ NoServeInv'
<1>1. PICK x : x = IF RecvResult(rp) = "message"
                   THEN Message(rp.pair.recvs[rp.recvIdx + 1].message)
                   ELSE MapErr(RecvResult(rp))
  OBVIOUS
<1>2. /\ stage = "replay" /\ stage' = "replay" /\ typ' = typ /\ key' = key
      /\ cassette' = cassette /\ openErr' = openErr /\ calls' = Got("replay", x)
      /\ rp # NoReplay /\ rp' = Recv(rp)
  BY <1>1 DEF ReplayRecvMsg, recordVars
<1>3. x \in Results /\ calls \in [Runs -> Histories]
  BY <1>1, <1>2, ReplayedReads DEF TypeInv
<1>4. Now'.sends = Now.sends /\ Now'.got = Append(Now.got, x)
  BY <1>2, <1>3, GotFacts, TheRuns DEF Now
<1>5. /\ IsReplay(rp) /\ key \in DOMAIN cassette /\ rp.pair = cassette[key].pair
      /\ rp.mismatch = "none" => Places(rp, Now) /\ Reads(rp, Now)
      /\ ~openErr
  BY <1>2, ServeParts
<1>6. PICK s : s = Recv(rp)
  OBVIOUS
<1>7. Follows(rp, Now) /\ Len(rp.pair.recvs) \in Nat
  BY <1>5, SavedPair DEF Follows
<1>8. Now.got \in Seq(Results)
  BY CallsTyped, HistoryTyped
<1>9. IsSeq(Now.got)
  BY <1>8 DEF IsSeq
<1>10. Follows(s, Now')
  BY <1>1, <1>4, <1>5, <1>6, <1>7, <1>9, RecvFollows
<1>11. IsReplay(s) /\ s.pair = cassette[key].pair
  BY <1>5, <1>6, RecvFacts
<1>12. rp' = s /\ ~openErr'
  BY <1>2, <1>5, <1>6
<1> QED
  BY <1>2, <1>5, <1>10, <1>11, <1>12, ServeStep

LEMMA NextServe ==
    ASSUME TypeInv, OpenInv, RecvInv, CassetteInv, ServeInv, NoServeInv, [Next]_vars
    PROVE  ServeInv' /\ NoServeInv'
<1>1. ASSUME NEW opened \in BOOLEAN, NewRecordStream(opened)
      PROVE  ServeInv' /\ NoServeInv'
  <2>1. /\ stage = "start" /\ stage' \in {"record", "failed"} /\ rp' = rp
        /\ openErr' = openErr /\ Now' = Now
    BY <1>1, NewRecordStreamEffect DEF Now
  <2> QED
    BY <2>1, RecordingServe
<1>2. ASSUME SameReplay PROVE ServeInv' /\ NoServeInv'
  BY <1>2, RecordingServe DEF SameReplay
<1>3. ASSUME SenderStep PROVE SameReplay
  BY <1>3, SendMsgEffect, LiveSendMsgEffect, CloseSendEffect, NoteSendEffect,
     NoteHalfCloseEffect DEF SenderStep
<1>4. ASSUME ReceiverStep PROVE SameReplay
  BY <1>4, RecvMsgEffect, NoteRecvEffect, FinishStreamEffect DEF ReceiverStep
<1>5. ASSUME ServerStep PROVE SameReplay
  BY <1>5, ServerSendsEffect, ServerEndsEffect DEF ServerStep
<1>6. ASSUME ReplayStep PROVE ServeInv' /\ NoServeInv'
  BY <1>6, NewReplayStreamServe, ReplaySendMsgServe, ReplayCloseSendServe,
     ReplayRecvMsgServe DEF ReplayStep
<1>7. ASSUME UNCHANGED vars PROVE ServeInv' /\ NoServeInv'
  BY <1>7 DEF vars, ServeInv, NoServeInv, Now, MapErr, RecordedStatus
<1> QED
  BY <1>1, <1>2, <1>3, <1>4, <1>5, <1>6, <1>7 DEF Next

LEMMA Invariant == Spec => []IndInv
<1>1. Init => IndInv
  BY InitType, InitOpen, InitSend, InitRecv, InitCassette, InitServe DEF IndInv
<1>2. IndInv /\ [Next]_vars => IndInv'
  BY NextType, NextOpen, NextSend, NextRecv, NextCassette, NextServe DEF IndInv
<1> QED
  BY <1>1, <1>2, PTL DEF Spec

-----------------------------------------------------------------------------
(***************************************************************************)
(* The messages among the reads of a run, as the recursion computes them.  *)
(***************************************************************************)
ReadAt(g, got, i) ==
    IF i = 0 THEN << >>
    ELSE IF got[i][1] = "message" THEN Append(g[i - 1], Scrub[got[i][2]])
    ELSE g[i - 1]

ReadsUpTo(g, got, n) == g = [i \in 0 .. n |-> ReadAt(g, got, i)]

\* There is such a function for any number of reads.
LEMMA ReadsExist ==
    ASSUME NEW got
    PROVE  \A n \in Nat : \E g : ReadsUpTo(g, got, n)
<1> DEFINE S == {n \in Nat : \E g : ReadsUpTo(g, got, n)}
<1>1. 0 \in S
  <2>1. ReadsUpTo([i \in 0 .. 0 |-> << >>], got, 0)
    BY DEF ReadsUpTo, ReadAt
  <2> QED
    BY <2>1
<1>2. ASSUME NEW n \in S PROVE n + 1 \in S
  <2>1. PICK g : ReadsUpTo(g, got, n)
    OBVIOUS
  <2>2. n \in Nat
    OBVIOUS
  <2>3. PICK v : v = ReadAt(g, got, n + 1)
    OBVIOUS
  <2> DEFINE h == [i \in 0 .. n + 1 |-> IF i = n + 1 THEN v ELSE g[i]]
  <2>4. /\ \A i \in 0 .. n : h[i] = g[i]
        /\ h[n + 1] = v
        /\ h = [i \in 0 .. n + 1 |-> h[i]]
    BY <2>2
  <2>5. \A i \in 0 .. n : g[i] = ReadAt(g, got, i)
    BY <2>1, <2>2 DEF ReadsUpTo
  <2> HIDE DEF h
  <2>6. ASSUME NEW i \in 0 .. n + 1 PROVE h[i] = ReadAt(h, got, i)
    <3>1. CASE i = n + 1
      <4>1. n + 1 # 0 /\ n + 1 - 1 = n /\ n \in 0 .. n
        BY <2>2
      <4>2. h[n] = g[n]
        BY <2>4, <4>1
      <4>3. ReadAt(h, got, n + 1) = ReadAt(g, got, n + 1)
        BY <4>1, <4>2 DEF ReadAt
      <4> QED
        BY <2>3, <2>4, <3>1, <4>3
    <3>2. CASE i # n + 1
      <4>1. i \in 0 .. n /\ (i # 0 => i - 1 \in 0 .. n)
        BY <2>2, <3>2
      <4> QED
        BY <2>4, <2>5, <4>1 DEF ReadAt
    <3> QED
      BY <3>1, <3>2
  <2>7. ReadsUpTo(h, got, n + 1)
    BY <2>4, <2>6 DEF ReadsUpTo
  <2> QED
    BY <2>2, <2>7
<1> HIDE DEF S
<1>3. S = Nat
  BY <1>1, <1>2, NumberInduction DEF S
<1> QED
  BY <1>3 DEF S

\* After i messages it has those i, scrubbed.
FirstAreMessages(got, n) == \A i \in 1 .. n : got[i][1] = "message"

LEMMA ReadsOfMessages ==
    ASSUME NEW got, NEW n \in Nat, NEW k \in Nat, n <= k, NEW g,
           ReadsUpTo(g, got, k), FirstAreMessages(got, n)
    PROVE  g[n] = [i \in 1 .. n |-> Scrub[got[i][2]]]
<1> DEFINE Want(j) == [i \in 1 .. j |-> Scrub[got[i][2]]]
           S == {j \in Nat : j <= n => g[j] = Want(j)}
<1>1. \A i \in 0 .. k : g[i] = ReadAt(g, got, i)
  BY DEF ReadsUpTo
<1>2. 0 \in S
  <2>1. g[0] = << >>
    BY <1>1 DEF ReadAt
  <2>2. Want(0) = << >>
    OBVIOUS
  <2> QED
    BY <2>1, <2>2
<1>3. ASSUME NEW j \in S PROVE j + 1 \in S
  <2> SUFFICES ASSUME j + 1 <= n PROVE g[j + 1] = Want(j + 1)
    OBVIOUS
  <2>1. /\ j \in Nat /\ j + 1 \in 0 .. k /\ j + 1 \in 1 .. n /\ j <= n
        /\ j + 1 # 0 /\ j + 1 - 1 = j
    OBVIOUS
  <2>2. g[j] = Want(j) /\ got[j + 1][1] = "message"
    BY <2>1 DEF FirstAreMessages
  <2>3. PICK v : v = Scrub[got[j + 1][2]]
    OBVIOUS
  <2>4. PICK q : q = Want(j)
    OBVIOUS
  <2>5. g[j + 1] = Append(q, v)
    <3> HIDE DEF Want
    <3>1. g[j] = q
      BY <2>2, <2>4
    <3>2. g[j + 1] = ReadAt(g, got, j + 1)
      BY <1>1, <2>1
    <3> QED
      BY <2>1, <2>2, <2>3, <3>1, <3>2 DEF ReadAt
  <2>6. q = [i \in 1 .. j |-> q[i]]
    BY <2>4
  <2>7. IsSeq(q)
    BY <2>1, <2>6, FunctionIsSeq
  <2>8. DOMAIN q = 1 .. j /\ \A i \in 1 .. j : q[i] = Scrub[got[i][2]]
    BY <2>4
  <2>9. Len(q) = j
    <3>1. Len(q) \in Nat /\ DOMAIN q = 1 .. Len(q)
      BY <2>7, AppendFacts
    <3> QED
      BY <2>1, <2>8, <3>1
  <2>10. /\ IsSeq(Append(q, v)) /\ DOMAIN Append(q, v) = 1 .. j + 1
         /\ \A i \in 1 .. j : Append(q, v)[i] = q[i]
         /\ Append(q, v)[j + 1] = v
    BY <2>7, <2>9, AppendFacts
  <2>11. \A i \in 1 .. j + 1 : Append(q, v)[i] = Scrub[got[i][2]]
    <3> SUFFICES ASSUME NEW i \in 1 .. j + 1
                 PROVE  Append(q, v)[i] = Scrub[got[i][2]]
      OBVIOUS
    <3>1. CASE i = j + 1
      BY <2>3, <2>10, <3>1
    <3>2. CASE i # j + 1
      <4>1. i \in 1 .. j
        BY <2>1, <3>2
      <4> QED
        BY <2>8, <2>10, <4>1
    <3> QED
      BY <3>1, <3>2
  <2>12. Append(q, v) = [i \in 1 .. j + 1 |-> Append(q, v)[i]]
    <3>1. PICK T : Append(q, v) \in Seq(T)
      BY <2>10 DEF IsSeq
    <3>2. Len(Append(q, v)) = j + 1
      BY <2>7, <2>9, AppendFacts
    <3>3. ASSUME NEW w \in Seq(T), Len(w) = j + 1
          PROVE  w = [i \in 1 .. j + 1 |-> w[i]]
      BY <3>3
    <3> QED
      BY <3>1, <3>2, <3>3, Zenon
  <2>13. Append(q, v) = Want(j + 1)
    BY <2>11, <2>12
  <2> QED
    BY <2>5, <2>13
<1>4. S = Nat
  <2> HIDE DEF S
  <2> QED
    BY <1>2, <1>3, NumberInduction DEF S
<1> QED
  BY <1>4

\* n messages, then at most a terminal: what was read is the n messages.
LEMMA MessagesReadAre ==
    ASSUME NEW run, NEW n \in Nat, FirstAreMessages(calls[run].got, n),
           Len(calls[run].got) \in {n, n + 1},
           Len(calls[run].got) = n + 1 => calls[run].got[n + 1][1] # "message"
    PROVE  MessagesRead(run) = [i \in 1 .. n |-> Scrub[calls[run].got[i][2]]]
<1>1. PICK got, k : got = calls[run].got /\ k = Len(got)
  OBVIOUS
<1>2. k \in Nat /\ (k = n \/ k = n + 1) /\ n <= k
  BY <1>1
<1>3. PICK a : a = CHOOSE f : ReadsUpTo(f, got, k)
  OBVIOUS
<1>4. ReadsUpTo(a, got, k)
  BY <1>2, <1>3, ReadsExist
<1>5. MessagesRead(run) = a[k]
  BY <1>1, <1>3 DEF MessagesRead, ReadsUpTo, ReadAt
<1>6. a[n] = [i \in 1 .. n |-> Scrub[got[i][2]]]
  <2>1. FirstAreMessages(got, n)
    BY <1>1
  <2> QED
    BY <1>2, <1>4, <2>1, ReadsOfMessages
<1>7. a[k] = a[n]
  <2>1. CASE k = n
    BY <2>1
  <2>2. CASE k = n + 1
    <3>1. a[k] = ReadAt(a, got, k)
      BY <1>2, <1>4 DEF ReadsUpTo
    <3>2. k # 0 /\ k - 1 = n /\ got[k][1] # "message"
      BY <1>1, <2>2
    <3> QED
      BY <3>1, <3>2 DEF ReadAt
  <2> QED
    BY <1>2, <2>1, <2>2
<1> QED
  BY <1>1, <1>5, <1>6, <1>7

-----------------------------------------------------------------------------
(***************************************************************************)
(* The theorems.                                                           *)
(***************************************************************************)

\* Once the pair is saved, the reads of the recording run are its messages,
\* then at most the terminal.
LEMMA SavedReads ==
    ASSUME TypeInv, RecvInv, CassetteInv, key \in DOMAIN cassette
    PROVE  /\ Len(Was.got) \in {Len(Recvs), Len(Recvs) + 1}
           /\ FirstAreMessages(Was.got, Len(Recvs))
           /\ \A i \in 1 .. Len(Recvs) : Scrub[Was.got[i][2]] = Recvs[i].message
           /\ Len(Was.got) = Len(Recvs) + 1 =>
                 Was.got[Len(Recvs) + 1] = Terminal(live.end)
<1>1. finished /\ Len(Recvs) \in Nat
  BY SavedPair, RecvLengths
<1>2. ~Pending
  BY <1>1 DEF RecvInv
<1>3. Handed = Len(Recvs)
  BY <1>1, <1>2 DEF Handed
<1> QED
  BY <1>1, <1>3 DEF RecvInv, FirstAreMessages

LEMMA SavedIsWhatHappened == IndInv => SavedPairIsWhatHappened
<1> SUFFICES ASSUME IndInv, NEW k \in DOMAIN cassette
             PROVE  LET p == cassette[k].pair IN
                    /\ MessagesOf(p.recvs) = MessagesRead("record")
                    /\ Len(p.sends) \in {Len(live.wire) - 1, Len(live.wire)}
                    /\ \A i \in DOMAIN p.sends :
                            p.sends[i].message = Scrub[live.wire[i]]
  BY DEF SavedPairIsWhatHappened
<1>1. TypeInv /\ SendInv /\ RecvInv /\ CassetteInv
  BY DEF IndInv
<1>2. k = key
  BY <1>1 DEF CassetteInv
<1>3. PICK p : p = cassette[key].pair
  OBVIOUS
<1>4. p.sends = Sends /\ p.recvs = Recvs /\ finished
  BY <1>1, <1>2, <1>3, SavedPair
<1>5. PICK n : n = Len(Recvs) /\ n \in Nat
  BY <1>1, RecvLengths
<1>6. /\ Len(Was.got) \in {n, n + 1} /\ FirstAreMessages(Was.got, n)
      /\ \A i \in 1 .. n : Scrub[Was.got[i][2]] = Recvs[i].message
      /\ Len(Was.got) = n + 1 => Was.got[n + 1] = Terminal(live.end)
  BY <1>1, <1>2, <1>5, SavedReads
<1>7. Len(Was.got) = n + 1 => Was.got[n + 1][1] # "message"
  BY <1>6 DEF Terminal
<1>8. MessagesRead("record") = [i \in 1 .. n |-> Scrub[Was.got[i][2]]]
  BY <1>5, <1>6, <1>7, MessagesReadAre DEF Was
<1>9. DOMAIN Recvs = 1 .. n /\ DOMAIN Sends = 1 .. Len(Sends)
  <2>1. IsSeq(Recvs) /\ IsSeq(Sends)
    BY <1>1, RecvLengths, SendLengths
  <2> QED
    BY <1>5, <2>1, AppendFacts
<1>10. MessagesOf(Recvs) = MessagesRead("record")
  BY <1>6, <1>8, <1>9 DEF MessagesOf
<1>11. /\ Len(Sends) \in {Len(live.wire) - 1, Len(live.wire)}
       /\ \A i \in DOMAIN Sends : Sends[i].message = Scrub[live.wire[i]]
  BY <1>1, <1>4, <1>9 DEF SendInv
<1> QED
  BY <1>2, <1>3, <1>4, <1>10, <1>11

\* For every hook, every number of messages in both directions and every
\* interleaving of the client's two goroutines with each other and with the
\* server, the pair that recordStream saves holds what RecvMsg handed over and
\* what SendMsg put on the wire, up to the one send noted after the terminal.
THEOREM SavedPairHappened == Spec => []SavedPairIsWhatHappened
  BY Invariant, SavedIsWhatHappened, PTL

\* What a terminal of the recording run looks like when it is replayed.
LEMMA TerminalReplayed ==
    ASSUME TypeInv, CassetteInv, key \in DOMAIN cassette,
           NEW r, r.pair = cassette[key].pair
    PROVE  MapErr(TerminalErr(r)) = Replayed(Terminal(live.end))
<1>1. PICK e : e = live.end
  OBVIOUS
<1>2. /\ cassette[key].code = TerminalCode(Terminal(e))
      /\ r.pair.err = (e # "EOF")
  BY <1>1, SavedPair
<1>3. Terminal(e)[1] = "terminal" /\ Terminal(e)[2] = e
  BY DEF Terminal
<1>4. CASE e = "EOF"
  <2>1. TerminalErr(r) = "eof"
    BY <1>2, <1>4 DEF TerminalErr
  <2>2. MapErr("eof") = Terminal("EOF")
    BY DEF MapErr
  <2>3. Replayed(Terminal(e)) = Terminal(e)
    BY <1>3, <1>4 DEF Replayed
  <2> QED
    BY <1>1, <1>4, <2>1, <2>2, <2>3
<1>5. CASE e # "EOF"
  <2>1. TerminalErr(r) = "error"
    BY <1>2, <1>5 DEF TerminalErr
  <2>2. MapErr("error") = Terminal(RecordedStatus)
    BY DEF MapErr
  <2>3. cassette[key].code = IF e = "OK" THEN "Unknown" ELSE e
    BY <1>2, <1>3, <1>5 DEF TerminalCode
  <2>4. RecordedStatus = IF e = "OK" THEN "Unknown" ELSE e
    BY <2>3 DEF RecordedStatus
  <2>5. Replayed(Terminal(e)) = IF e = "OK" THEN Terminal("Unknown") ELSE Terminal(e)
    BY <1>3 DEF Replayed
  <2> QED
    BY <1>1, <2>1, <2>2, <2>4, <2>5
<1> QED
  BY <1>4, <1>5

LEMMA ReadsReplayed == IndInv => ReadsAreReplayed
<1> SUFFICES ASSUME IndInv, rp.mismatch = "none", NEW i \in DOMAIN Now.got
             PROVE  IF i \in DOMAIN Was.got THEN Now.got[i] = Replayed(Was.got[i])
                    ELSE Now.got[i][1] = "terminal"
  BY DEF ReadsAreReplayed, Was, Now
<1>1. TypeInv /\ RecvInv /\ CassetteInv /\ ServeInv /\ NoServeInv
  BY DEF IndInv
<1>2. rp # NoReplay
  <2>1. DOMAIN << >> = {}
    OBVIOUS
  <2> QED
    BY <1>1, <2>1 DEF NoServeInv
<1>3. /\ key \in DOMAIN cassette /\ rp.pair = cassette[key].pair
      /\ Reads(rp, Now)
  BY <1>1, <1>2, ServeParts
<1>4. PICK n : n = Len(Recvs) /\ n \in Nat
  BY <1>1, RecvLengths
<1>5. rp.pair.recvs = Recvs
  BY <1>1, <1>3, SavedPair
<1>6. /\ Len(Was.got) \in {n, n + 1} /\ FirstAreMessages(Was.got, n)
      /\ \A j \in 1 .. n : Scrub[Was.got[j][2]] = Recvs[j].message
      /\ Len(Was.got) = n + 1 => Was.got[n + 1] = Terminal(live.end)
  BY <1>1, <1>3, <1>4, SavedReads
<1>7. DOMAIN Was.got = 1 .. Len(Was.got) /\ DOMAIN Now.got = 1 .. Len(Now.got)
  <2>1. Was.got \in Seq(Results) /\ Now.got \in Seq(Results)
    BY <1>1, CallsTyped, HistoryTyped
  <2> QED
    BY <2>1
<1>8. Now.got[i] = IF i <= n THEN Message(Recvs[i].message)
                   ELSE MapErr(TerminalErr(rp))
  BY <1>3, <1>4, <1>5, <1>7 DEF Reads
<1>9. i \in Nat /\ i >= 1
  <2>1. Now.got \in Seq(Results)
    BY <1>1, CallsTyped, HistoryTyped
  <2> QED
    BY <1>7, <2>1
<1>10. CASE i <= n
  <2>1. i \in 1 .. n /\ i \in DOMAIN Was.got
    BY <1>4, <1>6, <1>7, <1>9, <1>10
  <2>2. Was.got[i][1] = "message" /\ Scrub[Was.got[i][2]] = Recvs[i].message
    BY <1>6, <2>1 DEF FirstAreMessages
  <2> QED
    BY <1>8, <1>10, <2>1, <2>2 DEF Replayed
<1>11. CASE ~(i <= n)
  <2>1. MapErr(TerminalErr(rp)) = Replayed(Terminal(live.end))
    BY <1>1, <1>3, TerminalReplayed
  <2>2. Replayed(Terminal(live.end))[1] = "terminal"
    BY DEF Replayed, Terminal
  <2>3. i \in DOMAIN Was.got => i = n + 1 /\ Was.got[i] = Terminal(live.end)
    BY <1>4, <1>6, <1>7, <1>9, <1>11
  <2> QED
    BY <1>8, <1>11, <2>1, <2>2, <2>3
<1> QED
  BY <1>10, <1>11

\* Whatever was recorded and however the client interleaves its calls, as long
\* as none of them mismatches
\* replayStream.RecvMsg hands it the recorded messages, scrubbed once,
\* then the recorded terminal with its status code, for good.
THEOREM ReplayReadsTheRecording == Spec => []ReadsAreReplayed
  BY Invariant, ReadsReplayed, PTL

\* A client that is still doing what it did was doing so before its call.
LEMMA SameCallsBefore ==
    ASSUME TypeInv, NEW x \in Messages, Was' = Was, SameCalls', Now.closes = 0,
           Now'.sends = Append(Now.sends, x)
    PROVE  SameCalls
<1>1. Now.sends \in Seq(Messages)
  BY CallsTyped, HistoryTyped
<1>2. ASSUME NEW i \in DOMAIN Now.sends
      PROVE  i \in DOMAIN Now'.sends /\ Now'.sends[i] = Now.sends[i]
  BY <1>1
<1>3. \A i \in DOMAIN Now'.sends :
          i \in DOMAIN Was.sends /\ Scrub[Now'.sends[i]] = Scrub[Was.sends[i]]
  BY DEF SameCalls, Was, Now
<1>4. ~(Now.closes > 0)
  OBVIOUS
<1> QED
  BY <1>2, <1>3, <1>4 DEF SameCalls, Was, Now

\* The request that opened the recording opens the replay.
LEMMA SameRequestFound ==
    ASSUME TypeInv, OpenInv, CassetteInv, NoServeInv, DOMAIN cassette # {},
           stage = "replay", ~openErr, rp = NoReplay, NEW m \in Messages, SameCalls',
           Was' = Was, Now'.sends = Append(Now.sends, m)
    PROVE  StreamOpenKey(m) \in DOMAIN cassette
<1>1. key \in DOMAIN cassette /\ rec # NoRecording
  BY DEF CassetteInv
<1>2. typ = "server"
  BY DEF NoServeInv
<1>3. key = <<"msg_hash", Scrub[Was.sends[1]]>>
  BY <1>1, <1>2 DEF OpenInv
<1>4. Now.sends = << >>
  BY DEF NoServeInv
<1>5. Append(<< >>, m) = <<m>>
  OBVIOUS
<1>6. 1 \in DOMAIN Now'.sends /\ Now'.sends[1] = m
  BY <1>4, <1>5
<1>7. Scrub[m] = Scrub[Was.sends[1]]
  BY <1>6 DEF SameCalls, Was, Now
<1> QED
  BY <1>1, <1>2, <1>3, <1>7 DEF StreamOpenKey

LEMMA FaithfulSend ==
    ASSUME TypeInv, OpenInv, SendInv, CassetteInv, ServeInv, NoServeInv,
           FaithfulClientIsServed, NEW m \in Messages, ReplaySendMsg(m)
    PROVE  FaithfulClientIsServed'
<1> SUFFICES ASSUME DOMAIN cassette' # {}, SameCalls'
             PROVE  stage' = "replay" /\ ~openErr' /\ rp'.mismatch = "none"
  BY DEF FaithfulClientIsServed
<1>1. /\ stage = "replay" /\ stage' = "replay" /\ cassette' = cassette
      /\ calls' = Called("replay", m) /\ Now.closes = 0
  BY DEF ReplaySendMsg, recordVars, Now
<1>2. calls \in [Runs -> Histories]
  BY DEF TypeInv
<1>3. Was' = Was /\ Now'.sends = Append(Now.sends, m)
  BY <1>1, <1>2, CalledFacts, TheRuns DEF Was, Now
<1>4. SameCalls
  BY <1>1, <1>3, SameCallsBefore
<1>5. ~openErr /\ rp.mismatch = "none" /\ DOMAIN cassette # {}
  BY <1>1, <1>4 DEF FaithfulClientIsServed
<1>6. PICK k : k = StreamOpenKey(m)
  OBVIOUS
<1>7. rp # NoReplay \/ k \in DOMAIN cassette
  BY <1>1, <1>3, <1>5, <1>6, SameRequestFound
<1>8. PICK r : r = IF rp # NoReplay THEN rp ELSE NewReplay(cassette[k].pair)
  OBVIOUS
<1>9. rp' = Send(r, Scrub, m) /\ ~openErr'
  BY <1>5, <1>6, <1>7, <1>8 DEF ReplaySendMsg
<1>10. /\ IsReplay(r) /\ key \in DOMAIN cassette /\ r.pair = cassette[key].pair
       /\ Follows(r, Now)
  BY <1>5, <1>7, <1>8, OpenedReplay
<1>11. r.mismatch = "none"
  <2>1. NewReplay(cassette[k].pair).mismatch = "none"
    BY NewReplayFacts
  <2> QED
    BY <1>5, <1>8, <2>1
<1>12. r.pair.sends = Sends
  BY <1>10, SavedPair
<1>13. PICK n : n = Len(Now.sends) /\ n \in Nat
  BY CallsTyped, HistoryTyped
<1>14. r.sendIdx = Smaller(n, Len(Sends))
  BY <1>10, <1>11, <1>12, <1>13 DEF Follows, Places
<1>15. /\ IsSeq(Sends) /\ IsSeq(live.wire) /\ IsSeq(Was.sends)
       /\ Len(Sends) \in Nat /\ Len(live.wire) \in Nat /\ Len(Was.sends) \in Nat
  BY SendLengths
<1>16. ASSUME ~(r.sendIdx >= Len(Sends))
       PROVE  Scrub[m] = Sends[r.sendIdx + 1].message
  <2>1. r.sendIdx = n /\ n + 1 \in 1 .. Len(Sends)
    BY <1>13, <1>14, <1>15, <1>16 DEF Smaller
  <2>2. finished
    BY <1>10, SavedPair
  <2>3. n + 1 \in 1 .. Len(live.wire)
    BY <1>15, <2>1, <2>2 DEF SendInv
  <2>4. Sends[n + 1].message = Scrub[live.wire[n + 1]]
    BY <2>1 DEF SendInv
  <2>5. live.wire[n + 1] = Was.sends[n + 1]
    BY <2>3 DEF SendInv
  <2>6. Now.sends \in Seq(Messages)
    BY CallsTyped, HistoryTyped
  <2>7. n + 1 \in DOMAIN Now'.sends /\ Now'.sends[n + 1] = m
    BY <1>3, <1>13, <2>6
  <2>8. Scrub[m] = Scrub[Was.sends[n + 1]]
    BY <1>3, <2>7 DEF SameCalls, Was, Now
  <2> QED
    BY <2>1, <2>4, <2>5, <2>8
<1>17. Send(r, Scrub, m).mismatch = "none"
  BY <1>10, <1>11, <1>12, <1>16, SendFacts
<1> QED
  BY <1>1, <1>9, <1>17

LEMMA FaithfulClose ==
    ASSUME TypeInv, OpenInv, SendInv, CassetteInv, ServeInv, NoServeInv,
           FaithfulClientIsServed, ReplayCloseSend
    PROVE  FaithfulClientIsServed'
<1> SUFFICES ASSUME DOMAIN cassette' # {}, SameCalls'
             PROVE  stage' = "replay" /\ ~openErr' /\ rp'.mismatch = "none"
  BY DEF FaithfulClientIsServed
<1>1. /\ stage = "replay" /\ stage' = "replay" /\ cassette' = cassette
      /\ calls' = Closed("replay") /\ Now.closes = 0 /\ openErr' = openErr
      /\ rp' = IF openErr \/ rp = NoReplay THEN rp ELSE HalfClose(rp)
  BY DEF ReplayCloseSend, recordVars, Now
<1>2. calls \in [Runs -> Histories]
  BY DEF TypeInv
<1>3. Was' = Was /\ Now'.sends = Now.sends /\ Now'.closes = Now.closes + 1
  BY <1>1, <1>2, ClosedFacts, TheRuns DEF Was, Now
<1>4. SameCalls
  <2>1. \A i \in DOMAIN Now'.sends :
            i \in DOMAIN Was.sends /\ Scrub[Now'.sends[i]] = Scrub[Was.sends[i]]
    BY <1>3 DEF SameCalls, Was, Now
  <2>2. ~(Now.closes > 0)
    BY <1>1
  <2> QED
    BY <1>3, <2>1, <2>2 DEF SameCalls, Was, Now
<1>5. ~openErr /\ rp.mismatch = "none" /\ DOMAIN cassette # {}
  BY <1>1, <1>4 DEF FaithfulClientIsServed
<1>6. CASE rp = NoReplay
  BY <1>1, <1>5, <1>6
<1>7. CASE rp # NoReplay
  <2>1. /\ IsReplay(rp) /\ key \in DOMAIN cassette /\ rp.pair = cassette[key].pair
        /\ Places(rp, Now)
    BY <1>5, <1>7, ServeParts
  <2>2. rp.pair.sends = Sends /\ finished
    BY <2>1, SavedPair
  <2>3. Len(Now.sends) = Len(Was.sends)
    <3>1. Now'.closes > 0
      BY <1>1, <1>3
    <3> QED
      BY <1>3, <3>1 DEF SameCalls, Was, Now
  <2>4. Len(Sends) \in Nat /\ Len(live.wire) \in Nat /\ Len(Was.sends) \in Nat
    BY SendLengths
  <2>5. Len(Sends) <= Len(Now.sends)
    BY <2>2, <2>3, <2>4 DEF SendInv
  <2>6. rp.sendIdx = Smaller(Len(Now.sends), Len(Sends))
    BY <2>1, <2>2 DEF Places
  <2>7. ~(rp.sendIdx < Len(rp.pair.sends))
    BY <2>2, <2>3, <2>4, <2>5, <2>6 DEF Smaller
  <2>8. HalfClose(rp) = rp
    BY <1>5, <2>1, <2>7, HalfCloseFacts
  <2> QED
    BY <1>1, <1>5, <1>7, <2>8
<1> QED
  BY <1>6, <1>7

LEMMA FaithfulRecv ==
    ASSUME TypeInv, CassetteInv, ServeInv, FaithfulClientIsServed, ReplayRecvMsg
    PROVE  FaithfulClientIsServed'
<1>1. PICK x : x = IF RecvResult(rp) = "message"
                   THEN Message(rp.pair.recvs[rp.recvIdx + 1].message)
                   ELSE MapErr(RecvResult(rp))
  OBVIOUS
<1>2. /\ stage = "replay" /\ stage' = "replay" /\ cassette' = cassette
      /\ openErr' = openErr /\ calls' = Got("replay", x)
      /\ rp # NoReplay /\ rp' = Recv(rp)
  BY <1>1 DEF ReplayRecvMsg, recordVars
<1>3. x \in Results /\ calls \in [Runs -> Histories] /\ IsReplay(rp)
  BY <1>1, <1>2, ReplayedReads DEF TypeInv
<1>4. Was' = Was /\ Now'.sends = Now.sends /\ Now'.closes = Now.closes
  BY <1>2, <1>3, GotFacts, TheRuns DEF Was, Now
<1>5. SameCalls' <=> SameCalls
  BY <1>4 DEF SameCalls, Was, Now
<1>6. rp'.mismatch = rp.mismatch
  BY <1>2, <1>3, RecvFacts
<1> QED
  BY <1>2, <1>5, <1>6 DEF FaithfulClientIsServed

LEMMA NextFaithful ==
    IndInv /\ FaithfulClientIsServed /\ [Next]_vars => FaithfulClientIsServed'
<1> SUFFICES ASSUME IndInv, FaithfulClientIsServed, [Next]_vars
             PROVE  FaithfulClientIsServed'
  OBVIOUS
<1>1. /\ TypeInv /\ OpenInv /\ SendInv /\ RecvInv /\ CassetteInv
      /\ ServeInv /\ NoServeInv
  BY DEF IndInv
<1>2. ASSUME stage' \notin {"replay", "missed"} PROVE FaithfulClientIsServed'
  BY <1>2 DEF FaithfulClientIsServed
<1>3. ASSUME NEW opened \in BOOLEAN, NewRecordStream(opened)
      PROVE  stage' \notin {"replay", "missed"}
  BY <1>1, <1>3, NewRecordStreamEffect
<1>4. ASSUME SameReplay PROVE stage' \notin {"replay", "missed"}
  BY <1>4 DEF SameReplay
<1>5. ASSUME SenderStep PROVE SameReplay
  BY <1>1, <1>5, SendMsgEffect, LiveSendMsgEffect, CloseSendEffect, NoteSendEffect,
     NoteHalfCloseEffect DEF SenderStep
<1>6. ASSUME ReceiverStep PROVE SameReplay
  BY <1>1, <1>6, RecvMsgEffect, NoteRecvEffect, FinishStreamEffect DEF ReceiverStep
<1>7. ASSUME ServerStep PROVE SameReplay
  BY <1>1, <1>7, ServerSendsEffect, ServerEndsEffect DEF ServerStep
<1>8. ASSUME NewReplayStream PROVE FaithfulClientIsServed'
  <2>1. stage \in {"record", "failed"} /\ openErr' = openErr
    BY <1>8 DEF NewReplayStream
  <2>2. ~openErr /\ rp = NoReplay
    BY <1>1, <2>1 DEF NoServeInv
  <2>3. stage' = "missed" => DOMAIN cassette' = {}
    BY <1>1, <1>8, NewReplayStreamServe DEF NoServeInv
  <2>4. stage' \in {"replay", "missed"}
    BY <1>8 DEF NewReplayStream
  <2>5. rp' = rp \/ rp' = NewReplay(cassette[<<"n", 0>>].pair)
    BY <1>8 DEF NewReplayStream
  <2>6. rp'.mismatch = "none"
    BY <2>2, <2>5, NewReplayFacts DEF NoReplay
  <2> QED
    BY <2>1, <2>2, <2>3, <2>4, <2>6 DEF FaithfulClientIsServed
<1>9. ASSUME ReplayStep PROVE FaithfulClientIsServed'
  BY <1>1, <1>8, <1>9, FaithfulSend, FaithfulClose, FaithfulRecv DEF ReplayStep
<1>10. ASSUME UNCHANGED vars PROVE FaithfulClientIsServed'
  BY <1>10 DEF vars, FaithfulClientIsServed, SameCalls
<1> QED
  BY <1>2, <1>3, <1>4, <1>5, <1>6, <1>7, <1>9, <1>10 DEF Next

\* Whatever the recording lost to the race of SendMsg with the terminal, a
\* client that repeats its calls is never told of a miss or of a mismatch by
\* replayStream, in any interleaving of its sends and reads.
THEOREM RepeatingClientIsServed == Spec => []FaithfulClientIsServed
<1>1. Init => FaithfulClientIsServed
  BY DEF Init, FaithfulClientIsServed
<1> QED
  BY <1>1, Invariant, NextFaithful, PTL DEF Spec
=============================================================================
