# A verification project for xrr

xrr records the interactions of a program with the outside world (a command, an
HTTP request, a gRPC stream...) into *cassettes*, pairs of YAML files named after
a fingerprint of the request, and replays them later without the outside world.
This directory holds TLA+ models of the Go implementation (`src/go`), TLC
configurations that check them on small instances, and TLAPS proofs of the
central facts for every instance. `PROJECT.json` maps every definition to the
lines it models and lists the runs, mutants, findings, hazards and theorems.

## 1. The system

| Component | State it keeps | Operations | What makes it correct |
|---|---|---|---|
| Streamed cassette format (`go/stream.go`, `go/stream_cassette.go`) | a pair: send frames, recv frames, half-close, terminal, all numbered by one counter | `ValidateStreamPair`, `SaveStream`, `LoadStream` | what loads is one whole recording; every malformed pair is refused |
| Stream session and handles (`go/stream_session.go`, `go/stream_scrub.go`, `go/session.go`) | occurrence counters per session; `StreamRecording`; `StreamReplay` | `OpenStreamRecord`, `RecordSend/Recv/HalfClose`, `Finish`, `OpenStreamReplay`, `Send`, `HalfClose`, `Recv` | dense numbering under concurrency, counters in step between record and replay, exact and sticky mismatches, reads never gated on sends |
| gRPC stream interceptor (`go/adapters/grpc/stream.go`) | `recordStream`, `replayStream`: the handle, whether it is open, whether it is finished | `SendMsg`, `CloseSend`, `RecvMsg`, in two goroutines | the cassette is what happened; a client that behaves the same is served the same |
| Unary session and cassette (`go/session.go`, `go/cassette.go`, `go/xrr.go`) | the directory | `Record` in three modes, `Save`, `Load` | what was returned as recorded replays; a replay is one recorded outcome |
| Transport tap (`go/adapters/grpctransport/record.go`, `demux.go`, `headers.go`) | per direction an `io.Pipe` and a decoder goroutine; a tracker of streams | `Read`, `Write`, `Close`, `decode`, `handle`, `finish` | passive on the live path; a saved pair is one call; nothing is lost silently |
| Transport replay server (`go/adapters/grpctransport/replay.go`) | per connection: streams being buffered or served, probe counters; one session for all | `serve`, `onHeaders`, `onData`, `handleFrame`, `advance`, `inferReplayType`, `deliver` | a client that repeats the recording gets its replies; no recording is served twice; no reply is owed for ever |
| Redactor (`go/redact.go`) | compiled word lists and patterns | `RedactField`, `redactNode` | nothing secret by its name or its look is left; placeholders depend on names only |
| Canonical encoding, fingerprints (`go/canonical.go`) | none | canonical JSON, sha256 prefix | injective on what identifies a request |
| Unary adapters (`go/adapters/*`) | none | `Fingerprint`, `Serialize`, `Deserialize` | one cassette for one interaction, two for two |
| `xrr run` and shims (`go/cmd/xrr`) | layers of settings; a directory of shims, a call log, a report | merge settings, run a test command, serve, record or deny each shimmed call, report | nothing denied is executed; a failure fails the run; what is noted as recorded replays; no secret on disk |
| Environment configuration (`go/env.go`) | none | mode and directory from variables | - |
| Ports (`rs`, `py`, `ts`, `php`) | as in Go | as in Go | same format and session contract |

How they interact: adapters call the session; the session computes a fingerprint
and calls the cassette; cassettes of several processes meet in one directory,
with no lock. The gRPC interceptor and the transport tap are two observers that
feed `StreamRecording` from two goroutines each. Replay reads the directory when
a stream is opened and validates what the client sends against it. The transport
replay server has to choose a cassette before it has seen the whole call, by asking
which cassettes exist. `xrr run` starts a command with a directory of shims first on
`PATH`; every shim is a process of its own that meets the run only in files: its
configuration, the call log, and the cassettes.

What is hard here: the two files of a pair are written by separate operations
(crashes, failed writes, concurrent writers); the order of events is assigned by
whoever gets the handle's mutex, after the live call returned; the occurrence
counter must be consumed identically by two runs of a program; the tap stands
between a live connection and decoders that may stop; and shims may be killed, or
still be at work when the run that started them reads its log and removes their
directory. The list with one
entry per place is under `hazards` in `PROJECT.json`.

## 2. Modules

```
StreamFormat          the pair, ValidateStreamPair, files, LoadStream
  StreamHandle        StreamRecording and StreamReplay as records with operations
    StreamSession     sessions, counters, SaveStream file by file, replay
      StreamRefinement      implements Conversation;       MCStreamSession
      StreamSession_proofs  types, numbering, counters, the directory, what a
                            replay is served, the refinement (over
                            StreamRefinement)
    GrpcStream        the interceptor over StreamHandle;   MCGrpcStream
      GrpcStream_proofs     what is saved happened, and is what is replayed
  RecStream           one followed stream: its type, the pair of its events
    TransportTap      recordConn, decoders, tracker;       MCTransportTap
      TransportTap_proofs   one pair per stream, of one call; complete when
                            Close is clean, quiet after Close
    TransportReplay   replayConn over StreamHandle and the tap's cassettes;
                                                           MCTransportReplay
      TransportReplay_proofs   one recording, one call; one call, one answer;
                               the probes add up
  UnaryFormat         the files of a unary cassette and what read makes of them
    UnarySession      FileSession.Record and FileCassette; MCUnarySession,
                      with Adapters (fingerprints) and Redactor
      UnarySession_proofs   what was returned replays; one outcome
    XrrRun            runs and shims; MCXrrRun,
                      over RunConfig (settings, names) and Redactor
      XrrRun_proofs   failures, recordings, replays, inputs, repetitions,
                      what may run
Adapters              what each adapter fingerprints
Redactor              names, values, documents, arguments, environment values
RunConfig             layers of settings, deny list, names of shims
Demux                 byte-level reassembly;               MCDemux
  Demux_proofs        every cut of every conversation is reassembled
Conversation          the abstract specification of recording
SequenceLemmas        sequences without a fixed element set; induction and
                      recursion on numbers (used by the proofs about GrpcStream,
                      the tap, the replay server, Demux and xrr run)
```

**StreamFormat.** A frame is its number and its message. A file is absent,
truncated, of a unary cassette, or a half of a pair. A truncated file is what
`os.WriteFile` leaves before it writes, and also a beginning of what it wrote: no
beginning of a streamed file makes a pair that loads. In a resp file `end.seq` is the last key,
so that a beginning has no `end`, or one whose number has lost its last digits and is no
longer the next one, which validation refuses; and when the write of a req file stops, the resp
file of that save is never written. `LoadStream` keeps the order of the code's checks, which decides
between miss, malformed and shape mismatch. Timing (`at_ms`) and the text or
base64 form of a message are left out: replay does not look at them.

**StreamHandle.** Each operation of the two handles runs under the handle's mutex
and is one operator. `err` of `Finish` stands for an error with a text. A scrub
hook is a function on messages.

**StreamSession.** Variables: the counters (`FileSession.streamN`), the two halves
of the directory, the handles and where each is in its life; `opens` and `raw` are
history. `SaveStream` is four actions (open and write of each file), any of which
may fail, and the process may crash between any two; `LoadStream` is two reads.
An id stands for adapter, identity and type. The fingerprint is `<<id, n>>`: the
32-bit hash is taken to be injective. Unary and mixed-shape files are not put in
this directory; `UnarySession` has the converse case. Two overlapping
`os.WriteFile` calls on one file can leave a tail of the longer one: that is
modelled in `UnarySession` (`Garbled`), not here.

**GrpcStream.** One RPC recorded and then replayed. The live calls and the notes in
the recording are separate steps of the sending and of the receiving goroutine.
The live stream is external: messages are delivered in order, the terminal comes
last, sends may fail once the stream has ended. Marshalling is deterministic, so
messages are compared as wire bytes, and does not fail for a message that was just received.

**UnaryFormat.** A unary file is whole, cut short, garbled (two saves wrote it over one
another) or of a streamed cassette. `payload` is the last key of the envelope, so a
beginning of a file may parse as YAML and then has the whole error and a part of the
payload; `read` of a file that is cut short or garbled may accept it or not.

**UnarySession.** Calls of `Record` in any mode on a shared directory, each file
operation a step. A write that fails, or in which the process dies (`StopsIn`), leaves
the file as it was opened, whole, or with a beginning of the text; what a replay makes of
the last is `Beginning` of the payload. `latest` is history: who last began to record
under a fingerprint. A scenario says which calls are made and with which request; the
requests, their fingerprints and the redaction of payloads are constants, which
`MCUnarySession` takes from `Adapters` and `Redactor`.

**Adapters.** A request is a record with the fields of its adapter's `Request`; its
fingerprint is the set of fields that `Fingerprint` hands to the canonical encoder.
`SameInteraction` is what the adapters' comments say identifies a request. The command
of redis is a word with or without capitals, an SQL query its words and its blanks, a
URL its host, path and query.

**Redactor.** A name is its sequence of words, which is what `normalizeKey` compares; a
text is a sequence of fragments that are plain, carry a vendor's mark or are a
placeholder; a document is a function from paths to scalars. `redactNode`,
`scrubArgv`, `collectEnvSecrets` (with its sort) and `scrub` are operators on these.
`minSecretLen` is 2 fragments here and 8 bytes in the code. The word lists are those of the
code: which of two words makes a name secret is what decides whether a field of the checked
documents is masked.

**TransportTap.** A `Read` or `Write` is the socket operation, then a mirror write
that ends when the decoder takes the frame; `handle` is one step per event under
the tracker's mutex, `finish` included. One frame per `Read` or `Write`: a larger
chunk behaves as several in a row, since the mirror write returns only when its last
byte was taken and the interesting window, taken and not yet handled, is there for
a single frame. A failed `Read` closes the pipe of its direction with its error, the end of
the connection or another one. A closed pipe keeps its first error. A stream the tracker does not
know is one with nothing noted, which is what `get` would make of it. The numbers
that `finish` gives to the events when it replays them into a `StreamRecording`
are those that theorem `Numbering` is about. SETTINGS, PING, GOAWAY and other
noise produce no change and are left out; HPACK and HTTP/2 framing are external.

**RecStream.** What the tap keeps of one stream, `inferStreamType`, and the pair that
`finish` makes of its events: shared by the tap and by the replay of its cassettes.

**TransportReplay.** `cassettes` are those the tap saves of a recording of calls of
one method, one of them possibly lost, cut short or replaced by a unary one. A
connection's goroutine handles one frame, and when `advance` knows the type it is
`busy`: the open with the session's counter, the validation, the delivery and the
forgetting of the stream are the step after (`Serve`), so that another connection can
consume the counter between a probe and its open. A stream is
forgotten when it is served, so that the tests of `opened` and `done` in `advance` never
find one, and the model does not have them. The client, external, repeats the
calls in order or not, on one connection or two, and may send other messages or a bad
`:path`, cancel, or hang up. The server writes one reply for a call; the client stack
always reads.

**RunConfig.** The four layers (`user`, `project`, environment, flags) and
`mergeSettings`, the rules of `validate`, the default deny list, and the names of
shims: a name is a base, its extensions and whether it has capitals, which is what
`cassetteName` and the comparison on Windows look at. Files are given decoded, with the
keys they set; that durations and globs parse is not among the rules of `Valid`. The
default deny list is there entry by entry because `IsDenied`, and the proof that every
entry of it is denied, look names up in it.

**XrrRun.** Files are those of `UnaryFormat`. Runs follow one another over shared cassettes. A run is `Start` (load and
check the settings, prepare directories, write the shims, start the command),
`SuiteExits`, `ReadCalls`, `Report`, `RemoveRunDir`; an invocation is a shim that reads its
input with or without a limit, loads, runs the real command while its input is
copied, saves file by file and logs. Any shim may be killed between two of these
steps; a save, a look-up, the set-up or the report may fail; a line of the log may be lost
or torn. A save that is stopped (`StopsSaving`) leaves its file untouched, empty, with a
beginning, or whole; the exit code may then have lost its last digits (`CutNumbers`). For a
shim that is not stopped, opening and writing one file are one step, and so are the two
reads of a look-up: the properties that could tell ask that nobody else saves under
the key (`Alone`). The suite and the real commands are external. What a cassette holds is named by
the invocation that wrote it, and `WrittenReq`/`WrittenResp` give the scrubbed document.

**Demux.** The bytes of messages, cut into DATA frames at any place and interleaved
between streams, read either by `connDecoder` or by the replay server's `onData`.
The base and the number of digits of the length prefix are parameters; the digits of a
length are what repeated division leaves (`Shifted`). `Round` is one round of the loop in
`feed`, and `Drain` the whole loop.

**Conversation.** Each stream has a log of events that only grows until its terminal
and is published whole, once.

## 3. Runs

Passing runs (states are distinct states, 2 workers):

| Run | Instance | What it shows |
|---|---|---|
| `stream_record` (527k) | 2 recordings and 2 replays over one directory, 2 ids, no messages | the directory offers only whole recordings in spite of crashes and failed writes; a saved one stays what it is while others are saved, fail or crash; the k-th open replays the k-th recording; an open is refused only if its recording was not saved |
| `stream_converse` (265k) | 1 recording, 1 replay, 2 ids, 3 frames, a hook that swaps messages | numbering dense, `StreamSession` implements `Conversation`; mismatches are exact and final; reads reach the terminal |
| `grpc_replay` (1.1M) | one RPC of any type, 2 sends, 1 message back, 3 messages | what the race with the terminal may lose, and that a faithful client never notices; with a fair reader, a terminal that is read is recorded, even if the sender is stuck |
| `unary_replay` (1.4M) | 3 calls of one request, or 2 of a pair of requests of one adapter | what was returned to the caller replays, masked; a replay is one outcome, and half a payload only of a save that was stopped; it is of the same interaction |
| `tap_record` (737k) | one stream, 2 sends, 1 message back, everything that can go wrong | one call, one pair, complete when Close is clean, nothing after Close; Close returns and releases everybody, and the live path waits only for a decoder that is gone |
| `tap_streams` (469k) | two multiplexed streams | no mixing |
| `demux_tap` (63k) | two streams of up to two messages, all cuts | exactly the complete messages, END_STREAM with the last, failure only over the cap |
| `transport_replay` (339k) | 2 recorded calls of one type, 2 connections, one damaged cassette, one call that strays, one that is cancelled, one connection that breaks | a client in step is served what was recorded; the probes of all connections add up to the session's counter; one recording, one call; one answer; no reply owed for ever |
| `xrr_run` (327k) | 2 runs, 2 invocations of 7 programs, 6 plans of settings, one fault | nothing denied is executed, a failure fails the run, what is noted as recorded loads and replays, only recordings are replayed, and a failure never as a success, even from a file cut short, real commands get their input, no secret on disk, shims answer |

Runs that end in a violation state what a comment or the format specification says
and show that the code does something else; each is a finding in `PROJECT.json`:

| Run | The statement | What happens |
|---|---|---|
| `grpc_half_close` | a half-close before the terminal is always recorded before it | it can be dropped: it is noted after the live call returned |
| `tap_passive` | the tap never delays or withholds a byte | after a decoder has refused a compressed stream nobody reads its pipe, and the next `Read` or `Write` of the connection blocks |
| `demux_replay` | a message split over DATA frames is reassembled | the replay server uses a new decoder for every frame |

More places where the code departs from its documents, or may surprise, were met while
modelling. They have no run, since each can be read off one line, and the models and
properties take the code as it is:

* a command that cannot be started is recorded without its input, so that the same call
  with a piped input misses in replay (`Steady` leaves it out);
* two processes that save under one fingerprint can leave the req file of one
  conversation beside the resp file of the other, because `SaveStream` writes two files
  without a lock; the format's "last-write-wins" is not what happens. The theorems
  about the directory are stated for one recording session;
* an error whose text is empty is written like no error and replays as a success
  (`ReplayIsOneOutcome` says so; `ReturnedIsReplayable` leaves such errors out);
* the tap ignores trailers that are handled before the request headers of their stream,
  and the call is not recorded, although `record.go:65` has every stream that reached its
  terminal persisted; `CleanCloseIsComplete` speaks of the others (`routing`);
* `streamTracker.finish` drops the error of `Finish`, so that a pair that could not be
  written does not "surface at Close"; `CleanCloseIsComplete` excepts such streams
  (`unsaved`);
* the `Read` that Close interrupts may close the pipe first, and Close then reports an
  incomplete recording that is complete;
* the tap opens the recording of a call when the call ends, so overlapping calls of one
  method get their occurrence numbers in the order they end; replay counts opens;
* the replay server's probe counters are per connection, the session's are not: with a
  second connection the "lockstep" of the comment at `replay.go:104` is lost, and
  `ProbesPartitionOpens` is what remains;
* a recording with several sends and one reply before the half-close is taken for a
  client stream, which is served at the half-close: a client that waits for the reply
  first waits for ever (`Stuck`);
* while recording, the standard input is copied also when it is a terminal or
  `/dev/null`, against the comment at `shim.go:247`;
* a name with two executable extensions (`open.exe.exe`) is not matched by the deny entry
  for the name without them;
* when the report cannot be written, the run returns `exitViolation` in place of the
  command's own code (`main.go:18`, `docs/xrr-run.md:95`);
* after a miss, the goroutine that read the input for the look-up may still be in `Read`
  and takes the next chunk away from the real command (`shim.go:155`);
* a call made in the background after the shims were removed runs the real command;
* a save that was stopped can leave a resp file that parses, and replays with a part of the
  output: `os.WriteFile` truncates and writes in place, and `payload` is the last key
  (`ReplayIsOneOutcome` and `ReplayIsOfARecording` say what is left of the outcome then);
* redis joins arguments with blanks before hashing, so that arguments with blanks can
  share a cassette: no argument of the instance of `ReplayIsOfTheSameInteraction` has one.

**Bounds.** `RecHandles`/`RepHandles`/`Calls`: two of a kind are enough for every
property that compares two recordings, and one replay with one recording for those
about a conversation; a third unary call lets a replay read between two saves.
`MaxFrames` = 3: a gap, a duplicate or a swap needs two events of one direction
and one of the other; it is 0 in `stream_record`, whose properties are about files and
counters and do not look inside a recording (the theorems have no such bound). `MaxSends` = 2 in `GrpcStream` gives a send that is recorded and
one that races with the terminal; `MaxRecvs` = 1 is enough there because reads are
made by one goroutine. In the tap, two messages may share a frame. In `Demux`, bytes
are bits and lengths have two digits: prefixes can be cut anywhere, the two digit
orders differ, payloads look like prefixes, and sizes 2 and 3 lie at and over the cap.
The scrub hooks (`SwapHook`, `MixHook`) are not idempotent, and the second is not
injective, so that a hook applied twice, or not at all, shows. `NumCalls` = 2 and two `Conns` give every pair of orders of a probe and an open of the
other connection, and a second call that depends on what the first has consumed;
`Damages` hits one cassette, `Wayward`, `Impatient` and `Flaky` are one each. In
`xrr_run`, `NumRuns` = 2 is a recording run followed by a replaying one (or two that
cannot start), `NumInvocations` = 2 a call and its repetition, or one in the foreground
and one in the background, and `MaxFaults` = 1 every single point of failure. The
programs have a secret argument in each form, an input that is whole, silent, late or a
device, a real command that is missing, or broken and given an input, and a denied name in another spelling;
the value of one secret variable begins with that of another.

**Symmetry** is used for handles, calls and streams in safety runs only.

**Deadlock** is not checked: the handles, calls and streams of an instance are finite,
and the system may stop when all are done. That nobody waits for ever where somebody
should go on is stated by the liveness properties.

**Fairness.** `StreamSession!FairSpec`: the client of an open replay keeps reading
(`ReadsReachTerminal` is about such a client). `GrpcStream!FairSpec`: the receiving
goroutine keeps calling `RecvMsg`; nothing is assumed of the sending one, which flow
control may block, nor of the server. `TransportTap!FairSpec`: a decoder, a released
mirror write and `Close` go on when they can, which is what the Go scheduler gives a
runnable goroutine; nothing is assumed of client or server, nor that Close is called.
`TransportReplay!FairSpec`: the goroutine of a connection goes on while there are frames,
and a client in a call goes on unless it waits for a reply. `XrrRun!FairSpec`: the
operating system runs the shims, and a real command that has its input, or does not read
it, ends; nothing is assumed of the suite.

**Mutants.** For every property of every passing run, an operator next to the
definition it replaces (marked `Mutant:`) is a plausible bug that the run detects.

## 4. Proofs

The theorems hold for every value of the constants: all sets of sessions, handles, ids,
messages, requests, connections, calls, programs and plans, all scrub hooks, and with
no bound on the counters. What is assumed of the constants is in the named `ASSUME`s of
the modules (`SessionAssumption`, `TapAssumption`, `ReplayAssumption`, `UnaryAssumption`,
`RunAssumption`, `ProgramsAssumption`, `GrpcAssumption`, `DemuxAssumption`), which TLC
evaluates on every run: that they have their types, that a handle is either for recording
or for replay, that an exit code is a natural number (`exitCodeOf`), that the connections
are finitely many (their counters are added up), and that the prefix has digits enough for
the length of every message sent. Some theorems have a further hypothesis, named where
they are described below.

Recording (`StreamSession_proofs`, `TransportTap_proofs`):

* `TypeCorrect`: `TypeOK` is inductive. One lemma per operation of a handle gives the
  type of its result.
* `Numbering`, `Accepted`: `DenselyNumbered` says that send frames, recv frames,
  half-close and terminal share out `0 .. seq-1`, each list ascending, none twice. It is
  inductive operation by operation (`RecordSendDense`, ...), from lemmas about
  appending a frame. A dense recording satisfies `ValidateStreamPair` when it is
  finished, so `SaveStream` never refuses one (`Accepted`, which no run checks on its own).
* `Separation`: needs `CounterPassed`, that the number of every opened
  counter-addressed recording is below its session's counter; `CounterSeparates` alone
  is not inductive, since it says nothing about the next number.
* `WholeRecordings`, `Durability`: for instances with one recording session whose ids
  are counter-addressed (`SingleWriter`; with two writers the property is false, see
  section 3). `DirectoryInv` says that a recording being saved is finished
  and valid, that each file is what the phase of its recording says (absent, truncated
  or written), and that every file belongs to a recording. Steps of one recording
  disturb no other's files because, by `Separation`, their fingerprints differ.
  A crash changes phases and no file, which is why the invariant speaks of files
  through the phases before it.
* `OnePair`, `Quiet` (tap): a stream is followed by the tracker only after its request
  headers were handled, which happens once; `HeadersOnce` tracks where those headers
  are (unsent, in the mirror write, in the decoder's queue, handled), and a saved
  stream is one whose headers are handled and which the tracker no longer follows.
  `Quiet` rests on Close having waited: when it is done, both decoders are gone and
  hold no event.
* `OneCall` (tap): `SavedPairIsOneCall` for any number of streams and messages, frames
  with any number of messages, and any interleaving of the two decoders with Close.
  The inductive invariant is `CallInv`. For each direction of each stream there is a
  number `h` of messages handled so far, such that (`Flow`) the messages on the wire are
  those `h`, then the ones in the decoder's queue, then, as long as the pipe is open and
  the decoder alive, the ones in the mirror write, and nothing else; once the direction
  is cut off they may fall short. `TracksUp` and `TracksDown` relate `h` to the stream in
  the tracker: its sends are the first `h` messages of the client, its recvs the last
  ones among the `h` of the server, all of them if the request headers came first, and a
  half-close is noted only when every message of the client has been handled and after
  its sends. `Opens` says that while the request headers are on their way nothing of
  the stream has been noted, and that they are the first frame. A step of one direction
  leaves the other's `h` alone (`KeepsUp`, `KeepsDown`), and a stream the step is not
  about altogether; a pair that is saved is `PairOK`, which later frames of the stream
  cannot spoil: after the half-close there are no more messages to come.
* `CleanClose` (tap): `CleanCloseIsComplete`. The argument follows the
  server's trailers. `AnswerInv`: a reset is the last the server sends on a stream, and
  nothing else follows its trailers, and as long as Close has not begun the client
  has read everything but what is in the mirror write. `LeadInv`: the first
  event of a stream that the client's decoder hands to the tracker is its request headers,
  so that the tracker can be late but never begins in the middle. `FollowInv`: a call whose
  request headers came first is in the tracker until its end has been handled, and when the
  client has read its trailers they are still queued, or the pair is saved with
  every message before them, or its save failed (`unsaved`, which the property leaves out). With `CallInv` the
  count of messages handled (`h`) is then all of them.

`MessagesIn` and `FramesOf` are recursive functions of a sequence, and `OneCall` needs to
know what they yield when a frame or an event is appended. `SequenceLemmas` derives
induction on natural numbers for a set (`NumberInduction`) from the well-foundedness of
their order, which needs no theorem with an operator parameter; by it the functions
exist, are unique, and grow by one step (`MessagesGrow`, `FramesAppended`).

Replaying a stream (also in `StreamSession_proofs`), for one recording session as above, on top of
`DirectoryInv`:

* `KthForKth`: `OrdinalInv` says that the number of a counter-addressed open is one less
  than the count of opens of its id up to it, in every session, and that the
  counter is the count of all of them. So the k-th open and the k-th recording of an id
  have the same fingerprint, and `ServedInv` says that a replay holds the pair which the
  recording with its fingerprint saved. Opens that miss, and recordings that are never
  saved, count too, which is why the invariant speaks of opens and not of replays.
* `SavedIsServed`: an open reads the two files in two steps. Between them `ServedInv`
  keeps what it has read equal to what is on disk; a saved pair stays (`DirectoryInv`),
  so that the second read completes the pair and its validation passes.
* `ExactMismatch`: `RecordedInv` (the send frames of a recording are the scrubbed
  messages of its client) and `ComparedInv` (how far a replay has compared, and what it
  says of the messages sent to it). Hooks are arbitrary functions: they need be neither
  injective nor idempotent.
* `MismatchSticks` holds of every instance, with any number of writers.

`Refinement` (at the end of `StreamSession_proofs`): `Spec => ImplementsConversation` for one recording
session. `LogOf` merges the events of both files by their numbers. The lemmas say that
with dense numbering each number up to the next one is held by one event, so that
noting an event appends it to the log; that a step of another handle leaves the log
alone; and that the last write of `SaveStream`, and no step before it, publishes the log.
The mapping needs `DenseNumbering` and `DirectoryInv`, and that a slot which was never
opened has an empty log.

The interceptor (`GrpcStream_proofs`), for all hooks, any number of messages and every
interleaving of the two goroutines of the client with each other and with the server:

* `SavedPairHappened`: `SavedPairIsWhatHappened`. `SendInv` says that the recorded sends are
  those on the wire, but for one whose note is still to come or came after the
  terminal, and that those on the wire are those the client called, but for one that
  is in the live call or failed there. `RecvInv` says that what was handed to the client is
  what is recorded, then at most a terminal, read only when everything before it was.
  `CassetteInv` ties the saved pair to the recording as it was finished. One
  send can be lost and no more: a goroutine is in one call at a time.
* `ReplayReadsTheRecording`: `ReadsAreReplayed`. `ServeInv` keeps the two places of the
  replay where the calls so far put them, until a mismatch, and its reads equal to
  the messages of the pair; `RecvInv` gives what those are.
* `RepeatingClientIsServed`: `FaithfulClientIsServed`, by the two above. The lost send does
  no harm because the recorded ones are a beginning of those called, and a send past
  the last recorded one is the end of the stream and not a mismatch; an unrecorded
  half-close is accepted in the same way.

Unary calls (`UnarySession_proofs`):

* `ReturnedReplays`: `ReturnedIsReplayable`, about the result that `Record` has given to its
  caller: swallowing the error of `Save` breaks it. `SavesInv` says of every fingerprint
  on which no two saves have met that it has at most one saver, which is the last to have
  begun, that its files are in step with that saver, and that they are those of
  the outcome once it was returned. Files that a stopped save has left are not
  spoken of: its caller got an error, or died.
* `ReplayReturnsOneOutcome`: `ReplayIsOneOutcome`, without a hypothesis. `OutcomeInv` says that
  every resp file that can be read holds the envelope of one recorded call with this
  fingerprint, whole, or cut short and then of a call that was stopped. That calls with
  one fingerprint are one interaction is not in the theorem, since it is a matter of the
  adapters (and not true of redis arguments with blanks): `ReplayIsOfTheSameInteraction`
  is checked by TLC on requests of every adapter.

The transport replay server (`TransportReplay_proofs`):

* `ServedOnce`: the number under which a call was served is below the session's
  counter for its stream type (`ServedInv`); the property alone says nothing about the next open.
* `OneAnswer`: a connection handles a frame only of a call of its own, and the headers of a
  call come once and before its other frames (`FramesHome`, `HeadersFirst`); a stream that
  is in the server's map is not answered, and an answered one has been forgotten and
  cannot come back (`KnownUnanswered`, `IdleUnseen`), also when the answer was a refusal
  made while the headers were handled.
* `ProbesAddUp`: `ProbesPartitionOpens`, the probe counters of the connections
  add up to the session's counter for every stream type and identity. The module derives
  what a sum over a finite set becomes when one of its terms grows by one, and shows
  that every step which opens adds one to one connection's counter and to the session's.

Reassembly of messages (`Demux_proofs`), for any number of streams, any conversations, any
base and number of digits of the prefix and any cap:

* `Reassembles`: `Reassembled` of the tap's decoder. `Follows` says of the bytes framed so
  far that for some `k` the first `k` messages have been cut off and the buffer begins where
  the next one does, which is not complete. `DrainStream` says that the loop of `feed`,
  given a piece of a stream that begins where a message does, cuts off the messages
  that end in it and leaves such a piece. `StreamOK` adds the queue between `feed` and
  `next` and where END_STREAM is: with the last event, or still queued.
* `CapOnly`: `FailsOnlyOverCap`. As the buffer always begins where a message does, a
  length that is read is one a peer has sent.

The wire form, the digits, the loop and the list of events are recursive functions. That
a function with the equation exists, and is the one the definition chooses, is
proved by induction in the way of `SequenceLemmas`.

Runs and shims (`XrrRun_proofs`). A first part says what each step does to the record of an
invocation, so that the six arguments need not look into the actions again. All rest on
`Good` (types, and what the phase of a shim says of its mode, key and outcome):

* `FailureFails`: `ReportInv` follows a failure from the shim to its line in the log, to
  what the run has read, and to the exit code. The line of a shim that ended before the suite
  is there when the log is read, because a shim notes its outcome before it ends.
* `RecordedLoads`: `SavedInv`, the files of a key in step with the only shim that
  saves under it; shims that are killed or whose save fails leave it true, because they
  note nothing as recorded.
* `ReplaysRecordings`: `SourceInv`, every resp file that can be read was there before, or has
  the outcome of a shim that saved under its key: whole, if that shim noted it as recorded,
  and maybe cut short if it was stopped. Keys are of directory, name, arguments and input,
  so the recording is for the same call. A file cut short keeps the error, so that a
  failure stays one whatever is left of the digits of the exit code.
* `RealGetsAll`: `InputInv`, what has been taken of the input is a beginning of it, and
  the command is fed the same beginning, whether it was read to look for a cassette, or
  copied while the command runs.
* `RepeatReplays`: from the last invariants and `RepeatInv` (the configuration of a run
  is the one its plan gives, a shim goes by the cassette name of its command, and a
  call that was over when another began stays over). Hypothesis `NamesAgree`: the file which a
  name leads to stands for a command with the same cassette name; it fails for names with
  two executable extensions (section 3).
* `OnlyAllowedRuns`: `AllowInv`, a shim that is past its first step has looked its name up
  in the deny list it was given, and one that ran its command did not replay strictly.
  The property is about the four layers, and the list a shim is given is
  what `union`, `mergeSettings` and `resolve` made of them, so the proof follows the lists:
  the union of two lists has the entries of both and no other (`UnionFacts`), the defaults are added
  to the deny list unless they are named (`DeniedFacts`), the merged value of a
  scalar is that of the highest layer that sets it (`EffectiveIsMerged`). `cassetteName` applied twice
  is applied once, for names with at most one extension (`CassetteNameTwice`). Hypotheses
  `NamesAgree` and `NamesFound`: where the deny list names a command there is a shim for
  it. The second fails if the list has `mailx.exe` on Linux and the command is `mailx`.
  Assumed of the constants is that settings have the keys of the struct and lists of
  names, and that names have lists of extensions (`RunAssumption`, `ProgramsAssumption`).

`NamesAgree` and `NamesFound` are about the constants only, and TLC finds both true of the
instance of `xrr_run` (`NamesHypotheses` in `MCXrrRun`).

The attempt to prove `RecordedCallReplays` showed that the property was wrong as it had
stood: a command that cannot be started is recorded without its input, since `execReal`
returns before it copies any (`shim.go`), and its repetition with a piped input is a
miss. The instance had no such program. `Steady` now asks that the command starts, and the
instance has a program with an input whose command does not.

Only model-checked, besides the liveness properties (fairness is outside the prover's
reach):

* `FaithfulClientIsServed` of the transport replay server: it relates the client, the
  frames in flight, the server's buffers and a handle for every call at once, and its
  inductive invariant has not been written.
* `ReplayIsOfTheSameInteraction`: what it is about is in the constants.
* `SecretsStayOffDisk`: it rests on what the replacement of every occurrence in a text
  leaves, for every text.

## 5. Not modelled, and the plan

Modelled first was what every recording goes through (format, handles, session), then
the interceptor, the unary session and the tap, then the replay server, the adapters, the
redactor and `xrr run`. In order, what is left:

1. Proofs: `FaithfulClientIsServed` of the replay server, with `ServeInv` of the
   interceptor as the model for one call.
2. The parse rules of a streamed file as a pure module, checked against the format's rule
   list, and the percent-coding of `grpc-message` with it.
3. Ports: where their session or cassette differs in control from Go's (temporary files,
   locking, error mapping), as variants of the same actions.

Left out for good: the environment variables (`go/env.go`, a few string comparisons),
the adapters beyond what identifies a request, YAML and JSON libraries, the escaping of
strings in canonical JSON, the globs of the scrub lists (given by the names they match),
the search for an executable along `PATH`, the version command, HTTP/2 framing and HPACK,
hashing (taken as injective), timing fields, examples and benchmarks.
