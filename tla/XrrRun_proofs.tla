--------------------------- MODULE XrrRun_proofs ---------------------------
(***************************************************************************)
(* Proofs about XrrRun for any number of runs and of commands running at   *)
(* once, any programs and any faults.                                      *)
(*                                                                         *)
(* The first part says field by field what a step does to the record of an *)
(* invocation.  The theorems then rest on one inductive invariant each:    *)
(* ReportInv (the log, what the run has read of it, its exit code),        *)
(* SavedInv (the files in step with the phase of who writes them),         *)
(* SourceInv (every resp file is of a recording, or was there before),     *)
(* InputInv (what was taken of the input is what was passed on), RepeatInv *)
(* (what a repetition of a recorded call finds) and AllowInv (who may run, *)
(* by the configuration of the shim).  For the last one the lists of       *)
(* settings are followed from the layers into that configuration.          *)
(***************************************************************************)
EXTENDS XrrRun, SequenceLemmas

Phases == {"stdin", "exec", "saveReq", "saveResp", "log", "done", "killed"}

Outcomes == {"none", "denied", "miss", "error", "replayed", "passthrough", "recorded"}

Fields == {"at", "env", "run", "prog", "shim", "onPath", "name", "taken", "acc",
           "fed", "leftover", "ran", "code", "outcome", "logged", "key", "after"}

RunFields == {"at", "code", "dir", "child", "seen", "inTime", "cfg"}

LogEntries == [by : Invocations, outcome : Outcomes \cup {"torn"}]

\* A run that has got as far as its suite.
Configured(r) == run[r].at # "idle" /\ run[r].dir # "none"

RunShape(r) ==
    \/ run[r].at = "idle"
    \/ run[r].at = "exited" /\ run[r].dir = "none"
    \/ /\ DOMAIN run[r] = RunFields
       /\ run[r].at \in {"suite", "waited", "read", "removing", "exited"}
       /\ run[r].dir \in {"whole", "partial", "gone"}
       /\ run[r].at = "exited" => run[r].dir = "gone"

CallShape(i) ==
    \/ inv[i] = Idle
    \/ /\ DOMAIN inv[i] = Fields
       /\ inv[i].at \in Phases
       /\ inv[i].run \in Runs /\ inv[i].prog \in Programs
       /\ inv[i].outcome \in Outcomes

TypeOK ==
    /\ plan \in Plans
    /\ DOMAIN run = Runs /\ \A r \in Runs : RunShape(r)
    /\ DOMAIN inv = Invocations /\ \A i \in Invocations : CallShape(i)
    /\ log \in [Runs -> Seq(LogEntries)]

Mode(i) == Cfg(inv[i].run).mode

\* What the phase of a shim says of the rest of it.
InPhase(i) ==
    /\ Configured(inv[i].run)
    /\ inv[i].at = "stdin" => Mode(i) = "replay" /\ ~inv[i].ran
    /\ inv[i].at \in {"saveReq", "saveResp"} =>
          Mode(i) = "record" /\ inv[i].key = {KeyFor(inv[i])} /\ inv[i].code \in Nat
    /\ inv[i].at \in {"stdin", "exec"} => inv[i].key = {}
    /\ inv[i].at \in {"stdin", "exec", "saveReq", "saveResp"} =>
          inv[i].outcome = "none" /\ inv[i].shim
    /\ inv[i].outcome = "recorded" =>
          Mode(i) = "record" /\ inv[i].key = {KeyFor(inv[i])} /\ inv[i].code \in Nat
    /\ inv[i].key # {} => inv[i].key = {KeyFor(inv[i])} /\ inv[i].code \in Nat
    /\ inv[i].outcome = "replayed" => Mode(i) = "replay"
    /\ inv[i].outcome # "none" => inv[i].shim
    /\ inv[i].logged # "none" => inv[i].at = "done"

PhaseInv == \A i \in Invocations : Begun(i) => InPhase(i)

Good == TypeOK /\ PhaseInv

-----------------------------------------------------------------------------
\* What a run may still fail for: a command that ended before the suite did
\* and whose line is in the log.
Counts(r, i) ==
    /\ i \in Invocations /\ Begun(i)
    /\ inv[i].run = r /\ Over(i)

Waited(r) == run[r].at \in {"waited", "read", "removing", "exited"} /\ run[r].dir # "none"

LineWritten(i) ==
    Begun(i) /\ inv[i].logged = "ok" =>
        \E n \in DOMAIN log[inv[i].run] : log[inv[i].run][n].outcome = inv[i].outcome

LineSeen(r, i) ==
    inv[i].logged = "ok" =>
        \E n \in DOMAIN run[r].seen : run[r].seen[n].outcome = inv[i].outcome

Harmless(i) == inv[i].logged = "ok" => inv[i].outcome \notin {"denied", "miss", "error"}

Reported(r) ==
    /\ Waited(r) => \A i \in run[r].inTime : Counts(r, i)
    /\ Waited(r) /\ run[r].at = "read" => \A i \in run[r].inTime : LineSeen(r, i)
    /\ Waited(r) /\ run[r].at \in {"removing", "exited"} /\ run[r].code = 0 =>
          \A i \in run[r].inTime : Harmless(i)

ReportInv ==
    /\ \A i \in Invocations : LineWritten(i)
    /\ \A r \in Runs : Reported(r)

\* The files under the key of a shim that nobody else saves under are as far
\* as the shim is.
Saved(i) ==
    Begun(i) /\ Alone(i) =>
       /\ inv[i].at = "saveResp" \/ inv[i].outcome = "recorded" =>
             ReadStreamFile(reqFiles, KeyFor(inv[i])) = Content(i, 0, FALSE)
       /\ inv[i].outcome = "recorded" =>
             ReadStreamFile(respFiles, KeyFor(inv[i])) =
                Content(i, inv[i].code, inv[i].code # 0)

SavedInv == \A i \in Invocations : Saved(i)

\* A save that has said it failed, or died.
Stopped(j) ==
    inv[j].outcome = "error" \/ (inv[j].at = "killed" /\ inv[j].outcome = "none")

\* Every resp file is empty, was there before, or is of a recording; one that
\* was stopped has left the error of the call, but maybe not all of its code.
RecordedBy(k, j) ==
    /\ Begun(j) /\ inv[j].key # {} /\ KeyFor(inv[j]) = k
    /\ respFiles[k].error = (inv[j].code # 0)
    /\ \/ inv[j].outcome = "recorded" /\ respFiles[k].code = inv[j].code
       \/ Stopped(j) /\ respFiles[k].code \in 0 .. inv[j].code

Sourced(k) ==
    \/ respFiles[k] = Truncated
    \/ k \in DOMAIN Foreign
       /\ respFiles[k] = Content(0, Foreign[k].code, Foreign[k].error)
    \/ \E j \in Invocations : RecordedBy(k, j)

SourceInv ==
    /\ \A k \in DOMAIN respFiles : Sourced(k)
    /\ ReplayIsOfARecording

\* What was taken of the input is a beginning of it; what a command that was
\* given its input is fed, and what a saved call has kept of it, is all of it.
Saving(i) == inv[i].at \in {"saveReq", "saveResp"}

FirstOf(part, whole, n) ==
    /\ part \in Seq({whole[m] : m \in DOMAIN whole}) /\ Len(part) = n
    /\ \A m \in 1 .. n : part[m] = whole[m]

InTime(i) == ~Stdin(i).slow /\ Stdin(i).closes

Read(i, text) == FirstOf(text, Stdin(i).chunks, inv[i].taken)

Copied(i) ==
    Begun(i) /\ inv[i].at \in {"stdin", "exec"} =>
        /\ inv[i].taken \in 0 .. Len(Stdin(i).chunks)
        /\ inv[i].at = "stdin" => Read(i, inv[i].acc) /\ inv[i].leftover = FALSE
        /\ inv[i].at = "exec" /\ InTime(i) => Read(i, inv[i].fed) /\ inv[i].leftover = FALSE
        /\ inv[i].at = "exec" /\ Mode(i) = "record" => Read(i, inv[i].acc)

FedAll(i) ==
    /\ Begun(i) /\ inv[i].shim /\ inv[i].onPath /\ inv[i].ran /\ inv[i].prog.reads
    /\ inv[i].at \in {"saveReq", "saveResp", "log", "done"} /\ InTime(i)
    => inv[i].fed = Stdin(i).chunks

KeptAll(i) ==
    /\ Begun(i) /\ Steady(inv[i].prog)
    /\ Saving(i) \/ inv[i].outcome = "recorded"
    => inv[i].acc = Stdin(i).chunks

InputInv == \A i \in Invocations : Copied(i) /\ FedAll(i) /\ KeptAll(i)

\* A repetition of a recorded call: its configuration, its name, the calls
\* that were over when it was made, and what becomes of it.
ConfigInv ==
    \A r \in Runs : Configured(r) => run[r].cfg = Config(Opts(r), plan[r].goos)

NameInv ==
    \A i \in Invocations :
        Begun(i) /\ inv[i].shim => inv[i].name = CassetteName(inv[i].prog.name)

AfterInv ==
    \A i \in Invocations : Begun(i) =>
        \A j \in inv[i].after : j \in Invocations /\ Begun(j) /\ Over(j)

\* Call i, in a replay, repeats call j, which was recorded.
Repeats(i, j) ==
    /\ Begun(i) /\ Begun(j) /\ i # j
    /\ inv[j].outcome = "recorded" /\ j \in inv[i].after /\ Alone(j)
    /\ inv[i].prog = inv[j].prog /\ Steady(inv[j].prog)
    /\ Cfg(inv[i].run).cassettes = Cfg(inv[j].run).cassettes
    /\ Mode(i) = "replay"

Served(i, j) ==
    Repeats(i, j) =>
        /\ inv[i].at # "exec"
        /\ inv[i].outcome \notin {"none", "denied"} =>
              inv[i].outcome = "replayed" /\ inv[i].code = inv[j].code

RepeatInv ==
    ConfigInv /\ NameInv /\ AfterInv /\ \A i, j \in Invocations : Served(i, j)

\* A call has a shim if one is installed; one that has run, or may come to
\* run, is not denied, and it does not run in a strict replay.
Allowed(i) ==
    /\ inv[i].shim = Installed(inv[i].run, inv[i].prog)
    /\ inv[i].onPath /\ inv[i].shim /\ (inv[i].at = "stdin" \/ inv[i].ran) =>
          ~InNames(Cfg(inv[i].run).deny, inv[i].name)
    /\ inv[i].onPath /\ inv[i].shim /\ inv[i].ran =>
          Mode(i) # "replay" \/ ~Cfg(inv[i].run).strict

AllowInv == \A i \in Invocations : Begun(i) => Allowed(i)

-----------------------------------------------------------------------------
(***************************************************************************)
(* What a step does to the record of an invocation: c before, d after.     *)
(***************************************************************************)
Keeps(c, d) ==
    /\ DOMAIN d = Fields /\ d.run = c.run /\ d.prog = c.prog /\ d.shim = c.shim
    /\ d.onPath = c.onPath /\ d.name = c.name /\ d.after = c.after

SameInput(c, d) ==
    d.taken = c.taken /\ d.acc = c.acc /\ d.fed = c.fed /\ d.ran = c.ran

SameResult(c, d) ==
    d.code = c.code /\ d.outcome = c.outcome /\ d.logged = c.logged /\ d.key = c.key

Moves(c, d, at) == Keeps(c, d) /\ SameInput(c, d) /\ SameResult(c, d) /\ d.at = at

Concludes(c, d, outcome, code) ==
    /\ Keeps(c, d) /\ SameInput(c, d)
    /\ d.logged = c.logged /\ d.key = c.key
    /\ d.at = "log" /\ d.outcome = outcome /\ d.code = code

Launches(c, d, leftover) ==
    /\ Keeps(c, d) /\ SameResult(c, d)
    /\ d.at = "exec" /\ d.ran = TRUE /\ d.fed = c.acc
    /\ d.taken = c.taken /\ d.acc = c.acc /\ d.leftover = leftover

Keyed(c, d, code) ==
    /\ Keeps(c, d) /\ SameInput(c, d)
    /\ d.outcome = c.outcome /\ d.logged = c.logged
    /\ d.at = "saveReq" /\ d.key = {KeyFor(c)} /\ d.code = code

Recorded(c) == Cfg(c.run).mode = "record"

Finishes(c, d, code) ==
    \/ Recorded(c) /\ Keyed(c, d, code)
    \/ ~Recorded(c) /\ Concludes(c, d, "passthrough", code)

Tried(c, d, leftover) ==
    \/ c.prog.real = "missing" /\ Concludes(c, d, "error", exitNotFound)
    \/ c.prog.real = "broken" /\ Finishes(c, d, exitNotFound)
    \/ c.prog.real \notin {"missing", "broken"} /\ Launches(c, d, leftover)

LEMMA ExecutedCases ==
    ASSUME NEW c, DOMAIN c = Fields, NEW code
    PROVE  Finishes(c, Executed(c, code), code)
<1>1. CASE Recorded(c)
  <2>1. Executed(c, code) =
           [c EXCEPT !.at = "saveReq", !.key = {KeyFor(c)}, !.code = code]
    BY <1>1 DEF Executed, Recorded
  <2>2. PICK k : k = KeyFor(c)
    OBVIOUS
  <2>3. Keyed(c, Executed(c, code), code)
    BY <2>1, <2>2 DEF Keyed, Keeps, SameInput, Fields
  <2> QED BY <1>1, <2>3 DEF Finishes
<1>2. CASE ~Recorded(c)
  <2>1. Executed(c, code) =
           [c EXCEPT !.at = "log", !.outcome = "passthrough", !.code = code]
    BY <1>2 DEF Executed, Recorded
  <2>2. Concludes(c, Executed(c, code), "passthrough", code)
    BY <2>1 DEF Concludes, Keeps, SameInput, Fields
  <2> QED BY <1>2, <2>2 DEF Finishes
<1> QED BY <1>1, <1>2

LEMMA ExecRealCases ==
    ASSUME NEW c, DOMAIN c = Fields
    PROVE  Tried(c, ExecReal(c), c.leftover)
<1>1. CASE c.prog.real = "missing"
  <2>1. ExecReal(c) = [c EXCEPT !.at = "log", !.outcome = "error", !.code = exitNotFound]
    BY <1>1 DEF ExecReal
  <2>2. Concludes(c, ExecReal(c), "error", exitNotFound)
    BY <2>1 DEF Concludes, Keeps, SameInput, Fields
  <2> QED BY <1>1, <2>2 DEF Tried
<1>2. CASE c.prog.real = "broken"
  <2>1. ExecReal(c) = Executed(c, exitNotFound)
    BY <1>2 DEF ExecReal
  <2> QED BY <1>2, <2>1, ExecutedCases DEF Tried
<1>3. CASE c.prog.real \notin {"missing", "broken"}
  <2>1. ExecReal(c) = [c EXCEPT !.at = "exec", !.ran = TRUE, !.fed = c.acc]
    BY <1>3 DEF ExecReal, AlreadyRead
  <2>2. Launches(c, ExecReal(c), c.leftover)
    BY <2>1 DEF Launches, Keeps, SameResult, Fields
  <2> QED BY <1>3, <2>2 DEF Tried
<1> QED BY <1>1, <1>2, <1>3

\* A miss of a replay that is not strict.
LEMMA MissCases ==
    ASSUME NEW c, DOMAIN c = Fields, NEW leftover
    PROVE  Tried(c, ExecReal([c EXCEPT !.leftover = leftover]), leftover)
<1>1. PICK e : e = [c EXCEPT !.leftover = leftover]
  OBVIOUS
<1>2. /\ DOMAIN e = Fields /\ e.leftover = leftover
      /\ e.run = c.run /\ e.prog = c.prog /\ e.shim = c.shim /\ e.onPath = c.onPath
      /\ e.name = c.name /\ e.after = c.after
      /\ SameInput(c, e) /\ SameResult(c, e)
  BY <1>1 DEF SameInput, SameResult, Fields
<1>3. KeyFor(e) = KeyFor(c)
  BY <1>2 DEF KeyFor, SameInput
<1>4. Tried(e, ExecReal(e), leftover)
  BY <1>2, ExecRealCases
<1> QED
  BY <1>1, <1>2, <1>3, <1>4 DEF Tried, Finishes, Recorded, Concludes, Launches, Keyed,
     Keeps, SameInput, SameResult

-----------------------------------------------------------------------------
(***************************************************************************)
(* The same for each action.                                               *)
(***************************************************************************)
Others(i) ==
    DOMAIN inv' = Invocations /\ \A j \in Invocations \ {i} : inv'[j] = inv[j]

LEMMA BegunCall ==
    ASSUME TypeOK, NEW i \in Invocations
    PROVE  /\ Begun(i) <=> inv[i].at # "idle"
           /\ Begun(i) =>
                 /\ DOMAIN inv[i] = Fields /\ inv[i].at \in Phases
                 /\ inv[i].run \in Runs /\ inv[i].prog \in Programs
                 /\ inv[i].outcome \in Outcomes
BY DEF TypeOK, CallShape, Begun, Idle, Phases

LEMMA StepToFacts ==
    ASSUME TypeOK, NEW i \in Invocations, NEW next, StepTo(i, next)
    PROVE  inv'[i] = next /\ Others(i)
BY DEF TypeOK, StepTo, Others

LEMMA ConcludeFacts ==
    ASSUME TypeOK, NEW i \in Invocations, Begun(i), NEW outcome, NEW code,
           Conclude(i, outcome, code)
    PROVE  Concludes(inv[i], inv'[i], outcome, code) /\ Others(i)
<1>1. PICK c : c = inv[i]
  OBVIOUS
<1>2. DOMAIN c = Fields
  BY <1>1, BegunCall
<1>3. inv'[i] = [c EXCEPT !.at = "log", !.outcome = outcome, !.code = code] /\ Others(i)
  BY <1>1, StepToFacts DEF Conclude
<1>4. Concludes(c, inv'[i], outcome, code)
  BY <1>2, <1>3 DEF Concludes, Keeps, SameInput, Fields
<1> QED BY <1>1, <1>3, <1>4

Takes(i, d) == d.taken = inv[i].taken + 1

LEMMA ReadStdinStep ==
    ASSUME TypeOK, NEW i \in Invocations, ReadStdin(i)
    PROVE  /\ Begun(i) /\ inv[i].at = "stdin" /\ More(i) /\ Others(i)
           /\ Keeps(inv[i], inv'[i]) /\ SameResult(inv[i], inv'[i])
           /\ inv'[i].at = "stdin" /\ inv'[i].ran = inv[i].ran
           /\ inv'[i].leftover = inv[i].leftover
           /\ Takes(i, inv'[i]) /\ inv'[i].acc = Append(inv[i].acc, NextChunk(i))
<1>1. PICK c, m : c = inv[i] /\ m = NextChunk(i)
  OBVIOUS
<1>2. Begun(i) /\ inv[i].at = "stdin" /\ More(i)
  BY BegunCall DEF ReadStdin
<1>3. DOMAIN c = Fields
  BY <1>1, <1>2, BegunCall
<1>4. inv'[i] = [c EXCEPT !.acc = Append(c.acc, m), !.taken = c.taken + 1] /\ Others(i)
  BY <1>1, StepToFacts DEF ReadStdin
<1>5. PICK a, n : a = Append(c.acc, m) /\ n = c.taken + 1
  OBVIOUS
<1>6. inv'[i] = [c EXCEPT !.acc = a, !.taken = n]
  BY <1>4, <1>5
<1>7. /\ Keeps(c, inv'[i]) /\ SameResult(c, inv'[i])
      /\ inv'[i].at = c.at /\ inv'[i].ran = c.ran /\ inv'[i].leftover = c.leftover
      /\ inv'[i].taken = n /\ inv'[i].acc = a
  BY <1>3, <1>6 DEF Keeps, SameResult, Fields
<1> QED BY <1>1, <1>2, <1>4, <1>5, <1>7 DEF Takes

LEMMA PumpStep ==
    ASSUME TypeOK, NEW i \in Invocations, Pump(i)
    PROVE  /\ Begun(i) /\ inv[i].at = "exec" /\ More(i) /\ Others(i)
           /\ Keeps(inv[i], inv'[i]) /\ SameResult(inv[i], inv'[i])
           /\ inv'[i].at = "exec" /\ inv'[i].ran = inv[i].ran
           /\ Takes(i, inv'[i])
           /\ inv'[i].leftover = FALSE
           /\ ~inv[i].leftover => inv'[i].fed = Append(inv[i].fed, NextChunk(i))
           /\ Mode(i) = "record" => inv'[i].acc = Append(inv[i].acc, NextChunk(i))
           /\ Mode(i) # "record" => inv'[i].acc = inv[i].acc
<1>1. PICK c, m : c = inv[i] /\ m = NextChunk(i)
  OBVIOUS
<1>2. Begun(i) /\ inv[i].at = "exec" /\ More(i)
  BY BegunCall DEF Pump
<1>3. DOMAIN c = Fields
  BY <1>1, <1>2, BegunCall
<1>4. PICK a, f, n :
         /\ a = IF Cfg(c.run).mode = "record" THEN Append(c.acc, m) ELSE c.acc
         /\ f = IF c.leftover THEN c.fed ELSE Append(c.fed, m)
         /\ n = c.taken + 1
  OBVIOUS
<1>5. /\ inv'[i] = [c EXCEPT !.taken = n, !.leftover = FALSE, !.fed = f, !.acc = a]
      /\ Others(i)
  <2>1. StepTo(i, [inv[i] EXCEPT
          !.taken = @ + 1,
          !.leftover = FALSE,
          !.fed = IF inv[i].leftover THEN @ ELSE Append(@, NextChunk(i)),
          !.acc = IF Cfg(inv[i].run).mode = "record" THEN Append(@, NextChunk(i)) ELSE @])
    BY DEF Pump
  <2>2. [inv[i] EXCEPT
          !.taken = @ + 1,
          !.leftover = FALSE,
          !.fed = IF inv[i].leftover THEN @ ELSE Append(@, NextChunk(i)),
          !.acc = IF Cfg(inv[i].run).mode = "record" THEN Append(@, NextChunk(i)) ELSE @]
        = [c EXCEPT !.taken = n, !.leftover = FALSE, !.fed = f, !.acc = a]
    BY <1>1, <1>3, <1>4 DEF Fields
  <2> QED BY <2>1, <2>2, StepToFacts
<1>6. /\ Keeps(c, inv'[i]) /\ SameResult(c, inv'[i])
      /\ inv'[i].at = c.at /\ inv'[i].ran = c.ran /\ inv'[i].leftover = FALSE
      /\ inv'[i].taken = n /\ inv'[i].acc = a /\ inv'[i].fed = f
  BY <1>3, <1>5 DEF Keeps, SameResult, Fields
<1> QED BY <1>1, <1>2, <1>4, <1>5, <1>6 DEF Takes, Mode

LEMMA RealExitsStep ==
    ASSUME TypeOK, NEW i \in Invocations, NEW code, RealExits(i, code)
    PROVE  /\ Begun(i) /\ inv[i].at = "exec" /\ Others(i)
           /\ inv[i].prog.reads => ~More(i) /\ Stdin(i).closes
           /\ Finishes(inv[i], inv'[i], code)
<1>1. Begun(i) /\ inv[i].at = "exec"
  BY BegunCall DEF RealExits
<1>2. inv'[i] = Executed(inv[i], code) /\ Others(i)
  BY StepToFacts DEF RealExits
<1>3. Finishes(inv[i], Executed(inv[i], code), code)
  BY <1>1, BegunCall, ExecutedCases
<1> QED BY <1>1, <1>2, <1>3 DEF RealExits

InReq(i) == ReadStreamFile(reqFiles, KeyFor(inv[i]))

InResp(i) == ReadStreamFile(respFiles, KeyFor(inv[i]))

Whole(i) == InReq(i).shape = "unary" /\ InResp(i).shape = "unary"

\* What the verdicts of Load say of the files.
LEMMA VerdictFacts ==
    ASSUME NEW req, NEW resp
    PROVE  /\ "ok" \in LoadVerdicts(req, resp) => resp \notin {Absent, Truncated}
           /\ req.shape = "unary" /\ resp.shape = "unary" => LoadVerdicts(req, resp) = {"ok"}
<1>1. ASSUME NEW file, file.shape = "unary"
      PROVE  ReadVerdicts(file) = {"ok"}
  <2>1. file # Absent /\ file # Truncated
    BY <1>1 DEF Absent, Truncated
  <2> QED BY <1>1, <2>1 DEF ReadVerdicts
<1>2. "ok" \notin ReadVerdicts(Absent) /\ "ok" \notin ReadVerdicts(Truncated)
  BY DEF ReadVerdicts, Absent, Truncated
<1> QED BY <1>1, <1>2 DEF LoadVerdicts

\* What replay does: a miss, in both of its forms, a cassette that cannot be
\* read, or the recorded result.
Answers(i) ==
    \/ /\ ~Whole(i)
       /\ \/ Concludes(inv[i], inv'[i], "miss", exitMiss)
          \/ \E leftover \in BOOLEAN :
                (leftover => TimesOut(i)) /\ Tried(inv[i], inv'[i], leftover)
    \/ ~Whole(i) /\ Concludes(inv[i], inv'[i], "error", exitUsage)
    \/ /\ InResp(i) \notin {Absent, Truncated}
       /\ Concludes(inv[i], inv'[i], "replayed", ReplayedCode(InResp(i)))

LEMMA LoadStep ==
    ASSUME TypeOK, NEW i \in Invocations, Load(i)
    PROVE  /\ Begun(i) /\ inv[i].at = "stdin" /\ Others(i)
           /\ AtEnd(i) \/ TimesOut(i)
           /\ Answers(i)
<1>1. Begun(i) /\ inv[i].at = "stdin"
  BY BegunCall DEF Load
<1>2. PICK leftover \in {FALSE, TRUE}, v \in LoadVerdicts(InReq(i), InResp(i)) :
         /\ IF leftover THEN TimesOut(i) ELSE AtEnd(i)
         /\ \/ v = "miss" /\ Miss(i, leftover)
            \/ v = "ok" /\ Conclude(i, "replayed", ReplayedCode(InResp(i)))
            \/ v \notin {"miss", "ok"} /\ Conclude(i, "error", exitUsage)
  BY DEF Load, InReq, InResp
<1>2a. (v # "ok" => ~Whole(i)) /\ (v = "ok" => InResp(i) \notin {Absent, Truncated})
  BY VerdictFacts DEF Whole
<1>3. CASE v = "miss" /\ Miss(i, leftover)
  <2>1. CASE Cfg(inv[i].run).strict
    <3>1. Concludes(inv[i], inv'[i], "miss", exitMiss) /\ Others(i)
      BY <1>1, <1>3, <2>1, ConcludeFacts DEF Miss
    <3> QED BY <1>1, <1>2, <1>2a, <1>3, <3>1 DEF Answers
  <2>2. CASE ~Cfg(inv[i].run).strict
    <3>1. /\ inv'[i] = ExecReal([inv[i] EXCEPT !.leftover = leftover])
          /\ Others(i)
      BY <1>3, <2>2, StepToFacts DEF Miss
    <3>2. Tried(inv[i], inv'[i], leftover)
      BY <1>1, <3>1, BegunCall, MissCases
    <3>3. leftover \in BOOLEAN /\ (leftover => TimesOut(i))
      BY <1>2
    <3> QED BY <1>1, <1>2, <1>2a, <1>3, <3>1, <3>2, <3>3 DEF Answers
  <2> QED BY <2>1, <2>2
<1>4. CASE v \notin {"miss", "ok"} /\ Conclude(i, "error", exitUsage)
  <2>1. Concludes(inv[i], inv'[i], "error", exitUsage) /\ Others(i)
    BY <1>1, <1>4, ConcludeFacts
  <2> QED BY <1>1, <1>2, <1>2a, <1>4, <2>1 DEF Answers
<1>5. CASE v = "ok" /\ Conclude(i, "replayed", ReplayedCode(InResp(i)))
  <2>1. Concludes(inv[i], inv'[i], "replayed", ReplayedCode(InResp(i))) /\ Others(i)
    BY <1>1, <1>5, ConcludeFacts
  <2> QED BY <1>1, <1>2, <1>2a, <1>5, <2>1 DEF Answers
<1> QED BY <1>2, <1>3, <1>4, <1>5

LEMMA TheKeyIs ==
    ASSUME NEW i, NEW k, inv[i].key = {k}
    PROVE  TheKey(i) = k
BY DEF TheKey

LEMMA AtFacts ==
    ASSUME TypeOK, NEW i \in Invocations, Begun(i), NEW at,
           StepTo(i, [inv[i] EXCEPT !.at = at])
    PROVE  Moves(inv[i], inv'[i], at) /\ Others(i)
<1>1. PICK c : c = inv[i]
  OBVIOUS
<1>2. DOMAIN c = Fields
  BY <1>1, BegunCall
<1>3. inv'[i] = [c EXCEPT !.at = at] /\ Others(i)
  BY <1>1, StepToFacts
<1>4. Moves(c, inv'[i], at)
  BY <1>2, <1>3 DEF Moves, Keeps, SameInput, SameResult, Fields
<1> QED BY <1>1, <1>3, <1>4

WritesReq(i) ==
    /\ inv[i].at = "saveReq" /\ Moves(inv[i], inv'[i], "saveResp")
    /\ reqFiles' = WriteFile(reqFiles, TheKey(i), Content(i, 0, FALSE))
    /\ respFiles' = respFiles

WritesResp(i) ==
    /\ inv[i].at = "saveResp"
    /\ Concludes(inv[i], inv'[i], "recorded", inv[i].code)
    /\ respFiles' = WriteFile(respFiles, TheKey(i),
                        Content(i, inv[i].code, inv[i].code # 0))
    /\ reqFiles' = reqFiles

LEMMA SaveStep ==
    ASSUME TypeOK, NEW i \in Invocations, Save(i)
    PROVE  Begun(i) /\ Others(i) /\ (WritesReq(i) \/ WritesResp(i))
<1>1. CASE /\ inv[i].at = "saveReq"
           /\ reqFiles' = WriteFile(reqFiles, TheKey(i), Content(i, 0, FALSE))
           /\ StepTo(i, [inv[i] EXCEPT !.at = "saveResp"])
           /\ UNCHANGED respFiles
  <2>1. Begun(i)
    BY <1>1, BegunCall
  <2>2. Moves(inv[i], inv'[i], "saveResp") /\ Others(i)
    BY <1>1, <2>1, AtFacts
  <2> QED BY <1>1, <2>1, <2>2 DEF WritesReq
<1>2. CASE /\ inv[i].at = "saveResp"
           /\ respFiles' = WriteFile(respFiles, TheKey(i),
                               Content(i, inv[i].code, inv[i].code # 0))
           /\ Conclude(i, "recorded", inv[i].code)
           /\ UNCHANGED reqFiles
  <2>1. Begun(i)
    BY <1>2, BegunCall
  <2>2. Concludes(inv[i], inv'[i], "recorded", inv[i].code) /\ Others(i)
    BY <1>2, <2>1, ConcludeFacts
  <2> QED BY <1>2, <2>1, <2>2 DEF WritesResp
<1> QED BY <1>1, <1>2 DEF Save, ReqContent, RespContent

\* What a save that stops has made of the files.
StoppedFiles(i) ==
    \/ UNCHANGED <<reqFiles, respFiles>>
    \/ /\ inv[i].at = "saveReq" /\ UNCHANGED respFiles
       /\ \E content : reqFiles' = WriteFile(reqFiles, TheKey(i), content)
    \/ /\ inv[i].at = "saveResp" /\ UNCHANGED reqFiles
       /\ \E content \in {Truncated, RespContent(i)} \cup
                           {CutShort([RespContent(i) EXCEPT !.code = m]) :
                               m \in CutNumbers(inv[i].code)} :
             respFiles' = WriteFile(respFiles, TheKey(i), content)

LEMMA StopsFiles ==
    ASSUME NEW i, StopsSaving(i)
    PROVE  StoppedFiles(i) /\ UNCHANGED <<plan, run, log, dirs>>
<1>1. CASE inv[i].at = "saveReq"
  <2>1. PICK c : c = ReqContent(i)
    OBVIOUS
  <2>2. reqFiles' \in Interrupted(reqFiles, TheKey(i), c) /\ respFiles' = respFiles
    BY <1>1, <2>1 DEF StopsSaving
  <2>3. \/ reqFiles' = reqFiles
        \/ \E content : reqFiles' = WriteFile(reqFiles, TheKey(i), content)
    BY <2>2 DEF Interrupted
  <2> QED BY <1>1, <2>2, <2>3 DEF StoppedFiles, StopsSaving
<1>2. CASE inv[i].at = "saveResp"
  <2>1. PICK c : c = RespContent(i)
    OBVIOUS
  <2>2. respFiles' \in Interrupted(respFiles, TheKey(i), c) /\ reqFiles' = reqFiles
    BY <1>2, <2>1 DEF StopsSaving
  <2>3. c.code = inv[i].code
    BY <2>1 DEF RespContent, Content
  <2>4. \/ respFiles' = respFiles
        \/ \E content \in {Truncated, c} \cup
                            {CutShort([c EXCEPT !.code = m]) : m \in CutNumbers(inv[i].code)} :
              respFiles' = WriteFile(respFiles, TheKey(i), content)
    BY <2>2, <2>3 DEF Interrupted
  <2> QED BY <1>2, <2>1, <2>2, <2>4 DEF StoppedFiles, StopsSaving
<1>3. CASE inv[i].at \notin {"saveReq", "saveResp"}
  BY <1>3 DEF StopsSaving, StoppedFiles
<1> QED BY <1>1, <1>2, <1>3

LEMMA SaveFailsStep ==
    ASSUME TypeOK, NEW i \in Invocations, SaveFails(i)
    PROVE  /\ Begun(i) /\ inv[i].at \in {"saveReq", "saveResp"} /\ Others(i)
           /\ Concludes(inv[i], inv'[i], "error", inv[i].code)
           /\ StoppedFiles(i) /\ UNCHANGED <<plan, run, log>>
<1>1. Begun(i)
  BY BegunCall DEF SaveFails
<1> QED BY <1>1, ConcludeFacts, StopsFiles DEF SaveFails

LEMMA KillStep ==
    ASSUME TypeOK, NEW i \in Invocations, Kill(i)
    PROVE  /\ Begun(i) /\ ~Over(i) /\ Others(i)
           /\ Moves(inv[i], inv'[i], "killed")
           /\ StoppedFiles(i) /\ UNCHANGED <<plan, run, log>>
<1>1. Begun(i)
  BY DEF Kill, Begun
<1> QED BY <1>1, AtFacts, StopsFiles DEF Kill

Grows ==
    /\ log' \in [Runs -> Seq(LogEntries)]
    /\ \A r \in Runs : \A n \in DOMAIN log[r] :
          n \in DOMAIN log'[r] /\ log'[r][n] = log[r][n]

LEMMA LogGrows ==
    ASSUME TypeOK, NEW q \in Runs, NEW e \in LogEntries,
           log' = [log EXCEPT ![q] = Append(@, e)]
    PROVE  /\ Grows
           /\ \E n \in DOMAIN log'[q] : log'[q][n] = e
<1>1. log \in [Runs -> Seq(LogEntries)]
  BY DEF TypeOK
<1>2. /\ log'[q] = Append(log[q], e)
      /\ \A r \in Runs \ {q} : log'[r] = log[r]
      /\ log' \in [Runs -> Seq(LogEntries)]
  BY <1>1
<1>3. \A n \in DOMAIN log[q] : n \in DOMAIN log'[q] /\ log'[q][n] = log[q][n]
  BY <1>1, <1>2
<1>4. /\ Len(log[q]) + 1 \in DOMAIN log'[q] 
      /\ log'[q][Len(log[q]) + 1] = e
  BY <1>1, <1>2
<1> QED BY <1>2, <1>3, <1>4 DEF Grows

LEMMA LogStep ==
    ASSUME TypeOK, NEW i \in Invocations, Log(i)
    PROVE  /\ Begun(i) /\ inv[i].at = "log" /\ Others(i)
           /\ Keeps(inv[i], inv'[i]) /\ SameInput(inv[i], inv'[i])
           /\ inv'[i].at = "done" /\ inv'[i].code = inv[i].code
           /\ inv'[i].outcome = inv[i].outcome /\ inv'[i].key = inv[i].key
           /\ Grows
           /\ inv'[i].logged = "ok" =>
                 \E n \in DOMAIN log'[inv[i].run] :
                    log'[inv[i].run][n].outcome = inv[i].outcome
<1>1. Begun(i) /\ inv[i].at = "log"
  BY BegunCall DEF Log
<1>2. PICK result \in {"ok", "lost", "torn"} :
         /\ StepTo(i, [inv[i] EXCEPT !.at = "done", !.logged = result])
         /\ log' = IF result = "lost" THEN log
                   ELSE [log EXCEPT ![inv[i].run] = Append(@,
                           [by |-> i,
                            outcome |-> IF result = "torn" THEN "torn"
                                        ELSE inv[i].outcome])]
  BY DEF Log
<1>3. PICK c : c = inv[i]
  OBVIOUS
<1>4. DOMAIN c = Fields /\ c.run \in Runs /\ c.outcome \in Outcomes
  BY <1>1, <1>3, BegunCall
<1>5. inv'[i] = [c EXCEPT !.at = "done", !.logged = result] /\ Others(i)
  BY <1>2, <1>3, StepToFacts
<1>6. /\ Keeps(c, inv'[i]) /\ SameInput(c, inv'[i])
      /\ inv'[i].at = "done" /\ inv'[i].code = c.code /\ inv'[i].logged = result
      /\ inv'[i].outcome = c.outcome /\ inv'[i].key = c.key
  BY <1>4, <1>5 DEF Keeps, SameInput, Fields
<1>7. /\ Grows
      /\ result = "ok" =>
            \E n \in DOMAIN log'[c.run] : log'[c.run][n].outcome = c.outcome
  <2>1. CASE result = "lost"
    <3>1. log' = log
      BY <1>2, <2>1
    <3> QED BY <2>1, <3>1 DEF Grows, TypeOK
  <2>2. CASE result # "lost"
    <3>1. PICK e : e = [by |-> i, outcome |-> IF result = "torn" THEN "torn" ELSE c.outcome]
      OBVIOUS
    <3>2. e \in LogEntries /\ (result = "ok" => e.outcome = c.outcome)
      BY <1>4, <3>1 DEF LogEntries, Outcomes
    <3>3. log' = [log EXCEPT ![c.run] = Append(@, e)]
      BY <1>2, <1>3, <2>2, <3>1
    <3>4. Grows /\ \E n \in DOMAIN log'[c.run] : log'[c.run][n] = e
      BY <1>4, <3>2, <3>3, LogGrows
    <3> QED BY <3>2, <3>4
  <2> QED BY <2>1, <2>2
<1> QED BY <1>1, <1>3, <1>5, <1>6, <1>7

\* A call as it begins.
Fresh(b, r, p) ==
    /\ DOMAIN b = Fields
    /\ b.at = "stdin" /\ b.run = r /\ b.prog = p
    /\ b.name = CassetteName(CommandOf(r, p))
    /\ b.taken = 0 /\ b.acc = << >> /\ b.fed = << >> /\ b.leftover = FALSE /\ b.ran = FALSE
    /\ b.code = 0 /\ b.outcome = "none" /\ b.logged = "none" /\ b.key = {}
    /\ b.after = {j \in Invocations : Over(j)}
    /\ b.shim = Installed(r, p)
    /\ b.onPath = (run[r].dir # "gone")

Begins(i, r, b) ==
    \/ /\ inv'[i].at = "done" /\ Keeps(b, inv'[i])
       /\ inv'[i].outcome = "none" /\ inv'[i].logged = "none" /\ inv'[i].key = {}
       /\ inv'[i].ran => ~b.shim \/ ~b.onPath
    \/ b.shim /\ Concludes(b, inv'[i], "denied", exitDenied)
    \/ /\ b.shim /\ ~InNames(Cfg(r).deny, b.name)
       /\ \/ Cfg(r).mode = "replay" /\ inv'[i] = b
          \/ Cfg(r).mode # "replay" /\ Tried(b, inv'[i], FALSE)

LEMMA InvokeStep ==
    ASSUME TypeOK, NEW r \in Runs, NEW i \in Invocations, NEW p \in Programs,
           Invoke(r, i, p)
    PROVE  /\ ~Begun(i) /\ Others(i) /\ Configured(r)
           /\ \E b : Fresh(b, r, p) /\ Begins(i, r, b)
<1>1. PICK b : b = Began(r, p)
  OBVIOUS
<1>2. Fresh(b, r, p)
  BY <1>1 DEF Fresh, Began, Fields
<1>3. Configured(r) /\ ~Begun(i)
  BY DEF Invoke, Configured, TypeOK, RunShape, Begun
<1>4. /\ Others(i)
      /\ inv'[i] = IF run[r].dir = "gone" \/ ~Installed(r, p)
                   THEN [b EXCEPT !.at = "done", !.ran = TRUE]
                   ELSE IF run[r].dir = "partial"
                   THEN [b EXCEPT !.at = "done", !.code = exitUsage]
                   ELSE FirstStep(r, b)
  BY <1>1 DEF Invoke, Others, TypeOK
<1>5. CASE run[r].dir = "gone" \/ ~Installed(r, p)
  <2>1. inv'[i] = [b EXCEPT !.at = "done", !.ran = TRUE]
    BY <1>4, <1>5
  <2>2. ~b.shim \/ ~b.onPath
    BY <1>2, <1>5 DEF Fresh
  <2>3. /\ inv'[i].at = "done" /\ Keeps(b, inv'[i])
        /\ inv'[i].outcome = "none" /\ inv'[i].logged = "none" /\ inv'[i].key = {}
    BY <1>2, <2>1 DEF Fresh, Keeps, Fields
  <2> QED BY <1>2, <1>3, <1>4, <2>2, <2>3 DEF Begins
<1>6. CASE run[r].dir # "gone" /\ Installed(r, p) /\ run[r].dir = "partial"
  <2>1. inv'[i] = [b EXCEPT !.at = "done", !.code = exitUsage]
    BY <1>4, <1>6
  <2>2. /\ inv'[i].at = "done" /\ Keeps(b, inv'[i]) /\ inv'[i].ran = FALSE
        /\ inv'[i].outcome = "none" /\ inv'[i].logged = "none" /\ inv'[i].key = {}
    BY <1>2, <2>1 DEF Fresh, Keeps, Fields
  <2> QED BY <1>2, <1>3, <1>4, <2>2 DEF Begins
<1>7. CASE run[r].dir # "gone" /\ Installed(r, p) /\ run[r].dir # "partial"
  <2>1. inv'[i] = FirstStep(r, b)
    BY <1>4, <1>7
  <2>2. b.shim /\ DOMAIN b = Fields /\ b.leftover = FALSE
    BY <1>2, <1>7 DEF Fresh
  <2>3. CASE InNames(Cfg(r).deny, b.name)
    <3>1. inv'[i] = [b EXCEPT !.at = "log", !.outcome = "denied", !.code = exitDenied]
      BY <2>1, <2>3 DEF FirstStep
    <3>2. DOMAIN b = Fields
      BY <2>2
    <3>3. Concludes(b, inv'[i], "denied", exitDenied)
      BY <3>1, <3>2 DEF Concludes, Keeps, SameInput, Fields
    <3> QED BY <1>2, <1>3, <1>4, <2>2, <3>3 DEF Begins
  <2>4. CASE ~InNames(Cfg(r).deny, b.name) /\ Cfg(r).mode = "replay"
    <3>1. inv'[i] = b
      BY <2>1, <2>4 DEF FirstStep
    <3> QED BY <1>2, <1>3, <1>4, <2>2, <2>4, <3>1 DEF Begins
  <2>5. CASE ~InNames(Cfg(r).deny, b.name) /\ Cfg(r).mode # "replay"
    <3>1. inv'[i] = ExecReal(b)
      BY <2>1, <2>5 DEF FirstStep
    <3>2. Tried(b, inv'[i], FALSE)
      BY <2>2, <3>1, ExecRealCases
    <3> QED BY <1>2, <1>3, <1>4, <2>2, <2>5, <3>2 DEF Begins
  <2> QED BY <2>3, <2>4, <2>5
<1> QED BY <1>5, <1>6, <1>7

-----------------------------------------------------------------------------
(***************************************************************************)
(* And for the actions of a run.                                           *)
(***************************************************************************)
OtherRuns(r) == DOMAIN run' = Runs /\ \A q \in Runs \ {r} : run'[q] = run[q]

\* A run that goes on, with the configuration it has.
GoesOn(c, d, at, dir) ==
    DOMAIN d = RunFields /\ d.cfg = c.cfg /\ d.at = at /\ d.dir = dir

LEMMA RunCall ==
    ASSUME TypeOK, NEW r \in Runs, run[r].at \in {"suite", "waited", "read", "removing"}
    PROVE  /\ DOMAIN run[r] = RunFields /\ Configured(r)
           /\ run[r].dir \in {"whole", "partial", "gone"}
BY DEF TypeOK, RunShape, Configured

LEMMA StartStep ==
    ASSUME TypeOK, NEW r \in Runs, Start(r)
    PROVE  /\ run[r].at = "idle" /\ OtherRuns(r)
           /\ \/ run'[r].at = "exited" /\ run'[r].dir = "none"
              \/ /\ DOMAIN run'[r] = RunFields /\ run'[r].at = "suite"
                 /\ run'[r].dir = "whole"
<1>1. run[r].at = "idle" /\ DOMAIN run = Runs
  BY DEF Start, TypeOK
<1>2. \/ \E code : run' = [run EXCEPT ![r] = Ended(code)]
      \/ run' = [run EXCEPT ![r] = Running(r)]
  BY DEF Start
<1>3. CASE run' = [run EXCEPT ![r] = Running(r)]
  <2>1. run'[r] = Running(r) /\ OtherRuns(r)
    BY <1>1, <1>3 DEF OtherRuns
  <2>2. DOMAIN run'[r] = RunFields /\ run'[r].at = "suite" /\ run'[r].dir = "whole"
    BY <2>1 DEF Running, RunFields
  <2> QED BY <1>1, <2>1, <2>2
<1>4. ASSUME NEW code, run' = [run EXCEPT ![r] = Ended(code)]
      PROVE  OtherRuns(r) /\ run'[r].at = "exited" /\ run'[r].dir = "none"
  BY <1>1, <1>4 DEF OtherRuns, Ended
<1> QED BY <1>1, <1>2, <1>3, <1>4

LEMMA SuiteExitsStep ==
    ASSUME TypeOK, NEW r \in Runs, NEW code, SuiteExits(r, code)
    PROVE  /\ run[r].at = "suite" /\ OtherRuns(r)
           /\ GoesOn(run[r], run'[r], "waited", run[r].dir)
           /\ run'[r].inTime = {i \in OfRun(r) : Over(i)}
<1>1. PICK c, t : c = run[r] /\ t = {i \in OfRun(r) : Over(i)}
  OBVIOUS
<1>2. run[r].at = "suite" /\ DOMAIN c = RunFields
  BY <1>1, RunCall DEF SuiteExits
<1>3. OtherRuns(r) /\ run'[r] = [c EXCEPT !.at = "waited", !.child = code, !.inTime = t]
  BY <1>1 DEF SuiteExits, OtherRuns, TypeOK
<1>4. GoesOn(c, run'[r], "waited", c.dir) /\ run'[r].inTime = t
  BY <1>2, <1>3 DEF GoesOn, RunFields
<1> QED BY <1>1, <1>2, <1>3, <1>4

LEMMA ReadCallsStep ==
    ASSUME TypeOK, NEW r \in Runs, ReadCalls(r)
    PROVE  /\ run[r].at = "waited" /\ OtherRuns(r)
           /\ run'[r].inTime = run[r].inTime
           /\ \/ /\ GoesOn(run[r], run'[r], "removing", run[r].dir)
                 /\ run'[r].code = exitViolation
              \/ /\ GoesOn(run[r], run'[r], "read", run[r].dir)
                 /\ run'[r].seen = log[r]
<1>1. PICK c, s : c = run[r] /\ s = log[r]
  OBVIOUS
<1>2. run[r].at = "waited" /\ DOMAIN c = RunFields
  BY <1>1, RunCall DEF ReadCalls
<1>3. /\ OtherRuns(r)
      /\ \/ run'[r] = [c EXCEPT !.at = "removing", !.code = exitViolation]
         \/ run'[r] = [c EXCEPT !.at = "read", !.seen = s]
  BY <1>1 DEF ReadCalls, OtherRuns, TypeOK
<1>4. CASE run'[r] = [c EXCEPT !.at = "removing", !.code = exitViolation]
  <2>1. /\ GoesOn(c, run'[r], "removing", c.dir) /\ run'[r].code = exitViolation
        /\ run'[r].inTime = c.inTime
    BY <1>2, <1>4 DEF GoesOn, RunFields
  <2> QED BY <1>1, <1>2, <1>3, <2>1
<1>5. CASE run'[r] = [c EXCEPT !.at = "read", !.seen = s]
  <2>1. /\ GoesOn(c, run'[r], "read", c.dir) /\ run'[r].seen = s
        /\ run'[r].inTime = c.inTime
    BY <1>2, <1>5 DEF GoesOn, RunFields
  <2> QED BY <1>1, <1>2, <1>3, <2>1
<1> QED BY <1>3, <1>4, <1>5

LEMMA ReportStep ==
    ASSUME TypeOK, NEW r \in Runs, Report(r)
    PROVE  /\ run[r].at = "read" /\ OtherRuns(r)
           /\ run'[r].inTime = run[r].inTime
           /\ GoesOn(run[r], run'[r], "removing", run[r].dir)
           /\ run'[r].code \in {ExitCode(r), exitViolation}
<1>1. PICK c : c = run[r]
  OBVIOUS
<1>2. run[r].at = "read" /\ DOMAIN c = RunFields
  BY <1>1, RunCall DEF Report
<1>3. PICK k \in {ExitCode(r), exitViolation} :
         OtherRuns(r) /\ run'[r] = [c EXCEPT !.at = "removing", !.code = k]
  BY <1>1 DEF Report, OtherRuns, TypeOK
<1>4. /\ GoesOn(c, run'[r], "removing", c.dir) /\ run'[r].code = k
      /\ run'[r].inTime = c.inTime
  BY <1>2, <1>3 DEF GoesOn, RunFields
<1> QED BY <1>1, <1>2, <1>3, <1>4

LEMMA RemoveRunDirStep ==
    ASSUME TypeOK, NEW r \in Runs, RemoveRunDir(r)
    PROVE  /\ run[r].at = "removing" /\ OtherRuns(r)
           /\ run'[r].inTime = run[r].inTime /\ run'[r].code = run[r].code
           /\ \/ GoesOn(run[r], run'[r], "removing", "partial")
              \/ GoesOn(run[r], run'[r], "exited", "gone")
<1>1. PICK c : c = run[r]
  OBVIOUS
<1>2. c.at = "removing" /\ DOMAIN c = RunFields
  BY <1>1, RunCall DEF RemoveRunDir
<1>3. /\ OtherRuns(r)
      /\ \/ run'[r] = [c EXCEPT !.dir = "partial"]
         \/ run'[r] = [c EXCEPT !.at = "exited", !.dir = "gone"]
  BY <1>1 DEF RemoveRunDir, OtherRuns, TypeOK
<1>4. CASE run'[r] = [c EXCEPT !.dir = "partial"]
  <2>1. /\ GoesOn(c, run'[r], "removing", "partial")
        /\ run'[r].inTime = c.inTime /\ run'[r].code = c.code
    BY <1>2, <1>4 DEF GoesOn, RunFields
  <2> QED BY <1>1, <1>2, <1>3, <2>1
<1>5. CASE run'[r] = [c EXCEPT !.at = "exited", !.dir = "gone"]
  <2>1. /\ GoesOn(c, run'[r], "exited", "gone")
        /\ run'[r].inTime = c.inTime /\ run'[r].code = c.code
    BY <1>2, <1>5 DEF GoesOn, RunFields
  <2> QED BY <1>1, <1>2, <1>3, <2>1
<1> QED BY <1>3, <1>4, <1>5

-----------------------------------------------------------------------------
(***************************************************************************)
(* Types and phases.                                                       *)
(***************************************************************************)
RunAction(r) ==
    \/ Start(r) \/ ReadCalls(r) \/ Report(r) \/ RemoveRunDir(r)
    \/ \E code \in plan[r].codes : SuiteExits(r, code)

CallAction(i) ==
    \/ ReadStdin(i) \/ Load(i) \/ Pump(i)
    \/ \E code \in Nat : RealExits(i, code)
    \/ Save(i) \/ Log(i) \/ SaveFails(i) \/ Kill(i)

LEMMA NextCases ==
    ASSUME TypeOK, Next
    PROVE  \/ \E r \in Runs : RunAction(r)
           \/ \E r \in Runs, i \in Invocations, p \in Programs : Invoke(r, i, p)
           \/ \E i \in Invocations : CallAction(i)
<1>1. ASSUME NEW i \in Invocations, ShimStep(i)
      PROVE  CallAction(i)
  <2>1. CASE \E code \in IF inv[i] = Idle THEN {} ELSE inv[i].prog.codes : RealExits(i, code)
    <3>1. Begun(i)
      BY <2>1 DEF Begun
    <3>2. PICK code \in inv[i].prog.codes : RealExits(i, code)
      BY <2>1, <3>1 DEF Begun
    <3>3. code \in Nat
      BY <3>1, <3>2, BegunCall, ProgramsAssumption
    <3> QED BY <3>2, <3>3 DEF CallAction
  <2> QED BY <1>1, <2>1 DEF ShimStep, CallAction
<1>2. CASE \E r \in Runs :
              \/ Start(r) \/ ReadCalls(r) \/ Report(r) \/ RemoveRunDir(r)
              \/ \E code \in plan[r].codes : SuiteExits(r, code)
              \/ \E i \in Invocations, p \in Programs : Invoke(r, i, p)
  BY <1>2 DEF RunAction
<1>3. CASE \E i \in Invocations : ShimStep(i) \/ SaveFails(i) \/ Kill(i)
  BY <1>1, <1>3 DEF CallAction
<1> QED BY <1>2, <1>3 DEF Next

LEMMA RunActionFacts ==
    ASSUME TypeOK, NEW r \in Runs, RunAction(r)
    PROVE  /\ UNCHANGED <<plan, inv, log, reqFiles, respFiles>>
           /\ OtherRuns(r) /\ RunShape(r)'
           /\ Configured(r) => Configured(r)' /\ run'[r].cfg = run[r].cfg
<1>1. UNCHANGED <<plan, inv, log, reqFiles, respFiles>>
  BY DEF RunAction, Start, ReadCalls, Report, RemoveRunDir, SuiteExits, files
<1>2. CASE Start(r)
  <2>1. OtherRuns(r) /\ ~Configured(r) /\ RunShape(r)'
    BY <1>2, StartStep DEF Configured, RunShape
  <2> QED BY <1>1, <2>1
<1>3. CASE ReadCalls(r)
  <2>1. /\ OtherRuns(r)
        /\ \/ GoesOn(run[r], run'[r], "removing", run[r].dir)
           \/ GoesOn(run[r], run'[r], "read", run[r].dir)
        /\ run[r].dir \in {"whole", "partial", "gone"}
    BY <1>3, ReadCallsStep, RunCall
  <2> QED BY <1>1, <2>1 DEF RunShape, Configured, GoesOn
<1>4. CASE Report(r)
  <2>1. /\ OtherRuns(r)
        /\ GoesOn(run[r], run'[r], "removing", run[r].dir)
        /\ run[r].dir \in {"whole", "partial", "gone"}
    BY <1>4, ReportStep, RunCall
  <2> QED BY <1>1, <2>1 DEF RunShape, Configured, GoesOn
<1>5. CASE RemoveRunDir(r)
  <2>1. /\ OtherRuns(r)
        /\ \/ GoesOn(run[r], run'[r], "removing", "partial")
           \/ GoesOn(run[r], run'[r], "exited", "gone")
    BY <1>5, RemoveRunDirStep
  <2> QED BY <1>1, <2>1 DEF RunShape, Configured, GoesOn
<1>6. CASE \E code \in plan[r].codes : SuiteExits(r, code)
  <2>1. /\ OtherRuns(r)
        /\ GoesOn(run[r], run'[r], "waited", run[r].dir)
        /\ run[r].dir \in {"whole", "partial", "gone"}
    BY <1>6, SuiteExitsStep, RunCall
  <2> QED BY <1>1, <2>1 DEF RunShape, Configured, GoesOn
<1> QED BY <1>2, <1>3, <1>4, <1>5, <1>6 DEF RunAction

\* Whatever the step, a command keeps who it is.
LEMMA CallActionFacts ==
    ASSUME TypeOK, NEW i \in Invocations, CallAction(i)
    PROVE  /\ UNCHANGED <<plan, run>> /\ Grows
           /\ Begun(i) /\ ~Over(i) /\ Others(i)
           /\ Keeps(inv[i], inv'[i]) /\ inv'[i].at \in Phases /\ Begun(i)'
           /\ inv'[i].outcome \in Outcomes
<1>1. UNCHANGED <<plan, run>>
  BY SaveFailsStep, KillStep DEF CallAction, ReadStdin, Load, Pump, RealExits, Save, Log,
     files
<1>2. log' = log => Grows
  BY DEF Grows, TypeOK
<1>3. inv'[i].at \in Phases => Begun(i)'
  BY DEF Begun, Phases, Idle
<1>4. Begun(i) => inv[i].outcome \in Outcomes
  BY BegunCall
<1>5. CASE ReadStdin(i)
  <2>1. log' = log
    BY <1>5 DEF ReadStdin
  <2> QED BY <1>1, <1>2, <1>3, <1>4, <1>5, <2>1, ReadStdinStep
          DEF Over, Phases, SameResult
<1>6. CASE Load(i)
  <2>1. log' = log
    BY <1>6 DEF Load
  <2>2. Begun(i) /\ inv[i].at = "stdin" /\ Others(i) /\ Answers(i)
    BY <1>6, LoadStep
  <2>3. /\ Keeps(inv[i], inv'[i]) /\ inv'[i].at \in Phases
        /\ inv'[i].outcome \in Outcomes
    BY <1>4, <2>2 DEF Answers, Tried, Finishes, Concludes, Launches, Keyed, SameResult,
       Phases, Outcomes
  <2> QED BY <1>1, <1>2, <1>3, <2>1, <2>2, <2>3 DEF Over
<1>7. CASE Pump(i)
  <2>1. log' = log
    BY <1>7 DEF Pump
  <2> QED BY <1>1, <1>2, <1>3, <1>4, <1>7, <2>1, PumpStep
          DEF Over, Phases, SameResult
<1>8. CASE \E code \in Nat : RealExits(i, code)
  <2>1. log' = log
    BY <1>8 DEF RealExits
  <2>2. PICK code \in Nat : RealExits(i, code)
    BY <1>8
  <2>3. Begun(i) /\ inv[i].at = "exec" /\ Others(i) /\ Finishes(inv[i], inv'[i], code)
    BY <2>2, RealExitsStep
  <2>4. /\ Keeps(inv[i], inv'[i]) /\ inv'[i].at \in Phases
        /\ inv'[i].outcome \in Outcomes
    BY <1>4, <2>3 DEF Finishes, Concludes, Keyed, Phases, Outcomes
  <2> QED BY <1>1, <1>2, <1>3, <2>1, <2>3, <2>4 DEF Over
<1>9. CASE Save(i)
  <2>1. log' = log
    BY <1>9 DEF Save
  <2>2. Begun(i) /\ Others(i) /\ (WritesReq(i) \/ WritesResp(i))
    BY <1>9, SaveStep
  <2>3. /\ Keeps(inv[i], inv'[i]) /\ inv'[i].at \in Phases /\ ~Over(i)
        /\ inv'[i].outcome \in Outcomes
    BY <1>4, <2>2 DEF WritesReq, WritesResp, Moves, Concludes, SameResult, Phases,
       Outcomes, Over
  <2> QED BY <1>1, <1>2, <1>3, <2>1, <2>2, <2>3
<1>10. CASE Log(i)
  BY <1>1, <1>3, <1>4, <1>10, LogStep DEF Over, Phases
<1>11. CASE SaveFails(i)
  <2>1. log' = log
    BY <1>11, SaveFailsStep
  <2> QED BY <1>1, <1>2, <1>3, <1>11, <2>1, SaveFailsStep
          DEF Over, Phases, Concludes, Outcomes
<1>12. CASE Kill(i)
  <2>1. log' = log
    BY <1>12, KillStep
  <2> QED BY <1>1, <1>2, <1>3, <1>4, <1>12, <2>1, KillStep
          DEF Over, Phases, Moves, SameResult
<1> QED BY <1>5, <1>6, <1>7, <1>8, <1>9, <1>10, <1>11, <1>12 DEF CallAction

LEMMA InvokeFacts ==
    ASSUME TypeOK, NEW r \in Runs, NEW i \in Invocations, NEW p \in Programs,
           Invoke(r, i, p)
    PROVE  /\ UNCHANGED <<plan, run, log, reqFiles, respFiles>>
           /\ ~Begun(i) /\ Others(i) /\ Configured(r)
           /\ DOMAIN inv'[i] = Fields /\ inv'[i].run = r /\ inv'[i].prog = p
           /\ inv'[i].at \in Phases /\ Begun(i)' /\ inv'[i].outcome \in Outcomes
<1>1. UNCHANGED <<plan, run, log, reqFiles, respFiles>>
  BY DEF Invoke, files
<1>2. PICK b : Fresh(b, r, p) /\ Begins(i, r, b)
  BY InvokeStep
<1>3. /\ DOMAIN inv'[i] = Fields /\ inv'[i].run = r /\ inv'[i].prog = p
      /\ inv'[i].at \in Phases /\ inv'[i].outcome \in Outcomes
  BY <1>2 DEF Fresh, Begins, Tried, Finishes, Concludes, Launches, Keyed, Keeps,
     SameResult, Phases, Outcomes
<1>4. Begun(i)'
  BY <1>3 DEF Begun, Phases, Idle
<1> QED BY <1>1, <1>3, <1>4, InvokeStep

LEMMA TypeInit ==
    ASSUME Init
    PROVE  TypeOK
<1>1. \A r \in Runs : run[r].at = "idle"
  BY DEF Init, NotBegun
<1>2. log \in [Runs -> Seq(LogEntries)]
  <2>1. << >> \in Seq(LogEntries)
    OBVIOUS
  <2> QED BY <2>1 DEF Init
<1> QED BY <1>1, <1>2 DEF Init, TypeOK, RunShape, CallShape

LEMMA TypeStep ==
    ASSUME TypeOK, [Next]_vars
    PROVE  TypeOK'
<1>1. CASE UNCHANGED vars
  BY <1>1 DEF vars, TypeOK, RunShape, CallShape
<1>2. ASSUME NEW r \in Runs, RunAction(r)
      PROVE  TypeOK'
  <2>1. \A q \in Runs : RunShape(q)'
    BY <1>2, RunActionFacts DEF TypeOK, OtherRuns, RunShape
  <2>2. \A i \in Invocations : CallShape(i)'
    BY <1>2, RunActionFacts DEF TypeOK, CallShape
  <2> QED BY <1>2, <2>1, <2>2, RunActionFacts DEF TypeOK, OtherRuns
<1>3. ASSUME NEW r \in Runs, NEW i \in Invocations, NEW p \in Programs, Invoke(r, i, p)
      PROVE  TypeOK'
  <2>1. \A q \in Runs : RunShape(q)'
    BY <1>3, InvokeFacts DEF TypeOK, RunShape
  <2>2. \A j \in Invocations : CallShape(j)'
    BY <1>3, InvokeFacts DEF TypeOK, CallShape, Others
  <2> QED BY <1>3, <2>1, <2>2, InvokeFacts DEF TypeOK, Others
<1>4. ASSUME NEW i \in Invocations, CallAction(i)
      PROVE  TypeOK'
  <2>1. \A q \in Runs : RunShape(q)'
    BY <1>4, CallActionFacts DEF TypeOK, RunShape
  <2>2. CallShape(i)'
    BY <1>4, CallActionFacts, BegunCall DEF CallShape, Keeps
  <2>3. \A j \in Invocations : CallShape(j)'
    BY <1>4, <2>2, CallActionFacts DEF TypeOK, CallShape, Others
  <2> QED BY <1>4, <2>1, <2>3, CallActionFacts DEF TypeOK, Others, Grows
<1> QED BY <1>1, <1>2, <1>3, <1>4, NextCases

\* Neither the configuration of a run nor, with it, the key of a call that
\* has read its input changes any more.
LEMMA KeyStays ==
    ASSUME NEW i, run'[inv[i].run].cfg = run[inv[i].run].cfg,
           inv'[i].run = inv[i].run, inv'[i].name = inv[i].name,
           inv'[i].prog = inv[i].prog, inv'[i].acc = inv[i].acc
    PROVE  KeyFor(inv[i])' = KeyFor(inv[i]) /\ Mode(i)' = Mode(i)
BY DEF KeyFor, Mode, Cfg

LEMMA StillInPhase ==
    ASSUME NEW i, InPhase(i), inv'[i] = inv[i], Configured(inv[i].run)',
           run'[inv[i].run].cfg = run[inv[i].run].cfg
    PROVE  InPhase(i)'
<1>1. KeyFor(inv[i])' = KeyFor(inv[i]) /\ Mode(i)' = Mode(i)
  BY KeyStays
<1> QED BY <1>1 DEF InPhase

LEMMA CallPhase ==
    ASSUME TypeOK, NEW i \in Invocations, InPhase(i), CallAction(i)
    PROVE  InPhase(i)'
<1>0. /\ run' = run /\ Begun(i) /\ Keeps(inv[i], inv'[i]) /\ Configured(inv[i].run)'
      /\ inv[i].at \in Phases
  BY CallActionFacts, BegunCall DEF InPhase, Configured, Keeps
<1>1. inv'[i].acc = inv[i].acc => KeyFor(inv[i])' = KeyFor(inv[i]) /\ Mode(i)' = Mode(i)
  BY <1>0, KeyStays DEF Keeps
<1>2. Mode(i)' = Mode(i)
  BY <1>0 DEF Keeps, Mode, Cfg
<1>3. CASE ReadStdin(i)
  BY <1>0, <1>2, <1>3, ReadStdinStep DEF InPhase, Keeps, SameResult
<1>4. CASE Load(i)
  <2>1. inv[i].at = "stdin" /\ Answers(i)
    BY <1>4, LoadStep
  <2>2. Mode(i) = "replay" /\ inv[i].key = {} /\ inv[i].outcome = "none" /\ inv[i].shim
        /\ inv[i].logged = "none"
    BY <2>1 DEF InPhase
  <2>3. inv'[i].acc = inv[i].acc
    BY <2>1 DEF Answers, Tried, Finishes, Concludes, Launches, Keyed, SameInput
  <2>4. /\ inv'[i].at \in {"log", "exec"} /\ inv'[i].key = {}
        /\ inv'[i].at = "exec" => inv'[i].outcome = "none"
        /\ inv'[i].outcome # "recorded" /\ inv'[i].logged = "none"
    BY <2>1, <2>2 DEF Answers, Tried, Finishes, Recorded, Concludes, Launches, Keyed,
       SameResult, Mode
  <2> QED BY <1>0, <1>2, <2>2, <2>4 DEF InPhase, Keeps
<1>5. CASE Pump(i)
  BY <1>0, <1>2, <1>5, PumpStep DEF InPhase, Keeps, SameResult
<1>6. CASE \E code \in Nat : RealExits(i, code)
  <2>1. PICK code \in Nat : inv[i].at = "exec" /\ Finishes(inv[i], inv'[i], code)
    BY <1>6, RealExitsStep
  <2>2. inv[i].key = {} /\ inv[i].outcome = "none" /\ inv[i].shim /\ inv[i].logged = "none"
    BY <2>1 DEF InPhase
  <2>3. inv'[i].acc = inv[i].acc
    BY <2>1 DEF Finishes, Concludes, Keyed, SameInput
  <2>4. CASE Recorded(inv[i]) /\ Keyed(inv[i], inv'[i], code)
    BY <1>0, <1>1, <2>2, <2>3, <2>4 DEF InPhase, Keeps, Recorded, Keyed, Mode
  <2>5. CASE Concludes(inv[i], inv'[i], "passthrough", code)
    BY <1>0, <2>2, <2>5 DEF InPhase, Keeps, Concludes
  <2> QED BY <2>1, <2>4, <2>5 DEF Finishes
<1>7. CASE Save(i)
  <2>1. WritesReq(i) \/ WritesResp(i)
    BY <1>7, SaveStep
  <2>2. inv'[i].acc = inv[i].acc
    BY <2>1 DEF WritesReq, WritesResp, Moves, Concludes, SameInput
  <2>3. CASE WritesReq(i)
    BY <1>0, <1>1, <2>2, <2>3 DEF WritesReq, InPhase, Keeps, Moves, SameResult
  <2>4. CASE WritesResp(i)
    BY <1>0, <1>1, <2>2, <2>4 DEF WritesResp, InPhase, Keeps, Concludes
  <2> QED BY <2>1, <2>3, <2>4
<1>8. CASE Log(i)
  <2>1. inv'[i].acc = inv[i].acc
    BY <1>8, LogStep DEF SameInput
  <2> QED BY <1>0, <1>1, <1>8, <2>1, LogStep DEF InPhase, Keeps
<1>9. CASE SaveFails(i)
  <2>1. inv'[i].acc = inv[i].acc
    BY <1>9, SaveFailsStep DEF Concludes, SameInput
  <2> QED BY <1>0, <1>1, <1>9, <2>1, SaveFailsStep DEF InPhase, Keeps, Concludes
<1>10. CASE Kill(i)
  <2>1. inv'[i].acc = inv[i].acc
    BY <1>10, KillStep DEF Moves, SameInput
  <2>2. inv[i].at # "done"
    BY <1>10, KillStep DEF Over
  <2> QED BY <1>0, <1>1, <1>10, <2>1, <2>2, KillStep DEF InPhase, Keeps, Moves, SameResult
<1> QED BY <1>3, <1>4, <1>5, <1>6, <1>7, <1>8, <1>9, <1>10 DEF CallAction

LEMMA InvokePhase ==
    ASSUME TypeOK, NEW r \in Runs, NEW i \in Invocations, NEW p \in Programs,
           Invoke(r, i, p)
    PROVE  InPhase(i)'
<1>1. run' = run /\ Configured(r) /\ inv'[i].run = r
  BY InvokeFacts
<1>2. PICK b : Fresh(b, r, p) /\ Begins(i, r, b)
  BY InvokeStep
<1>3. Configured(inv[i].run)' /\ Mode(i)' = Cfg(r).mode
  BY <1>1 DEF Configured, Mode, Cfg
<1>4. /\ b.at = "stdin" /\ b.run = r /\ b.key = {} /\ b.outcome = "none"
      /\ b.logged = "none" /\ b.ran = FALSE /\ b.name = CassetteName(CommandOf(r, p))
      /\ b.prog = p
  BY <1>2 DEF Fresh
<1>5. CASE /\ inv'[i].at = "done"
           /\ inv'[i].outcome = "none" /\ inv'[i].logged = "none" /\ inv'[i].key = {}
  BY <1>3, <1>5 DEF InPhase
<1>6. CASE b.shim /\ Concludes(b, inv'[i], "denied", exitDenied)
  BY <1>3, <1>4, <1>6 DEF InPhase, Concludes, Keeps
<1>7. CASE b.shim /\ Cfg(r).mode = "replay" /\ inv'[i] = b
  BY <1>3, <1>4, <1>7 DEF InPhase
<1>8. CASE b.shim /\ Cfg(r).mode # "replay" /\ Tried(b, inv'[i], FALSE)
  <2>1. CASE Concludes(b, inv'[i], "error", exitNotFound)
    BY <1>3, <1>4, <1>8, <2>1 DEF InPhase, Concludes, Keeps
  <2>2. CASE Concludes(b, inv'[i], "passthrough", exitNotFound)
    BY <1>3, <1>4, <1>8, <2>2 DEF InPhase, Concludes, Keeps
  <2>3. CASE Recorded(b) /\ Keyed(b, inv'[i], exitNotFound)
    <3>1. KeyFor(inv[i])' = KeyFor(b)
      BY <1>1, <1>4, <2>3 DEF Keyed, Keeps, SameInput, KeyFor, Cfg
    <3>2. exitNotFound \in Nat
      BY DEF exitNotFound
    <3> QED BY <1>3, <1>4, <1>8, <2>3, <3>1, <3>2 DEF InPhase, Keyed, Keeps, Recorded
  <2>4. CASE Launches(b, inv'[i], FALSE)
    BY <1>3, <1>4, <1>8, <2>4 DEF InPhase, Launches, Keeps, SameResult
  <2> QED BY <1>8, <2>1, <2>2, <2>3, <2>4 DEF Tried, Finishes
<1> QED BY <1>2, <1>5, <1>6, <1>7, <1>8 DEF Begins

LEMMA GoodInit ==
    ASSUME Init
    PROVE  Good
BY TypeInit DEF Good, PhaseInv, Begun, Init

LEMMA GoodStep ==
    ASSUME Good, [Next]_vars
    PROVE  Good'
<1>1. TypeOK /\ TypeOK' /\ \A i \in Invocations : Begun(i) => InPhase(i)
  BY TypeStep DEF Good, PhaseInv
<1>2. CASE UNCHANGED vars
  <2>1. \A i \in Invocations : Begun(i)' => InPhase(i)'
    BY <1>1, <1>2, StillInPhase DEF vars, InPhase, Configured, Begun
  <2> QED BY <1>1, <2>1 DEF Good, PhaseInv
<1>3. ASSUME NEW r \in Runs, RunAction(r)
      PROVE  PhaseInv'
  <2> SUFFICES ASSUME NEW i \in Invocations, Begun(i)'
               PROVE  InPhase(i)'
    BY DEF PhaseInv
  <2>1. inv'[i] = inv[i] /\ Begun(i)
    BY <1>1, <1>3, RunActionFacts DEF Begun
  <2>2. InPhase(i) /\ Configured(inv[i].run) /\ inv[i].run \in Runs
    BY <1>1, <2>1, BegunCall DEF InPhase
  <2>3. Configured(inv[i].run)' /\ run'[inv[i].run].cfg = run[inv[i].run].cfg
    <3>1. CASE inv[i].run = r
      BY <1>1, <1>3, <2>1, <2>2, <3>1, RunActionFacts DEF Configured
    <3>2. CASE inv[i].run # r
      BY <1>1, <1>3, <2>1, <2>2, <3>2, RunActionFacts DEF OtherRuns, Configured
    <3> QED BY <3>1, <3>2
  <2> QED BY <2>1, <2>2, <2>3, StillInPhase
<1>4. ASSUME NEW r \in Runs, NEW i \in Invocations, NEW p \in Programs, Invoke(r, i, p)
      PROVE  PhaseInv'
  <2>1. InPhase(i)'
    BY <1>1, <1>4, InvokePhase
  <2>2. ASSUME NEW j \in Invocations, j # i, Begun(j)'
        PROVE  InPhase(j)'
    <3>1. inv'[j] = inv[j] /\ run' = run
      BY <1>1, <1>4, <2>2, InvokeFacts DEF Others
    <3>2. InPhase(j)
      BY <1>1, <2>2, <3>1 DEF Begun
    <3>3. Configured(inv[j].run)'
      BY <3>1, <3>2 DEF InPhase, Configured
    <3> QED BY <3>1, <3>2, <3>3, StillInPhase
  <2> QED BY <2>1, <2>2 DEF PhaseInv
<1>5. ASSUME NEW i \in Invocations, CallAction(i)
      PROVE  PhaseInv'
  <2>1. InPhase(i)'
    BY <1>1, <1>5, CallPhase, CallActionFacts
  <2>2. ASSUME NEW j \in Invocations, j # i, Begun(j)'
        PROVE  InPhase(j)'
    <3>1. inv'[j] = inv[j] /\ run' = run
      BY <1>1, <1>5, <2>2, CallActionFacts DEF Others
    <3>2. InPhase(j)
      BY <1>1, <2>2, <3>1 DEF Begun
    <3>3. Configured(inv[j].run)'
      BY <3>1, <3>2 DEF InPhase, Configured
    <3> QED BY <3>1, <3>2, <3>3, StillInPhase
  <2> QED BY <2>1, <2>2 DEF PhaseInv
<1> QED BY <1>1, <1>2, <1>3, <1>4, <1>5, NextCases DEF Good

-----------------------------------------------------------------------------
(***************************************************************************)
(* The exit code of a run.                                                 *)
(***************************************************************************)

\* A command that is over, and a run that does not move, stay reported.
LEMMA StillReported ==
    ASSUME NEW r \in Runs, Reported(r), run'[r] = run[r],
           \A i \in Invocations : Begun(i) /\ Over(i) => inv'[i] = inv[i]
    PROVE  Reported(r)'
<1>1. Waited(r)' <=> Waited(r)
  BY DEF Waited
<1>3. ASSUME NEW i, Counts(r, i)
      PROVE  inv'[i] = inv[i] /\ Counts(r, i)'
  BY <1>3 DEF Counts, Begun, Over
<1>4. Waited(r)' => \A i \in run'[r].inTime : Counts(r, i)'
  BY <1>1, <1>3 DEF Reported
<1>5. Waited(r) => \A i \in run[r].inTime : inv'[i] = inv[i]
  BY <1>3 DEF Reported
<1>6. Waited(r)' /\ run'[r].at = "read" => \A i \in run'[r].inTime : LineSeen(r, i)'
  BY <1>1, <1>5 DEF Reported, LineSeen
<1>7. Waited(r)' /\ run'[r].at \in {"removing", "exited"} /\ run'[r].code = 0 =>
         \A i \in run'[r].inTime : Harmless(i)'
  BY <1>1, <1>5 DEF Reported, Harmless
<1> QED BY <1>1, <1>4, <1>6, <1>7 DEF Reported

LEMMA RunReports ==
    ASSUME Good, ReportInv, NEW r \in Runs, RunAction(r)
    PROVE  Reported(r)'
<1>0. TypeOK /\ inv' = inv /\ log' = log /\ Reported(r)
  BY RunActionFacts DEF Good, ReportInv
<1>1. /\ \A i : Counts(r, i)' <=> Counts(r, i)
      /\ \A i : Harmless(i)' <=> Harmless(i)
  BY <1>0 DEF Counts, Begun, Over, Harmless
<1>2. CASE Start(r)
  <2>1. ~Waited(r)'
    BY <1>0, <1>2, StartStep DEF Waited
  <2> QED BY <2>1 DEF Reported
<1>3. CASE \E code \in plan[r].codes : SuiteExits(r, code)
  <2>1. run'[r].at = "waited" /\ run'[r].inTime = {i \in OfRun(r) : Over(i)}
    BY <1>0, <1>3, SuiteExitsStep DEF GoesOn
  <2>2. \A i \in run'[r].inTime : Counts(r, i)
    BY <2>1 DEF Counts, OfRun, Begun
  <2> QED BY <1>1, <2>1, <2>2 DEF Reported
<1>4. CASE ReadCalls(r)
  <2>1. /\ run[r].at = "waited" /\ run'[r].inTime = run[r].inTime
        /\ \/ run'[r].at = "removing" /\ run'[r].code = exitViolation
           \/ run'[r].at = "read" /\ run'[r].seen = log[r]
    BY <1>0, <1>4, ReadCallsStep DEF GoesOn
  <2>2. Waited(r)
    BY <1>0, <2>1, RunCall DEF Waited, Configured
  <2>3. \A i \in run[r].inTime : Counts(r, i)
    BY <1>0, <2>2 DEF Reported
  <2>4. CASE run'[r].at = "removing" /\ run'[r].code = exitViolation
    BY <1>1, <2>1, <2>3, <2>4 DEF Reported, exitViolation
  <2>5. CASE run'[r].at = "read" /\ run'[r].seen = log[r]
    <3>1. ASSUME NEW i \in run[r].inTime
          PROVE  LineSeen(r, i)'
      <4>1. i \in Invocations /\ Begun(i) /\ inv[i].run = r
        BY <2>3 DEF Counts
      <4>2. LineWritten(i)
        BY <4>1 DEF ReportInv
      <4> QED BY <1>0, <2>5, <4>1, <4>2 DEF LineSeen, LineWritten
    <3> QED BY <1>1, <2>1, <2>3, <2>5, <3>1 DEF Reported
  <2> QED BY <2>1, <2>4, <2>5
<1>5. CASE Report(r)
  <2>1. /\ run[r].at = "read" /\ run'[r].inTime = run[r].inTime
        /\ run'[r].at = "removing"
        /\ run'[r].code \in {ExitCode(r), exitViolation}
    BY <1>0, <1>5, ReportStep DEF GoesOn
  <2>2. Waited(r)
    BY <1>0, <2>1, RunCall DEF Waited, Configured
  <2>3. \A i \in run[r].inTime : Counts(r, i) /\ LineSeen(r, i)
    BY <1>0, <2>1, <2>2 DEF Reported
  <2>4. ASSUME run'[r].code = 0, NEW i \in run[r].inTime
        PROVE  Harmless(i)
    <3>1. ~AnyFailing(run[r].seen)
      BY <2>1, <2>4 DEF ExitCode, exitOK, exitViolation
    <3>2. LineSeen(r, i)
      BY <2>3
    <3> QED BY <3>1, <3>2 DEF LineSeen, Harmless, AnyFailing, Failing
  <2> QED BY <1>1, <2>1, <2>3, <2>4 DEF Reported
<1>6. CASE RemoveRunDir(r)
  <2>1. /\ run[r].at = "removing" /\ run'[r].inTime = run[r].inTime
        /\ run'[r].at \in {"removing", "exited"}
        /\ run'[r].code = run[r].code
    BY <1>0, <1>6, RemoveRunDirStep DEF GoesOn
  <2>2. Waited(r)
    BY <1>0, <2>1, RunCall DEF Waited, Configured
  <2>3. /\ \A i \in run[r].inTime : Counts(r, i)
        /\ run[r].code = 0 => \A i \in run[r].inTime : Harmless(i)
    BY <1>0, <2>1, <2>2 DEF Reported
  <2> QED BY <1>1, <2>1, <2>3 DEF Reported
<1> QED BY <1>2, <1>3, <1>4, <1>5, <1>6 DEF RunAction

LEMMA StillWritten ==
    ASSUME NEW i \in Invocations, LineWritten(i), inv'[i] = inv[i], Grows,
           inv[i].run \in Runs \/ ~Begun(i)
    PROVE  LineWritten(i)'
BY DEF LineWritten, Grows, Begun

\* Only Log notes a line.
LEMMA OnlyLogWrites ==
    ASSUME TypeOK, NEW i \in Invocations, InPhase(i), CallAction(i)
    PROVE  LineWritten(i)'
<1>1. Begun(i) /\ ~Over(i) /\ Keeps(inv[i], inv'[i])
  BY CallActionFacts
<1>2. inv[i].logged = "none"
  BY <1>1 DEF InPhase, Over
<1>3. inv'[i].logged = "none" => LineWritten(i)'
  BY DEF LineWritten
<1>4. CASE ReadStdin(i) \/ Pump(i)
  BY <1>2, <1>3, <1>4, ReadStdinStep, PumpStep DEF SameResult
<1>5. CASE Load(i)
  <2>1. Answers(i)
    BY <1>5, LoadStep
  <2> QED BY <1>2, <1>3, <2>1 DEF Answers, Tried, Finishes, Concludes, Launches, Keyed,
          SameResult
<1>6. CASE \E code \in Nat : RealExits(i, code)
  BY <1>2, <1>3, <1>6, RealExitsStep DEF Finishes, Concludes, Keyed
<1>7. CASE Save(i)
  BY <1>2, <1>3, <1>7, SaveStep DEF WritesReq, WritesResp, Moves, Concludes, SameResult
<1>8. CASE Log(i)
  BY <1>1, <1>8, LogStep DEF LineWritten, Keeps
<1>9. CASE SaveFails(i) \/ Kill(i)
  BY <1>2, <1>3, <1>9, SaveFailsStep, KillStep DEF Concludes, Moves, SameResult
<1> QED BY <1>4, <1>5, <1>6, <1>7, <1>8, <1>9 DEF CallAction

LEMMA ReportStepInv ==
    ASSUME Good, ReportInv, [Next]_vars
    PROVE  ReportInv'
<1>0. TypeOK /\ \A i \in Invocations : Begun(i) => InPhase(i)
  BY DEF Good, PhaseInv
<1>1. CASE UNCHANGED vars
  <2>1. Grows
    BY <1>0, <1>1 DEF Grows, TypeOK, vars
  <2>2. \A r \in Runs : Reported(r)'
    BY <1>1, StillReported DEF ReportInv, vars
  <2>3. \A i \in Invocations : LineWritten(i)'
    BY <1>0, <1>1, <2>1, StillWritten, BegunCall DEF ReportInv, vars
  <2> QED BY <2>2, <2>3 DEF ReportInv
<1>2. ASSUME NEW r \in Runs, RunAction(r)
      PROVE  ReportInv'
  <2>1. inv' = inv /\ log' = log /\ OtherRuns(r)
    BY <1>0, <1>2, RunActionFacts
  <2>2. \A i \in Invocations : LineWritten(i)'
    BY <2>1 DEF ReportInv, LineWritten, Begun
  <2>3. \A q \in Runs \ {r} : Reported(q)'
    BY <2>1, StillReported DEF ReportInv, OtherRuns
  <2>4. Reported(r)'
    BY <1>2, RunReports
  <2> QED BY <2>2, <2>3, <2>4 DEF ReportInv
<1>3. ASSUME NEW r \in Runs, NEW i \in Invocations, NEW p \in Programs, Invoke(r, i, p)
      PROVE  ReportInv'
  <2>1. run' = run /\ log' = log /\ Others(i) /\ ~Begun(i)
    BY <1>0, <1>3, InvokeFacts
  <2>2. Grows
    BY <1>0, <2>1 DEF Grows, TypeOK
  <2>3. inv'[i].logged = "none"
    <3>1. PICK b : Fresh(b, r, p) /\ Begins(i, r, b)
      BY <1>0, <1>3, InvokeStep
    <3> QED BY <3>1 DEF Fresh, Begins, Tried, Finishes, Concludes, Launches, Keyed,
            SameResult
  <2>4. \A j \in Invocations : LineWritten(j)'
    <3>1. LineWritten(i)'
      BY <2>3 DEF LineWritten
    <3>2. \A j \in Invocations \ {i} : LineWritten(j)'
      BY <1>0, <2>1, <2>2, StillWritten, BegunCall DEF ReportInv, Others
    <3> QED BY <3>1, <3>2
  <2>5. \A q \in Runs : Reported(q)'
    BY <2>1, StillReported DEF ReportInv, Others
  <2> QED BY <2>4, <2>5 DEF ReportInv
<1>4. ASSUME NEW i \in Invocations, CallAction(i)
      PROVE  ReportInv'
  <2>1. run' = run /\ Grows /\ Others(i) /\ Begun(i) /\ ~Over(i)
    BY <1>0, <1>4, CallActionFacts
  <2>2. \A j \in Invocations : LineWritten(j)'
    <3>1. LineWritten(i)'
      BY <1>0, <1>4, <2>1, OnlyLogWrites
    <3>2. \A j \in Invocations \ {i} : LineWritten(j)'
      BY <1>0, <2>1, StillWritten, BegunCall DEF ReportInv, Others
    <3> QED BY <3>1, <3>2
  <2>3. \A q \in Runs : Reported(q)'
    BY <2>1, StillReported DEF ReportInv, Others
  <2> QED BY <2>2, <2>3 DEF ReportInv
<1> QED BY <1>0, <1>1, <1>2, <1>3, <1>4, NextCases

\* A run whose suite passed fails for a command that ended in time, was
\* denied, missed or failed, and could note it (FailureFailsTheRun): however
\* the commands interleave with each other, with the reading of the log and
\* with the removal of the directory.
THEOREM FailureFails == Spec => []FailureFailsTheRun
<1>1. Init => Good /\ ReportInv
  BY GoodInit DEF ReportInv, LineWritten, Reported, Waited, Init, Begun, NotBegun, Idle
<1>2. Good /\ ReportInv /\ [Next]_vars => (Good /\ ReportInv)'
  BY GoodStep, ReportStepInv
<1>3. Good /\ ReportInv => FailureFailsTheRun
  BY DEF ReportInv, Reported, Waited, FailureFailsTheRun, Harmless, exitOK
<1> QED BY <1>1, <1>2, <1>3, PTL DEF Spec

-----------------------------------------------------------------------------
(***************************************************************************)
(* The files.                                                              *)
(***************************************************************************)
LEMMA WriteFileFacts ==
    ASSUME NEW dir, NEW k, NEW content, NEW other
    PROVE  ReadStreamFile(WriteFile(dir, k, content), other) =
              IF other = k THEN content ELSE ReadStreamFile(dir, other)
BY DEF ReadStreamFile, WriteFile

FilesStay(k) ==
    /\ ReadStreamFile(reqFiles, k)' = ReadStreamFile(reqFiles, k)
    /\ ReadStreamFile(respFiles, k)' = ReadStreamFile(respFiles, k)

LEMMA SameFilesStay ==
    ASSUME NEW k, reqFiles' = reqFiles, respFiles' = respFiles
    PROVE  FilesStay(k)
BY DEF FilesStay, ReadStreamFile

\* Only a call that saves touches the files, and only those of its key.
LEMMA OtherFilesStay ==
    ASSUME TypeOK, NEW i \in Invocations, InPhase(i), CallAction(i), NEW k,
           Saving(i) => KeyFor(inv[i]) # k
    PROVE  FilesStay(k)
<1>1. CASE ReadStdin(i) \/ Load(i) \/ Pump(i) \/ Log(i)
           \/ \E code \in Nat : RealExits(i, code)
  <2>1. reqFiles' = reqFiles /\ respFiles' = respFiles
    BY <1>1 DEF ReadStdin, Load, Pump, Log, RealExits, files
  <2> QED BY <2>1, SameFilesStay
<1>2. CASE reqFiles' = reqFiles /\ respFiles' = respFiles
  BY <1>2, SameFilesStay
<1>3. Saving(i) => TheKey(i) = KeyFor(inv[i]) /\ TheKey(i) # k
  BY TheKeyIs DEF InPhase, Saving
<1>4. ASSUME NEW content, Saving(i), reqFiles' = WriteFile(reqFiles, TheKey(i), content),
             respFiles' = respFiles
      PROVE  FilesStay(k)
  <2>1. ReadStreamFile(WriteFile(reqFiles, TheKey(i), content), k) = ReadStreamFile(reqFiles, k)
    BY <1>3, <1>4, WriteFileFacts
  <2> QED BY <1>4, <2>1 DEF FilesStay, ReadStreamFile
<1>5. ASSUME NEW content, Saving(i), respFiles' = WriteFile(respFiles, TheKey(i), content),
             reqFiles' = reqFiles
      PROVE  FilesStay(k)
  <2>1. ReadStreamFile(WriteFile(respFiles, TheKey(i), content), k) = ReadStreamFile(respFiles, k)
    BY <1>3, <1>5, WriteFileFacts
  <2> QED BY <1>5, <2>1 DEF FilesStay, ReadStreamFile
<1>6. CASE Save(i)
  <2>1. WritesReq(i) \/ WritesResp(i)
    BY <1>6, SaveStep
  <2>2. CASE WritesReq(i)
    <3>1. PICK content : content = Content(i, 0, FALSE)
      OBVIOUS
    <3>2. /\ Saving(i) /\ respFiles' = respFiles
          /\ reqFiles' = WriteFile(reqFiles, TheKey(i), content)
      BY <2>2, <3>1 DEF WritesReq, Saving
    <3> QED BY <1>4, <3>2
  <2>3. CASE WritesResp(i)
    <3>1. PICK content : content = Content(i, inv[i].code, inv[i].code # 0)
      OBVIOUS
    <3> QED BY <1>5, <2>3, <3>1 DEF WritesResp, Saving
  <2> QED BY <2>1, <2>2, <2>3
<1>7. CASE SaveFails(i) \/ Kill(i)
  <2>1. StoppedFiles(i)
    BY <1>7, SaveFailsStep, KillStep
  <2>2. CASE inv[i].at = "saveReq" /\ UNCHANGED respFiles
             /\ \E content : reqFiles' = WriteFile(reqFiles, TheKey(i), content)
    BY <1>4, <2>2 DEF Saving
  <2>3. CASE inv[i].at = "saveResp" /\ UNCHANGED reqFiles
             /\ \E content : respFiles' = WriteFile(respFiles, TheKey(i), content)
    BY <1>5, <2>3 DEF Saving
  <2> QED BY <1>2, <2>1, <2>2, <2>3 DEF StoppedFiles
<1> QED BY <1>1, <1>6, <1>7 DEF CallAction

\* The key of a call is made once.
LEMMA KeyMadeOnce ==
    ASSUME TypeOK, NEW i \in Invocations, InPhase(i), CallAction(i)
    PROVE  inv[i].key = {} \/ inv'[i].key = inv[i].key
<1>1. inv[i].at \in {"stdin", "exec"} => inv[i].key = {}
  BY DEF InPhase
<1>2. CASE ReadStdin(i) \/ Load(i) \/ Pump(i) \/ \E code \in Nat : RealExits(i, code)
  BY <1>1, <1>2, ReadStdinStep, LoadStep, PumpStep, RealExitsStep
<1>3. CASE Save(i)
  BY <1>3, SaveStep DEF WritesReq, WritesResp, Moves, Concludes, SameResult
<1>4. CASE Log(i) \/ SaveFails(i) \/ Kill(i)
  BY <1>4, LogStep, SaveFailsStep, KillStep DEF Moves, Concludes, SameResult
<1> QED BY <1>2, <1>3, <1>4 DEF CallAction

\* Who is alone with his key was alone with it.
LEMMA WasAlone ==
    ASSUME NEW i \in Invocations, inv[i].key # {}, inv'[i].key = inv[i].key, Alone(i)',
           \A j \in Invocations \ {i} : Begun(j) =>
              Begun(j)' /\ (inv[j].key = {} \/ inv'[j].key = inv[j].key)
    PROVE  Alone(i)
BY DEF Alone

\* While the files of its key stay, so does what a call has saved.
LEMMA StillSaved ==
    ASSUME TypeOK, NEW i \in Invocations, InPhase(i), Saved(i), Begun(i),
           inv'[i].key = inv[i].key, inv'[i].code = inv[i].code,
           inv'[i].outcome = inv[i].outcome,
           inv'[i].at = "saveResp" => inv[i].at = "saveResp",
           KeyFor(inv[i])' = KeyFor(inv[i]),
           Alone(i) => FilesStay(KeyFor(inv[i])),
           \A j \in Invocations \ {i} : Begun(j) =>
              Begun(j)' /\ (inv[j].key = {} \/ inv'[j].key = inv[j].key)
    PROVE  Saved(i)'
<1> SUFFICES ASSUME Alone(i)', inv[i].at = "saveResp" \/ inv[i].outcome = "recorded"
             PROVE  Saved(i)'
  BY DEF Saved
<1>1. inv[i].key # {}
  BY DEF InPhase
<1>2. Alone(i)
  BY <1>1, WasAlone
<1>3. FilesStay(KeyFor(inv[i]))
  BY <1>2
<1>4. PICK k : k = KeyFor(inv[i])
  OBVIOUS
<1>5. /\ ReadStreamFile(reqFiles', KeyFor(inv[i])') = ReadStreamFile(reqFiles, k)
      /\ ReadStreamFile(respFiles', KeyFor(inv[i])') = ReadStreamFile(respFiles, k)
  BY <1>3, <1>4 DEF FilesStay
<1>6. /\ ReadStreamFile(reqFiles, k) = Content(i, 0, FALSE)
      /\ inv[i].outcome = "recorded" =>
            ReadStreamFile(respFiles, k) = Content(i, inv[i].code, inv[i].code # 0)
  BY <1>2, <1>4 DEF Saved
<1> QED BY <1>5, <1>6 DEF Saved

\* A call that is not alone with its key, or has saved nothing yet.
LEMMA NothingSaved ==
    ASSUME NEW i, inv'[i].at # "saveResp", inv'[i].outcome # "recorded"
    PROVE  Saved(i)'
BY DEF Saved

LEMMA CallSaves ==
    ASSUME TypeOK, NEW i \in Invocations, InPhase(i), Saved(i), CallAction(i)
    PROVE  Saved(i)'
<1>1. /\ Begun(i) /\ Begun(i)' /\ Keeps(inv[i], inv'[i]) /\ run' = run /\ Others(i)
      /\ ~Over(i)
  BY CallActionFacts
<1>2. /\ inv[i].at \in {"stdin", "exec"} => inv[i].outcome = "none"
      /\ Saving(i) => inv[i].outcome = "none"
  BY DEF InPhase, Saving
<1>3. \A j \in Invocations \ {i} : Begun(j) =>
         Begun(j)' /\ (inv[j].key = {} \/ inv'[j].key = inv[j].key)
  BY <1>1 DEF Others, Begun
<1>4. inv'[i].acc = inv[i].acc => KeyFor(inv[i])' = KeyFor(inv[i])
  BY <1>1, KeyStays DEF Keeps
<1>5. CASE ReadStdin(i) \/ Pump(i)
  <2>1. inv'[i].at # "saveResp" /\ inv'[i].outcome # "recorded"
    BY <1>2, <1>5, ReadStdinStep, PumpStep DEF SameResult
  <2> QED BY <2>1, NothingSaved
<1>6. CASE Load(i)
  <2>1. inv[i].at = "stdin" /\ Answers(i)
    BY <1>6, LoadStep
  <2>2. inv'[i].at # "saveResp" /\ inv'[i].outcome # "recorded"
    BY <1>2, <2>1 DEF Answers, Tried, Finishes, Concludes, Launches, Keyed, SameResult
  <2> QED BY <2>2, NothingSaved
<1>7. CASE \E code \in Nat : RealExits(i, code)
  <2>1. inv'[i].at # "saveResp" /\ inv'[i].outcome # "recorded"
    BY <1>2, <1>7, RealExitsStep DEF Finishes, Concludes, Keyed
  <2> QED BY <2>1, NothingSaved
<1>8. CASE SaveFails(i)
  <2>1. inv'[i].at # "saveResp" /\ inv'[i].outcome # "recorded"
    BY <1>8, SaveFailsStep DEF Concludes
  <2> QED BY <2>1, NothingSaved
<1>9. CASE WritesReq(i)
  <2>1. inv'[i].at = "saveResp" /\ inv'[i].outcome = "none" /\ inv'[i].acc = inv[i].acc
    BY <1>2, <1>9 DEF WritesReq, Moves, SameInput, SameResult, Saving
  <2>2. PICK k, c : k = KeyFor(inv[i]) /\ c = Content(i, 0, FALSE)
    OBVIOUS
  <2>3. TheKey(i) = k /\ KeyFor(inv[i])' = k
    BY <1>4, <1>9, <2>1, <2>2, TheKeyIs DEF InPhase, WritesReq
  <2>4. reqFiles' = WriteFile(reqFiles, k, c)
    BY <1>9, <2>2, <2>3 DEF WritesReq
  <2>5. ReadStreamFile(reqFiles', k) = c
    BY <2>4, WriteFileFacts
  <2> QED BY <2>1, <2>2, <2>3, <2>5 DEF Saved
<1>10. CASE WritesResp(i)
  <2>1. /\ inv'[i].at = "log" /\ inv'[i].outcome = "recorded" /\ inv'[i].acc = inv[i].acc
        /\ inv'[i].code = inv[i].code /\ inv'[i].key = inv[i].key /\ reqFiles' = reqFiles
        /\ inv[i].at = "saveResp"
    BY <1>10 DEF WritesResp, Concludes, SameInput
  <2>2. PICK k, code, c : /\ k = KeyFor(inv[i]) /\ code = inv[i].code
                          /\ c = Content(i, code, code # 0)
    OBVIOUS
  <2>3. TheKey(i) = k /\ KeyFor(inv[i])' = k /\ inv[i].key = {k}
    BY <1>4, <2>1, <2>2, TheKeyIs DEF InPhase
  <2>4. respFiles' = WriteFile(respFiles, k, c)
    BY <1>10, <2>2, <2>3 DEF WritesResp
  <2>5. ReadStreamFile(respFiles', k) = c
    BY <2>4, WriteFileFacts
  <2>6. ASSUME Alone(i)'
        PROVE  ReadStreamFile(reqFiles, k) = Content(i, 0, FALSE)
    <3>1. Alone(i)
      BY <1>3, <2>1, <2>3, <2>6, WasAlone
    <3> QED BY <1>1, <2>1, <2>2, <3>1 DEF Saved
  <2>7. Content(i, inv'[i].code, inv'[i].code # 0) = c
    BY <2>1, <2>2
  <2> QED BY <2>1, <2>3, <2>5, <2>6, <2>7 DEF Saved
<1>11. CASE Log(i) \/ Kill(i)
  <2>1. /\ inv'[i].key = inv[i].key /\ inv'[i].code = inv[i].code
        /\ inv'[i].outcome = inv[i].outcome /\ inv'[i].acc = inv[i].acc
        /\ inv'[i].at # "saveResp"
    BY <1>11, LogStep, KillStep DEF Moves, SameResult, SameInput
  <2>2. CASE inv[i].outcome # "recorded"
    BY <2>1, <2>2, NothingSaved
  <2>3. CASE inv[i].outcome = "recorded"
    <3>1. ~Saving(i)
      BY <1>2, <2>3
    <3>2. FilesStay(KeyFor(inv[i]))
      BY <3>1, OtherFilesStay
    <3> QED BY <1>1, <1>3, <1>4, <2>1, <3>2, StillSaved
  <2> QED BY <2>2, <2>3
<1> QED BY <1>5, <1>6, <1>7, <1>8, <1>9, <1>10, <1>11, SaveStep DEF CallAction

LEMMA SavedStep ==
    ASSUME Good, SavedInv, [Next]_vars
    PROVE  SavedInv'
<1>0. TypeOK /\ \A i \in Invocations : Begun(i) => InPhase(i)
  BY DEF Good, PhaseInv
<1>1. ASSUME inv' = inv, reqFiles' = reqFiles, respFiles' = respFiles,
             \A i \in Invocations : Begun(i) =>
                run'[inv[i].run].cfg = run[inv[i].run].cfg
      PROVE  SavedInv'
  <2> SUFFICES ASSUME NEW i \in Invocations, Begun(i)
               PROVE  Saved(i)'
    BY <1>1 DEF SavedInv, Saved, Begun
  <2>1. InPhase(i) /\ Saved(i)
    BY <1>0 DEF SavedInv
  <2>2. KeyFor(inv[i])' = KeyFor(inv[i])
    BY <1>1, KeyStays
  <2>3. FilesStay(KeyFor(inv[i]))
    BY <1>1, SameFilesStay
  <2>4. \A j \in Invocations \ {i} : Begun(j) =>
           Begun(j)' /\ (inv[j].key = {} \/ inv'[j].key = inv[j].key)
    BY <1>1 DEF Begun
  <2> QED BY <1>0, <1>1, <2>1, <2>2, <2>3, <2>4, StillSaved
<1>2. CASE UNCHANGED vars
  BY <1>1, <1>2 DEF vars
<1>3. ASSUME NEW r \in Runs, RunAction(r)
      PROVE  SavedInv'
  <2>1. inv' = inv /\ reqFiles' = reqFiles /\ respFiles' = respFiles
    BY <1>0, <1>3, RunActionFacts
  <2>2. ASSUME NEW i \in Invocations, Begun(i)
        PROVE  run'[inv[i].run].cfg = run[inv[i].run].cfg
    <3>1. Configured(inv[i].run) /\ inv[i].run \in Runs
      BY <1>0, <2>2, BegunCall DEF InPhase
    <3> QED BY <1>0, <1>3, <3>1, RunActionFacts DEF OtherRuns
  <2> QED BY <1>1, <2>1, <2>2
<1>4. ASSUME NEW r \in Runs, NEW m \in Invocations, NEW p \in Programs, Invoke(r, m, p)
      PROVE  SavedInv'
  <2>1. /\ run' = run /\ reqFiles' = reqFiles /\ respFiles' = respFiles
        /\ Others(m) /\ ~Begun(m)
    BY <1>0, <1>4, InvokeFacts
  <2>2. Saved(m)'
    <3>1. PICK b : Fresh(b, r, p) /\ Begins(m, r, b)
      BY <1>0, <1>4, InvokeStep
    <3>2. inv'[m].at # "saveResp" /\ inv'[m].outcome # "recorded"
      BY <3>1 DEF Fresh, Begins, Tried, Finishes, Concludes, Launches, Keyed, SameResult
    <3> QED BY <3>2, NothingSaved
  <2>3. ASSUME NEW i \in Invocations, i # m, Begun(i)
        PROVE  Saved(i)'
    <3>1. InPhase(i) /\ Saved(i) /\ inv'[i] = inv[i]
      BY <1>0, <2>1, <2>3 DEF SavedInv, Others
    <3>2. KeyFor(inv[i])' = KeyFor(inv[i])
      BY <2>1, <3>1, KeyStays
    <3>3. FilesStay(KeyFor(inv[i]))
      BY <2>1, SameFilesStay
    <3>4. \A j \in Invocations \ {i} : Begun(j) =>
             Begun(j)' /\ (inv[j].key = {} \/ inv'[j].key = inv[j].key)
      BY <2>1 DEF Begun, Others
    <3> QED BY <1>0, <2>3, <3>1, <3>2, <3>3, <3>4, StillSaved
  <2>4. ASSUME NEW i \in Invocations, i # m, ~Begun(i)
        PROVE  Saved(i)'
    BY <2>1, <2>4 DEF Saved, Others, Begun
  <2> QED BY <2>2, <2>3, <2>4 DEF SavedInv
<1>5. ASSUME NEW m \in Invocations, CallAction(m)
      PROVE  SavedInv'
  <2>1. run' = run /\ Others(m) /\ Begun(m) /\ Begun(m)' /\ InPhase(m)
    BY <1>0, <1>5, CallActionFacts
  <2>2. Saved(m)'
    BY <1>0, <1>5, <2>1, CallSaves DEF SavedInv
  <2>3. inv[m].key = {} \/ inv'[m].key = inv[m].key
    BY <1>0, <1>5, <2>1, KeyMadeOnce
  <2>4. ASSUME NEW i \in Invocations, i # m, Begun(i)
        PROVE  Saved(i)'
    <3>1. InPhase(i) /\ Saved(i) /\ inv'[i] = inv[i]
      BY <1>0, <2>1, <2>4 DEF SavedInv, Others
    <3>2. KeyFor(inv[i])' = KeyFor(inv[i])
      BY <2>1, <3>1, KeyStays
    <3>3. \A j \in Invocations \ {i} : Begun(j) =>
             Begun(j)' /\ (inv[j].key = {} \/ inv'[j].key = inv[j].key)
      BY <2>1, <2>3 DEF Begun, Others
    <3>4. CASE inv[i].at # "saveResp" /\ inv[i].outcome # "recorded"
      BY <3>1, <3>4, NothingSaved
    <3>5. CASE inv[i].at = "saveResp" \/ inv[i].outcome = "recorded"
      <4>1. inv[i].key = {KeyFor(inv[i])}
        BY <3>1, <3>5 DEF InPhase
      <4>2. Saving(m) => inv[m].key = {KeyFor(inv[m])}
        BY <2>1 DEF InPhase, Saving
      <4>3. Alone(i) => (Saving(m) => KeyFor(inv[m]) # KeyFor(inv[i]))
        BY <2>1, <2>4, <4>1, <4>2 DEF Alone
      <4>4. Alone(i) => FilesStay(KeyFor(inv[i]))
        BY <1>0, <1>5, <2>1, <4>3, OtherFilesStay
      <4> QED BY <1>0, <2>4, <3>1, <3>2, <3>3, <4>4, StillSaved
    <3> QED BY <3>4, <3>5
  <2>5. ASSUME NEW i \in Invocations, i # m, ~Begun(i)
        PROVE  Saved(i)'
    BY <2>1, <2>5 DEF Saved, Others, Begun
  <2> QED BY <2>2, <2>4, <2>5 DEF SavedInv
<1> QED BY <1>0, <1>2, <1>3, <1>4, <1>5, NextCases

\* What a shim has noted as recorded is sure to load, with the exit code of
\* its command (RecordedIsLoadable), unless another shim saves under the same
\* key: whichever shims are killed or fail to write meanwhile, and whatever
\* they leave of their files.
THEOREM RecordedLoads == Spec => []RecordedIsLoadable
<1>1. Init => Good /\ SavedInv
  BY GoodInit DEF SavedInv, Saved, Init, Begun
<1>2. Good /\ SavedInv /\ [Next]_vars => (Good /\ SavedInv)'
  BY GoodStep, SavedStep
<1>3. ASSUME Good, SavedInv
      PROVE  RecordedIsLoadable
  <2> SUFFICES ASSUME NEW i \in Invocations, Begun(i), inv[i].outcome = "recorded", Alone(i)
               PROVE  /\ LoadVerdicts(ReadStreamFile(reqFiles, TheKey(i)),
                                      ReadStreamFile(respFiles, TheKey(i))) = {"ok"}
                      /\ respFiles[TheKey(i)].code = inv[i].code
                      /\ respFiles[TheKey(i)].error = (inv[i].code # 0)
    BY DEF RecordedIsLoadable
  <2>1. PICK k, code, err : k = KeyFor(inv[i]) /\ code = inv[i].code /\ err = (inv[i].code # 0)
    OBVIOUS
  <2>2. TheKey(i) = k
    BY <1>3, <2>1, TheKeyIs DEF Good, PhaseInv, InPhase
  <2>3. /\ ReadStreamFile(reqFiles, k) = Content(i, 0, FALSE)
        /\ ReadStreamFile(respFiles, k) = Content(i, code, err)
    BY <1>3, <2>1 DEF SavedInv, Saved
  <2>4. /\ ReadStreamFile(reqFiles, k).shape = "unary"
        /\ ReadStreamFile(respFiles, k).shape = "unary"
        /\ respFiles[k] = Content(i, code, err)
    <3>1. /\ ReadStreamFile(reqFiles, k).shape = "unary"
          /\ ReadStreamFile(respFiles, k).shape = "unary"
      BY <2>3 DEF Content
    <3>2. ReadStreamFile(respFiles, k) # Absent
      BY <3>1 DEF Absent
    <3> QED BY <2>3, <3>1, <3>2 DEF ReadStreamFile
  <2>5. LoadVerdicts(ReadStreamFile(reqFiles, k), ReadStreamFile(respFiles, k)) = {"ok"}
    BY <2>4, VerdictFacts
  <2>6. respFiles[k].code = code /\ respFiles[k].error = err
    BY <2>4 DEF Content
  <2> QED BY <2>1, <2>2, <2>5, <2>6
<1> QED BY <1>1, <1>2, <1>3, PTL DEF Spec

-----------------------------------------------------------------------------
(***************************************************************************)
(* Where a replayed result comes from.                                     *)
(***************************************************************************)

\* A call that has its outcome keeps it, with all that led to it.
Settled(i) ==
    /\ Begun(i)' /\ inv'[i].outcome = inv[i].outcome /\ inv'[i].code = inv[i].code
    /\ inv'[i].prog = inv[i].prog /\ inv'[i].acc = inv[i].acc /\ inv'[i].run = inv[i].run
    /\ inv'[i].name = inv[i].name
    /\ inv'[i].key = inv[i].key /\ inv'[i].after = inv[i].after
    /\ KeyFor(inv[i])' = KeyFor(inv[i])
    /\ run'[inv[i].run].cfg = run[inv[i].run].cfg

LEMMA ConfigStays ==
    ASSUME Good, [Next]_vars, NEW i \in Invocations, Begun(i)
    PROVE  run'[inv[i].run].cfg = run[inv[i].run].cfg
<1>0. TypeOK /\ Configured(inv[i].run) /\ inv[i].run \in Runs
  BY BegunCall DEF Good, PhaseInv, InPhase
<1>1. CASE UNCHANGED vars
  BY <1>1 DEF vars
<1>2. ASSUME NEW r \in Runs, RunAction(r)
      PROVE  run'[inv[i].run].cfg = run[inv[i].run].cfg
  BY <1>0, <1>2, RunActionFacts DEF OtherRuns
<1>3. ASSUME NEW r \in Runs, NEW m \in Invocations, NEW p \in Programs, Invoke(r, m, p)
      PROVE  run'[inv[i].run].cfg = run[inv[i].run].cfg
  BY <1>0, <1>3, InvokeFacts
<1>4. ASSUME NEW m \in Invocations, CallAction(m)
      PROVE  run'[inv[i].run].cfg = run[inv[i].run].cfg
  BY <1>0, <1>4, CallActionFacts
<1> QED BY <1>0, <1>1, <1>2, <1>3, <1>4, NextCases

LEMMA OutcomeStays ==
    ASSUME Good, [Next]_vars, NEW i \in Invocations, Begun(i), inv[i].outcome # "none"
    PROVE  Settled(i)
<1>0. TypeOK /\ InPhase(i) /\ run'[inv[i].run].cfg = run[inv[i].run].cfg
  BY ConfigStays DEF Good, PhaseInv
<1>1. ASSUME inv'[i] = inv[i]
      PROVE  Settled(i)
  BY <1>0, <1>1, KeyStays DEF Settled, Begun
<1>2. CASE UNCHANGED vars
  BY <1>1, <1>2 DEF vars
<1>3. ASSUME NEW r \in Runs, RunAction(r)
      PROVE  Settled(i)
  BY <1>0, <1>1, <1>3, RunActionFacts
<1>4. ASSUME NEW r \in Runs, NEW m \in Invocations, NEW p \in Programs, Invoke(r, m, p)
      PROVE  Settled(i)
  BY <1>0, <1>1, <1>4, InvokeFacts DEF Others
<1>5. ASSUME NEW m \in Invocations, m # i, CallAction(m)
      PROVE  Settled(i)
  BY <1>0, <1>1, <1>5, CallActionFacts DEF Others
<1>6. CASE CallAction(i)
  <2>1. ~(inv[i].at \in {"stdin", "exec", "saveReq", "saveResp"})
    BY <1>0 DEF InPhase
  <2>2. Log(i) \/ Kill(i)
    BY <1>0, <1>6, <2>1, ReadStdinStep, LoadStep, PumpStep, RealExitsStep, SaveStep,
       SaveFailsStep DEF CallAction, WritesReq, WritesResp
  <2>3. /\ inv'[i].outcome = inv[i].outcome /\ inv'[i].code = inv[i].code
        /\ inv'[i].key = inv[i].key /\ inv'[i].acc = inv[i].acc
    BY <1>0, <2>2, LogStep, KillStep DEF Moves, SameResult, SameInput
  <2>4. Keeps(inv[i], inv'[i]) /\ Begun(i)'
    BY <1>0, <1>6, CallActionFacts
  <2>5. KeyFor(inv[i])' = KeyFor(inv[i])
    BY <1>0, <2>3, <2>4, KeyStays DEF Keeps
  <2> QED BY <1>0, <2>3, <2>4, <2>5 DEF Settled, Keeps
<1> QED BY <1>0, <1>2, <1>3, <1>4, <1>5, <1>6, NextCases

LEMMA OverStays ==
    ASSUME Good, [Next]_vars, NEW i \in Invocations, Begun(i), Over(i)
    PROVE  inv'[i] = inv[i]
<1>0. TypeOK
  BY DEF Good
<1>1. CASE UNCHANGED vars
  BY <1>1 DEF vars
<1>2. CASE \E r \in Runs : RunAction(r)
  BY <1>0, <1>2, RunActionFacts
<1>3. CASE \E r \in Runs, m \in Invocations, p \in Programs : Invoke(r, m, p)
  BY <1>0, <1>3, InvokeFacts DEF Others
<1>4. CASE \E m \in Invocations : CallAction(m)
  BY <1>0, <1>4, CallActionFacts DEF Others
<1> QED BY <1>0, <1>1, <1>2, <1>3, <1>4, NextCases

\* So does one that was killed, and a save that was stopped remains one.
LEMMA StoppedStays ==
    ASSUME Good, [Next]_vars, NEW i \in Invocations, Begun(i), Stopped(i)
    PROVE  Settled(i) /\ Stopped(i)'
<1>1. CASE inv[i].outcome # "none"
  BY <1>1, OutcomeStays DEF Settled, Stopped
<1>2. CASE inv[i].at = "killed"
  <2>1. inv'[i] = inv[i] /\ run'[inv[i].run].cfg = run[inv[i].run].cfg
    BY <1>2, OverStays, ConfigStays DEF Over
  <2>2. KeyFor(inv[i])' = KeyFor(inv[i])
    BY <2>1, KeyStays
  <2> QED BY <2>1, <2>2 DEF Settled, Stopped, Begun
<1> QED BY <1>1, <1>2 DEF Stopped

LEMMA ArgvInjective ==
    ASSUME NEW p \in Programs, NEW q \in Programs, Argv(p) = Argv(q)
    PROVE  p.args = q.args
<1>1. PICK a, b, w : a = p.args /\ b = q.args /\ w = Word(<< >>)
  OBVIOUS
<1>2. PICK S, T : a \in Seq(S) /\ b \in Seq(T)
  BY <1>1, ProgramsAssumption
<1>3. a \in Seq(S \cup T \cup {w}) /\ b \in Seq(S \cup T \cup {w})
      /\ <<w>> \in Seq(S \cup T \cup {w})
  BY <1>2
<1>4. <<w>> \o a = <<w>> \o b
  BY <1>1 DEF Argv
<1>5. Len(a) = Len(b)
  BY <1>3, <1>4
<1>6. ASSUME NEW n \in 1 .. Len(a)
      PROVE  a[n] = b[n]
  <2>1. (<<w>> \o a)[n + 1] = a[n] /\ (<<w>> \o b)[n + 1] = b[n]
    BY <1>3, <1>5
  <2> QED BY <1>4, <2>1
<1>7. a = b
  BY <1>3, <1>5, <1>6
<1> QED BY <1>1, <1>7

OfRecording(i) ==
    Begun(i) /\ inv[i].outcome = "replayed" =>
        \/ \E j \in Invocations : RecordingFor(j, i)
        \/ \E k \in DOMAIN Foreign : WasThere(k, i)

LEMMA OfRecordingIs ==
    ReplayIsOfARecording <=> \A i \in Invocations : OfRecording(i)
BY DEF ReplayIsOfARecording, OfRecording

\* A recording remains one.
LEMMA StillOfRecording ==
    ASSUME Good, [Next]_vars, NEW i \in Invocations, OfRecording(i), Begun(i),
           inv[i].outcome = "replayed"
    PROVE  OfRecording(i)'
<1>1. Settled(i) /\ Cfg(inv[i].run)' = Cfg(inv[i].run)
  BY OutcomeStays DEF Settled, Cfg
<1>2. ASSUME NEW j \in Invocations, RecordingFor(j, i)
      PROVE  RecordingFor(j, i)'
  <2>1. Begun(j) /\ (inv[j].outcome = "recorded" \/ Stopped(j))
    BY <1>2 DEF RecordingFor, Stopped
  <2>2. Settled(j) /\ (Stopped(j) => Stopped(j)')
    BY <2>1, OutcomeStays, StoppedStays
  <2>3. Cfg(inv[j].run)' = Cfg(inv[j].run)
    BY <2>2 DEF Settled, Cfg
  <2> QED BY <1>1, <1>2, <2>2, <2>3 DEF RecordingFor, Stopped, Settled
<1>3. ASSUME NEW k \in DOMAIN Foreign, WasThere(k, i)
      PROVE  WasThere(k, i)'
  BY <1>1, <1>3 DEF WasThere, Settled
<1> QED BY <1>2, <1>3 DEF OfRecording

\* What replay makes of a file that call j has left, or has left half of.
LEMMA CodeOfRecording ==
    ASSUME NEW f, NEW code \in Nat, f.error = (code # 0)
    PROVE  /\ f.code = code => ReplayedCode(f) = code
           /\ f.code \in 0 .. code => (ReplayedCode(f) = 0 <=> code = 0)
<1>1. CASE code = 0
  <2>1. ~f.error
    BY <1>1
  <2> QED BY <1>1, <2>1 DEF ReplayedCode
<1>2. CASE code # 0
  <2>1. f.error
    BY <1>2
  <2> QED BY <1>2, <2>1 DEF ReplayedCode
<1> QED BY <1>1, <1>2

LEMMA LoadedIsRecorded ==
    ASSUME Good, SourceInv, [Next]_vars, NEW i \in Invocations, Load(i)
    PROVE  OfRecording(i)'
<1>0. TypeOK /\ Begun(i) /\ inv[i].at = "stdin" /\ inv[i].outcome = "none"
      /\ Answers(i) /\ run' = run
  BY LoadStep DEF Good, PhaseInv, InPhase, Load
<1>1. CASE ~(Concludes(inv[i], inv'[i], "replayed", ReplayedCode(InResp(i)))
             /\ InResp(i) \notin {Absent, Truncated})
  <2>1. inv'[i].outcome # "replayed"
    BY <1>0, <1>1 DEF Answers, Tried, Finishes, Concludes, Launches, Keyed, SameResult
  <2> QED BY <2>1 DEF OfRecording
<1>2. CASE /\ Concludes(inv[i], inv'[i], "replayed", ReplayedCode(InResp(i)))
           /\ InResp(i) \notin {Absent, Truncated}
  <2>1. PICK k, f : k = KeyFor(inv[i]) /\ f = InResp(i)
    OBVIOUS
  <2>2. k \in DOMAIN respFiles /\ respFiles[k] = f /\ f # Truncated
    BY <1>2, <2>1 DEF InResp, ReadStreamFile
  <2>3. /\ k.args = Argv(inv[i].prog) /\ k.stdin = inv[i].acc
        /\ k.dir = Cfg(inv[i].run).cassettes /\ k.name = inv[i].name
    BY <2>1 DEF KeyFor
  <2>4. /\ inv'[i].prog = inv[i].prog /\ inv'[i].acc = inv[i].acc
        /\ inv'[i].name = inv[i].name /\ Cfg(inv[i].run)' = Cfg(inv[i].run)
        /\ inv'[i].code = ReplayedCode(f)
    BY <1>0, <1>2, <2>1 DEF Concludes, Keeps, SameInput, Cfg
  <2>5. Sourced(k)
    BY <2>2 DEF SourceInv
  <2>6. ASSUME NEW j \in Invocations, RecordedBy(k, j)
        PROVE  RecordingFor(j, i)'
    <3>1. /\ Begun(j) /\ inv[j].key # {} /\ KeyFor(inv[j]) = k
          /\ inv[j].outcome = "recorded" \/ Stopped(j)
      BY <2>6 DEF RecordedBy
    <3>2. inv[j].code \in Nat /\ inv[j].prog \in Programs /\ inv[i].prog \in Programs
      BY <1>0, <3>1, BegunCall DEF Good, PhaseInv, InPhase
    <3>3. \/ inv[j].outcome = "recorded" /\ ReplayedCode(f) = inv[j].code
          \/ Stopped(j) /\ (inv[j].code = 0 <=> ReplayedCode(f) = 0)
      BY <2>2, <2>6, <3>2, CodeOfRecording DEF RecordedBy
    <3>4. /\ k.args = Argv(inv[j].prog) /\ k.stdin = inv[j].acc
          /\ k.dir = Cfg(inv[j].run).cassettes /\ k.name = inv[j].name
      BY <3>1 DEF KeyFor
    <3>5. inv[j].prog.args = inv[i].prog.args
      BY <2>3, <3>2, <3>4, ArgvInjective
    <3>6. Settled(j) /\ (Stopped(j) => Stopped(j)')
      BY <3>1, OutcomeStays, StoppedStays
    <3>7. Cfg(inv[j].run)' = Cfg(inv[j].run)
      BY <3>6 DEF Settled, Cfg
    <3> QED
      BY <2>3, <2>4, <3>1, <3>3, <3>4, <3>5, <3>6, <3>7 DEF RecordingFor, Settled, Stopped
  <2>7. ASSUME k \in DOMAIN Foreign,
               respFiles[k] = Content(0, Foreign[k].code, Foreign[k].error)
        PROVE  WasThere(k, i)'
    <3>1. f.code = Foreign[k].code /\ f.error = Foreign[k].error
      BY <2>2, <2>7 DEF Content
    <3>2. Foreign[k].code \in Int
      BY <2>7, RunAssumption
    <3>3. /\ Foreign[k].code > 0 => ReplayedCode(f) = Foreign[k].code
          /\ (ReplayedCode(f) = 0) <=> (Foreign[k].code = 0 /\ ~Foreign[k].error)
      BY <3>1, <3>2 DEF ReplayedCode
    <3> QED BY <2>3, <2>4, <3>3 DEF WasThere
  <2> QED BY <2>2, <2>5, <2>6, <2>7 DEF Sourced, OfRecording
<1> QED BY <1>1, <1>2

LEMMA StillSourced ==
    ASSUME Good, [Next]_vars, NEW k, Sourced(k), respFiles'[k] = respFiles[k]
    PROVE  Sourced(k)'
<1>1. ASSUME NEW j \in Invocations, RecordedBy(k, j)
      PROVE  RecordedBy(k, j)'
  <2>1. Begun(j) /\ (inv[j].outcome = "recorded" \/ Stopped(j))
    BY <1>1 DEF RecordedBy
  <2>2. Settled(j) /\ (Stopped(j) => Stopped(j)')
    BY <2>1, OutcomeStays, StoppedStays
  <2> QED BY <1>1, <2>2 DEF RecordedBy, Settled
<1>2. CASE respFiles[k] = Truncated
  BY <1>2 DEF Sourced
<1>3. CASE k \in DOMAIN Foreign
           /\ respFiles[k] = Content(0, Foreign[k].code, Foreign[k].error)
  BY <1>3 DEF Sourced
<1> QED BY <1>1, <1>2, <1>3 DEF Sourced

\* The files a call may make of its resp file.
LEMMA LeftFacts ==
    ASSUME NEW m, NEW code \in Nat, inv[m].code = code,
           NEW c \in {RespContent(m)} \cup
                     {CutShort([RespContent(m) EXCEPT !.code = n]) : n \in CutNumbers(code)}
    PROVE  c.error = (code # 0) /\ c.code \in 0 .. code
<1>1. PICK w, err : w = RespContent(m) /\ err = (code # 0)
  OBVIOUS
<1>2. /\ w = [shape |-> "unary", by |-> m, code |-> code, error |-> err]
  BY <1>1 DEF RespContent, Content
<1>3. CASE c = w
  BY <1>1, <1>2, <1>3
<1>4. ASSUME NEW n \in CutNumbers(code), c = CutShort([w EXCEPT !.code = n])
      PROVE  c.error = err /\ c.code \in 0 .. code
  <2>1. n \in 0 .. code
    BY DEF CutNumbers
  <2>2. c.error = err /\ c.code = n
    BY <1>2, <1>4 DEF CutShort
  <2> QED BY <2>1, <2>2
<1> QED BY <1>1, <1>3, <1>4

\* A resp file is written whole by Save, or stopped.
LEMMA RespWrites ==
    ASSUME Good, NEW m \in Invocations, CallAction(m), respFiles' # respFiles
    PROVE  \E c : /\ respFiles' = WriteFile(respFiles, KeyFor(inv[m]), c)
                  /\ c = Truncated \/ (/\ inv[m].at = "saveResp"
                                       /\ c.error = (inv[m].code # 0)
                                       /\ \/ WritesResp(m) /\ c.code = inv[m].code
                                          \/ /\ SaveFails(m) \/ Kill(m)
                                             /\ c.code \in 0 .. inv[m].code)
<1>0. TypeOK /\ Begun(m) /\ InPhase(m)
  BY CallActionFacts DEF Good, PhaseInv
<1>1. inv[m].at = "saveResp" => TheKey(m) = KeyFor(inv[m]) /\ inv[m].code \in Nat
  BY <1>0, TheKeyIs DEF InPhase
<1>2. CASE ReadStdin(m) \/ Load(m) \/ Pump(m) \/ Log(m)
           \/ \E code \in Nat : RealExits(m, code)
  BY <1>2 DEF ReadStdin, Load, Pump, Log, RealExits, files
<1>3. CASE Save(m)
  <2>1. CASE WritesReq(m)
    BY <2>1 DEF WritesReq
  <2>2. CASE WritesResp(m)
    <3>1. PICK code, err, c : /\ code = inv[m].code /\ err = (inv[m].code # 0)
                              /\ c = Content(m, code, err)
      OBVIOUS
    <3>2. respFiles' = WriteFile(respFiles, KeyFor(inv[m]), c) /\ inv[m].at = "saveResp"
      BY <1>1, <2>2, <3>1 DEF WritesResp
    <3>3. c.code = code /\ c.error = err
      BY <3>1 DEF Content
    <3> QED BY <2>2, <3>1, <3>2, <3>3
  <2> QED BY <1>0, <1>3, <2>1, <2>2, SaveStep
<1>4. CASE SaveFails(m) \/ Kill(m)
  <2>1. StoppedFiles(m)
    BY <1>0, <1>4, SaveFailsStep, KillStep
  <2>2. inv[m].at = "saveResp"
    BY <2>1 DEF StoppedFiles
  <2>3. PICK c \in {Truncated, RespContent(m)} \cup
                   {CutShort([RespContent(m) EXCEPT !.code = n]) :
                       n \in CutNumbers(inv[m].code)} :
           respFiles' = WriteFile(respFiles, TheKey(m), c)
    BY <2>1, <2>2 DEF StoppedFiles
  <2>4. CASE c = Truncated
    BY <1>1, <2>2, <2>3, <2>4
  <2>5. CASE c # Truncated
    <3>1. c.error = (inv[m].code # 0) /\ c.code \in 0 .. inv[m].code
      BY <1>1, <2>2, <2>3, <2>5, LeftFacts
    <3> QED BY <1>1, <1>4, <2>2, <2>3, <3>1
  <2> QED BY <2>4, <2>5
<1> QED BY <1>2, <1>3, <1>4 DEF CallAction

LEMMA FilesSourced ==
    ASSUME Good, SourceInv, [Next]_vars
    PROVE  \A k \in DOMAIN respFiles' : Sourced(k)'
<1>0. TypeOK /\ \A k \in DOMAIN respFiles : Sourced(k)
  BY DEF Good, SourceInv
<1>1. CASE respFiles' = respFiles
  BY <1>0, <1>1, StillSourced
<1>2. ASSUME NEW w, NEW content, respFiles' = WriteFile(respFiles, w, content), Sourced(w)'
      PROVE  \A k \in DOMAIN respFiles' : Sourced(k)'
  <2> SUFFICES ASSUME NEW k \in DOMAIN respFiles', k # w
               PROVE  Sourced(k)'
    BY <1>2
  <2>1. k \in DOMAIN respFiles /\ respFiles'[k] = respFiles[k]
    BY <1>2 DEF WriteFile
  <2> QED BY <1>0, <2>1, StillSourced
<1>3. ASSUME NEW m \in Invocations, CallAction(m), respFiles' # respFiles
      PROVE  \A k \in DOMAIN respFiles' : Sourced(k)'
  <2>1. PICK k : k = KeyFor(inv[m])
    OBVIOUS
  <2>2. PICK c : /\ respFiles' = WriteFile(respFiles, k, c)
                 /\ c = Truncated \/ (/\ inv[m].at = "saveResp"
                                      /\ c.error = (inv[m].code # 0)
                                      /\ \/ WritesResp(m) /\ c.code = inv[m].code
                                         \/ /\ SaveFails(m) \/ Kill(m)
                                            /\ c.code \in 0 .. inv[m].code)
    BY <1>3, <2>1, RespWrites
  <2>3. respFiles'[k] = c
    BY <2>2 DEF WriteFile
  <2>4. CASE c = Truncated
    <3>1. Sourced(k)'
      BY <2>3, <2>4 DEF Sourced
    <3> QED BY <1>2, <2>2, <3>1
  <2>5. CASE c # Truncated
    <3>1. Begun(m)' /\ Keeps(inv[m], inv'[m]) /\ run' = run
      BY <1>0, <1>3, CallActionFacts
    <3>2. inv[m].key # {} /\ inv[m].outcome = "none"
      BY <1>0, <1>3, <2>2, <2>5, CallActionFacts DEF Good, PhaseInv, InPhase
    <3>3. /\ inv'[m].code = inv[m].code /\ inv'[m].key = inv[m].key
          /\ inv'[m].acc = inv[m].acc
          /\ WritesResp(m) => inv'[m].outcome = "recorded"
          /\ SaveFails(m) => inv'[m].outcome = "error"
          /\ Kill(m) => inv'[m].at = "killed" /\ inv'[m].outcome = "none"
      BY <1>0, <2>2, <2>5, <3>2, SaveFailsStep, KillStep
         DEF WritesResp, Concludes, Moves, SameInput, SameResult
    <3>4. KeyFor(inv[m])' = k
      BY <2>1, <3>1, <3>3, KeyStays DEF Keeps
    <3>5. RecordedBy(k, m)'
      BY <2>2, <2>3, <2>5, <3>1, <3>2, <3>3, <3>4 DEF RecordedBy, Stopped
    <3>6. Sourced(k)'
      BY <3>5 DEF Sourced
    <3> QED BY <1>2, <2>2, <3>6
  <2> QED BY <2>4, <2>5
<1>4. CASE \/ UNCHANGED vars
           \/ \E r \in Runs : RunAction(r)
           \/ \E r \in Runs, i \in Invocations, p \in Programs : Invoke(r, i, p)
  <2>1. respFiles' = respFiles
    BY <1>0, <1>4, RunActionFacts, InvokeFacts DEF vars
  <2> QED BY <1>1, <2>1
<1> QED BY <1>0, <1>1, <1>3, <1>4, NextCases

\* Only Load replays.
LEMMA OnlyLoadReplays ==
    ASSUME Good, [Next]_vars, NEW i \in Invocations, Begun(i)',
           inv'[i].outcome = "replayed"
    PROVE  Load(i) \/ (Begun(i) /\ inv[i].outcome = "replayed")
<1>0. TypeOK
  BY DEF Good
<1>1. CASE Begun(i) /\ inv[i].outcome # "none"
  BY <1>1, OutcomeStays DEF Settled
<1>2. CASE inv'[i] = inv[i]
  BY <1>2 DEF Begun
<1>3. ASSUME NEW r \in Runs, NEW p \in Programs, Invoke(r, i, p)
      PROVE  FALSE
  <2>1. PICK b : Fresh(b, r, p) /\ Begins(i, r, b)
    BY <1>0, <1>3, InvokeStep
  <2> QED BY <2>1 DEF Fresh, Begins, Tried, Finishes, Concludes, Launches, Keyed, SameResult
<1>4. CASE CallAction(i) /\ inv[i].outcome = "none" /\ ~Load(i)
  <2>1. CASE ReadStdin(i) \/ Pump(i) \/ Log(i) \/ SaveFails(i) \/ Kill(i)
    BY <1>0, <1>4, <2>1, ReadStdinStep, PumpStep, LogStep, SaveFailsStep, KillStep
       DEF SameResult, Concludes, Moves
  <2>2. CASE \E code \in Nat : RealExits(i, code)
    BY <1>0, <1>4, <2>2, RealExitsStep DEF Finishes, Concludes, Keyed
  <2>3. CASE Save(i)
    BY <1>0, <1>4, <2>3, SaveStep DEF WritesReq, WritesResp, Moves, Concludes, SameResult
  <2> QED BY <1>4, <2>1, <2>2, <2>3 DEF CallAction
<1>5. CASE UNCHANGED vars
  BY <1>2, <1>5 DEF vars
<1>6. CASE \E r \in Runs : RunAction(r)
  BY <1>0, <1>2, <1>6, RunActionFacts
<1>7. CASE \E r \in Runs, m \in Invocations, p \in Programs : Invoke(r, m, p)
  BY <1>0, <1>2, <1>3, <1>7, InvokeFacts DEF Others
<1>8. ASSUME NEW m \in Invocations, CallAction(m)
      PROVE  Load(i) \/ (Begun(i) /\ inv[i].outcome = "replayed")
  <2>1. CASE m # i
    BY <1>0, <1>2, <1>8, <2>1, CallActionFacts DEF Others
  <2>2. CASE m = i
    BY <1>0, <1>1, <1>4, <1>8, <2>2, CallActionFacts
  <2> QED BY <2>1, <2>2
<1> QED BY <1>0, <1>5, <1>6, <1>7, <1>8, NextCases

\* Only what was recorded, or was there before, is replayed
\* (ReplayIsOfARecording).  The recording is of the same directory, command,
\* arguments and input.  If it was saved, the exit code is the same; if its
\* save was stopped, anywhere in either file, the result is a failure just
\* when the call failed.  Of a cassette that was there before, a positive
\* exit code comes back as it is, and a failure as a failure.
THEOREM ReplaysRecordings == Spec => []ReplayIsOfARecording
<1>1. Init => Good /\ SourceInv
  <2> SUFFICES ASSUME Init
               PROVE  SourceInv
    BY GoodInit
  <2>1. ReplayIsOfARecording
    BY DEF ReplayIsOfARecording, Init, Begun
  <2>2. \A k \in DOMAIN respFiles : Sourced(k)
    BY DEF Init, Sourced
  <2> QED BY <2>1, <2>2 DEF SourceInv
<1>2. Good /\ SourceInv /\ [Next]_vars => (Good /\ SourceInv)'
  <2> SUFFICES ASSUME Good, SourceInv, [Next]_vars
               PROVE  Good' /\ SourceInv'
    OBVIOUS
  <2>1. ASSUME NEW i \in Invocations
        PROVE  OfRecording(i)'
    <3>1. CASE Load(i)
      BY <3>1, LoadedIsRecorded
    <3>2. CASE Begun(i) /\ inv[i].outcome = "replayed"
      BY <3>2, StillOfRecording, OfRecordingIs DEF SourceInv
    <3>3. CASE ~(Begun(i)' /\ inv'[i].outcome = "replayed")
      BY <3>3 DEF OfRecording
    <3> QED BY <3>1, <3>2, <3>3, OnlyLoadReplays
  <2>2. ReplayIsOfARecording'
    BY <2>1 DEF ReplayIsOfARecording, OfRecording
  <2> QED BY <2>2, GoodStep, FilesSourced DEF SourceInv
<1>3. Good /\ SourceInv => ReplayIsOfARecording
  BY DEF SourceInv
<1> QED BY <1>1, <1>2, <1>3, PTL DEF Spec

-----------------------------------------------------------------------------
(***************************************************************************)
(* The standard input.                                                     *)
(***************************************************************************)
LEMMA FirstNone ==
    ASSUME NEW whole
    PROVE  FirstOf(<< >>, whole, 0)
<1>1. << >> \in Seq({whole[m] : m \in DOMAIN whole})
  OBVIOUS
<1> QED BY <1>1 DEF FirstOf

LEMMA FirstMore ==
    ASSUME NEW S, NEW whole \in Seq(S), NEW n \in Nat, n < Len(whole),
           NEW part, FirstOf(part, whole, n)
    PROVE  FirstOf(Append(part, whole[n + 1]), whole, n + 1)
<1>1. PICK T : T = {whole[m] : m \in DOMAIN whole}
  OBVIOUS
<1>2. whole[n + 1] \in T
  BY <1>1
<1>3. part \in Seq(T) /\ Len(part) = n /\ \A m \in 1 .. n : part[m] = whole[m]
  BY <1>1 DEF FirstOf
<1>4. /\ Append(part, whole[n + 1]) \in Seq(T)
      /\ Len(Append(part, whole[n + 1])) = n + 1
      /\ \A m \in 1 .. n + 1 : Append(part, whole[n + 1])[m] = whole[m]
  BY <1>2, <1>3
<1> QED BY <1>1, <1>4 DEF FirstOf

LEMMA FirstAll ==
    ASSUME NEW S, NEW whole \in Seq(S), NEW part, FirstOf(part, whole, Len(whole))
    PROVE  part = whole
<1>1. PICK T : part \in Seq(T)
  BY DEF FirstOf
<1>2. part \in Seq(S \cup T) /\ whole \in Seq(S \cup T)
  BY <1>1
<1> QED BY <1>2 DEF FirstOf

LEMMA ChunksAreSeq ==
    ASSUME TypeOK, NEW i \in Invocations, Begun(i)
    PROVE  /\ \E S : Stdin(i).chunks \in Seq(S)
           /\ Len(Stdin(i).chunks) \in Nat
<1>1. inv[i].prog \in Programs
  BY BegunCall
<1>2. PICK S : Stdin(i).chunks \in Seq(S)
  BY <1>1, ProgramsAssumption DEF Stdin
<1> QED BY <1>2

\* The next chunk is passed on.
LEMMA ReadMore ==
    ASSUME TypeOK, NEW i \in Invocations, Begun(i), More(i),
           inv[i].taken \in 0 .. Len(Stdin(i).chunks), NEW part, Read(i, part)
    PROVE  FirstOf(Append(part, NextChunk(i)), Stdin(i).chunks, inv[i].taken + 1)
<1>1. PICK S : Stdin(i).chunks \in Seq(S)
  BY ChunksAreSeq
<1>2. Len(Stdin(i).chunks) \in Nat
  BY ChunksAreSeq
<1> QED BY <1>1, <1>2, FirstMore DEF Read, More, NextChunk

LEMMA ReadAll ==
    ASSUME TypeOK, NEW i \in Invocations, Begun(i), ~More(i),
           inv[i].taken \in 0 .. Len(Stdin(i).chunks), NEW part, Read(i, part)
    PROVE  part = Stdin(i).chunks
<1>1. PICK S : Stdin(i).chunks \in Seq(S)
  BY ChunksAreSeq
<1>2. Len(Stdin(i).chunks) \in Nat
  BY ChunksAreSeq
<1>3. inv[i].taken = Len(Stdin(i).chunks)
  BY <1>2 DEF More
<1> QED BY <1>1, <1>3, FirstAll DEF Read

LEMMA SameStdin ==
    ASSUME NEW i, Keeps(inv[i], inv'[i])
    PROVE  Stdin(i)' = Stdin(i) /\ (InTime(i)' <=> InTime(i))
BY DEF Keeps, Stdin, InTime

Taken(i) == Copied(i) /\ FedAll(i) /\ KeptAll(i)

\* A call that did not run its command, and one that has not got as far.
LEMMA NotRun ==
    ASSUME NEW i, inv'[i].at \notin {"stdin", "exec", "saveReq", "saveResp"},
           inv'[i].outcome # "recorded",
           ~inv'[i].ran \/ inv'[i].at = "killed"
    PROVE  Taken(i)'
<1>1. Copied(i)'
  BY DEF Copied
<1>2. FedAll(i)'
  BY DEF FedAll
<1>3. KeptAll(i)'
  BY DEF KeptAll, Saving
<1> QED BY <1>1, <1>2, <1>3 DEF Taken

\* After the input, a call only moves on.
LEMMA StillTaken ==
    ASSUME NEW i, Begun(i), Taken(i), Keeps(inv[i], inv'[i]), SameInput(inv[i], inv'[i]),
           inv[i].at \in {"saveReq", "saveResp", "log", "done"},
           inv'[i].at \in {"saveResp", "log", "done", "killed"},
           Saving(i)' \/ inv'[i].outcome = "recorded" =>
              Saving(i) \/ inv[i].outcome = "recorded"
    PROVE  Taken(i)'
<1>1. Stdin(i)' = Stdin(i) /\ (InTime(i)' <=> InTime(i))
  BY SameStdin
<1>2. Copied(i)'
  BY DEF Copied
<1>3. FedAll(i)'
  BY <1>1 DEF Taken, FedAll, Keeps, SameInput
<1>4. KeptAll(i)'
  BY <1>1 DEF Taken, KeptAll, Keeps, SameInput
<1> QED BY <1>2, <1>3, <1>4 DEF Taken

LEMMA NoOutcome ==
    ASSUME NEW i, inv'[i].at \in {"stdin", "exec"}, inv'[i].outcome = "none"
    PROVE  FedAll(i)' /\ KeptAll(i)'
BY DEF FedAll, KeptAll, Saving

LEMMA CallTakes ==
    ASSUME TypeOK, NEW i \in Invocations, InPhase(i), Taken(i), CallAction(i)
    PROVE  Taken(i)'
<1>0. Begun(i) /\ Keeps(inv[i], inv'[i]) /\ run' = run /\ inv'[i].prog = inv[i].prog
  BY CallActionFacts DEF Keeps
<1>1. Stdin(i)' = Stdin(i) /\ (InTime(i)' <=> InTime(i)) /\ Mode(i)' = Mode(i)
  BY <1>0, SameStdin DEF Mode, Cfg, Keeps
<1>2. Copied(i) /\ FedAll(i) /\ KeptAll(i)
  BY DEF Taken
<1>3. Len(Stdin(i).chunks) \in Nat
  BY <1>0, ChunksAreSeq
<1>4. CASE ReadStdin(i)
  <2>1. /\ inv[i].at = "stdin" /\ More(i) /\ inv'[i].at = "stdin"
        /\ inv'[i].taken = inv[i].taken + 1 /\ inv'[i].leftover = inv[i].leftover
        /\ inv'[i].acc = Append(inv[i].acc, NextChunk(i))
        /\ inv'[i].outcome = inv[i].outcome
    BY <1>4, ReadStdinStep DEF Takes, SameResult
  <2>2. /\ inv[i].taken \in 0 .. Len(Stdin(i).chunks) /\ Read(i, inv[i].acc)
        /\ inv[i].leftover = FALSE /\ inv[i].outcome = "none"
    BY <1>0, <1>2, <2>1 DEF Copied, InPhase
  <2>3. FirstOf(inv'[i].acc, Stdin(i).chunks, inv'[i].taken)
    BY <1>0, <2>1, <2>2, ReadMore
  <2>4. inv'[i].taken \in 0 .. Len(Stdin(i).chunks)
    BY <1>3, <2>1, <2>2 DEF More
  <2>5. Copied(i)'
    BY <1>1, <2>1, <2>2, <2>3, <2>4 DEF Copied, Read
  <2>6. FedAll(i)' /\ KeptAll(i)'
    BY <2>1, <2>2, NoOutcome
  <2> QED BY <2>5, <2>6 DEF Taken
<1>5. CASE Load(i)
  <2>1. inv[i].at = "stdin" /\ Answers(i)
    BY <1>5, LoadStep
  <2>2. /\ inv[i].taken \in 0 .. Len(Stdin(i).chunks) /\ Read(i, inv[i].acc)
        /\ inv[i].outcome = "none" /\ ~inv[i].ran /\ Mode(i) = "replay"
    BY <1>0, <1>2, <2>1 DEF Copied, InPhase
  <2>3. ASSUME NEW outcome, NEW code, outcome # "recorded",
               Concludes(inv[i], inv'[i], outcome, code)
        PROVE  Taken(i)'
    <3>1. inv'[i].at = "log" /\ inv'[i].outcome # "recorded" /\ ~inv'[i].ran
      BY <2>2, <2>3 DEF Concludes, SameInput
    <3> QED BY <3>1, NotRun
  <2>4. ASSUME NEW leftover \in BOOLEAN, leftover => TimesOut(i),
               Launches(inv[i], inv'[i], leftover)
        PROVE  Taken(i)'
    <3>1. /\ inv'[i].at = "exec" /\ inv'[i].fed = inv[i].acc
          /\ inv'[i].taken = inv[i].taken /\ inv'[i].leftover = leftover
          /\ inv'[i].outcome = "none"
      BY <2>2, <2>4 DEF Launches, SameResult
    <3>2. InTime(i) => leftover = FALSE
      BY <2>4 DEF InTime, TimesOut
    <3>3. Copied(i)'
      BY <1>1, <2>2, <3>1, <3>2 DEF Copied, Read
    <3>4. FedAll(i)' /\ KeptAll(i)'
      BY <3>1, NoOutcome
    <3> QED BY <3>3, <3>4 DEF Taken
  <2>5. ASSUME NEW leftover \in BOOLEAN, leftover => TimesOut(i),
               Tried(inv[i], inv'[i], leftover)
        PROVE  Taken(i)'
    <3>1. ~Recorded(inv[i])
      BY <2>2 DEF Recorded, Mode
    <3> QED BY <2>3, <2>4, <2>5, <3>1 DEF Tried, Finishes
  <2> QED BY <2>1, <2>3, <2>5 DEF Answers
<1>6. CASE Pump(i)
  <2>1. /\ inv[i].at = "exec" /\ More(i) /\ inv'[i].at = "exec"
        /\ inv'[i].taken = inv[i].taken + 1 /\ inv'[i].leftover = FALSE
        /\ ~inv[i].leftover => inv'[i].fed = Append(inv[i].fed, NextChunk(i))
        /\ Mode(i) = "record" => inv'[i].acc = Append(inv[i].acc, NextChunk(i))
        /\ inv'[i].outcome = inv[i].outcome
    BY <1>6, PumpStep DEF Takes, SameResult
  <2>2. /\ inv[i].taken \in 0 .. Len(Stdin(i).chunks)
        /\ InTime(i) => Read(i, inv[i].fed) /\ inv[i].leftover = FALSE
        /\ Mode(i) = "record" => Read(i, inv[i].acc)
        /\ inv[i].outcome = "none"
    BY <1>0, <1>2, <2>1 DEF Copied, InPhase
  <2>3. InTime(i) => FirstOf(inv'[i].fed, Stdin(i).chunks, inv'[i].taken)
    BY <1>0, <2>1, <2>2, ReadMore
  <2>4. Mode(i) = "record" => FirstOf(inv'[i].acc, Stdin(i).chunks, inv'[i].taken)
    BY <1>0, <2>1, <2>2, ReadMore
  <2>5. inv'[i].taken \in 0 .. Len(Stdin(i).chunks)
    BY <1>3, <2>1, <2>2 DEF More
  <2>6. Copied(i)'
    BY <1>1, <2>1, <2>3, <2>4, <2>5 DEF Copied, Read
  <2>7. FedAll(i)' /\ KeptAll(i)'
    BY <2>1, <2>2, NoOutcome
  <2> QED BY <2>6, <2>7 DEF Taken
<1>7. CASE \E code \in Nat : RealExits(i, code)
  <2>1. PICK code \in Nat :
           /\ inv[i].at = "exec" /\ Finishes(inv[i], inv'[i], code)
           /\ inv[i].prog.reads => ~More(i) /\ Stdin(i).closes
    BY <1>7, RealExitsStep
  <2>2. /\ inv[i].taken \in 0 .. Len(Stdin(i).chunks)
        /\ InTime(i) => Read(i, inv[i].fed)
        /\ Mode(i) = "record" => Read(i, inv[i].acc)
        /\ inv[i].outcome = "none"
    BY <1>0, <1>2, <2>1 DEF Copied, InPhase
  <2>3. /\ inv'[i].at \in {"saveReq", "log"}
        /\ inv'[i].fed = inv[i].fed /\ inv'[i].acc = inv[i].acc
        /\ inv'[i].at = "saveReq" => Mode(i) = "record"
        /\ inv'[i].outcome # "recorded"
    BY <2>1, <2>2 DEF Finishes, Concludes, Keyed, SameInput, Recorded, Mode
  <2>4. FedAll(i)'
    <3>1. inv[i].prog.reads /\ InTime(i) => inv[i].fed = Stdin(i).chunks
      BY <1>0, <2>1, <2>2, ReadAll
    <3> QED BY <1>0, <1>1, <2>3, <3>1 DEF FedAll
  <2>5. KeptAll(i)'
    <3>1. ASSUME Mode(i) = "record", Steady(inv[i].prog)
          PROVE  inv[i].acc = Stdin(i).chunks
      <4>1. CASE More(i)
        <5>1. ~inv[i].prog.reads /\ Stdin(i).chunks = << >>
          BY <2>1, <3>1, <4>1 DEF Steady, Stdin
        <5> QED BY <2>2, <4>1, <5>1 DEF More
      <4>2. CASE ~More(i)
        BY <1>0, <2>2, <3>1, <4>2, ReadAll
      <4> QED BY <4>1, <4>2
    <3> QED BY <1>0, <1>1, <2>3, <3>1 DEF KeptAll, Saving
  <2>6. Copied(i)'
    BY <2>3 DEF Copied
  <2> QED BY <2>4, <2>5, <2>6 DEF Taken
<1>8. CASE Save(i)
  <2>1. WritesReq(i) \/ WritesResp(i)
    BY <1>8, SaveStep
  <2>2. SameInput(inv[i], inv'[i]) /\ Saving(i) /\ inv'[i].at \in {"saveResp", "log"}
    BY <2>1 DEF WritesReq, WritesResp, Moves, Concludes, Saving
  <2> QED BY <1>0, <2>2, StillTaken DEF Saving
<1>9. CASE SaveFails(i)
  <2>1. SameInput(inv[i], inv'[i]) /\ Saving(i) /\ inv'[i].at = "log"
    BY <1>9, SaveFailsStep DEF Concludes, Saving
  <2> QED BY <1>0, <2>1, StillTaken DEF Saving
<1>10. CASE Log(i)
  <2>1. /\ SameInput(inv[i], inv'[i]) /\ inv[i].at = "log" /\ inv'[i].at = "done"
        /\ inv'[i].outcome = inv[i].outcome
    BY <1>10, LogStep
  <2> QED BY <1>0, <2>1, StillTaken DEF Saving
<1>11. CASE Kill(i)
  <2>1. /\ SameInput(inv[i], inv'[i]) /\ inv'[i].at = "killed"
        /\ inv'[i].outcome = inv[i].outcome
    BY <1>11, KillStep DEF Moves, SameResult
  <2>2. CASE inv[i].outcome = "recorded"
    <3>1. KeptAll(i)'
      BY <1>0, <1>1, <1>2, <2>1, <2>2 DEF KeptAll, SameInput
    <3>2. Copied(i)' /\ FedAll(i)'
      BY <2>1 DEF Copied, FedAll
    <3> QED BY <3>1, <3>2 DEF Taken
  <2>3. CASE inv[i].outcome # "recorded"
    BY <2>1, <2>3, NotRun
  <2> QED BY <2>2, <2>3
<1> QED BY <1>4, <1>5, <1>6, <1>7, <1>8, <1>9, <1>10, <1>11 DEF CallAction

LEMMA InvokeTakes ==
    ASSUME TypeOK, NEW r \in Runs, NEW i \in Invocations, NEW p \in Programs,
           Invoke(r, i, p)
    PROVE  Taken(i)'
<1>1. PICK b : Fresh(b, r, p) /\ Begins(i, r, b)
  BY InvokeStep
<1>2. /\ b.at = "stdin" /\ b.prog = p /\ b.taken = 0 /\ b.acc = << >> /\ b.fed = << >>
      /\ b.leftover = FALSE /\ b.ran = FALSE /\ b.outcome = "none"
  BY <1>1 DEF Fresh
<1>3. Stdin(i)' = p.stdin /\ inv'[i].prog = p
  BY InvokeFacts DEF Stdin
<1>4. PICK S : p.stdin.chunks \in Seq(S)
  BY ProgramsAssumption
<1>5. Len(p.stdin.chunks) \in Nat
  BY <1>4
<1>6. FirstOf(<< >>, p.stdin.chunks, 0)
  BY FirstNone
<1>7. CASE /\ inv'[i].at = "done" /\ Keeps(b, inv'[i])
           /\ inv'[i].outcome = "none"
           /\ inv'[i].ran => ~b.shim \/ ~b.onPath
  <2>1. Copied(i)' /\ KeptAll(i)'
    BY <1>7 DEF Copied, KeptAll, Saving
  <2>2. FedAll(i)'
    BY <1>7 DEF FedAll, Keeps
  <2> QED BY <2>1, <2>2 DEF Taken
<1>8. ASSUME NEW outcome, NEW code, outcome # "recorded",
             Concludes(b, inv'[i], outcome, code)
      PROVE  Taken(i)'
  <2>1. inv'[i].at = "log" /\ inv'[i].outcome # "recorded" /\ ~inv'[i].ran
    BY <1>2, <1>8 DEF Concludes, SameInput
  <2> QED BY <2>1, NotRun
<1>9. CASE inv'[i] = b
  <2>1. Copied(i)'
    BY <1>2, <1>3, <1>5, <1>6, <1>9 DEF Copied, Read
  <2>2. FedAll(i)' /\ KeptAll(i)'
    BY <1>2, <1>9, NoOutcome
  <2> QED BY <2>1, <2>2 DEF Taken
<1>10. CASE Launches(b, inv'[i], FALSE)
  <2>1. /\ inv'[i].at = "exec" /\ inv'[i].fed = << >> /\ inv'[i].acc = << >>
        /\ inv'[i].taken = 0 /\ inv'[i].leftover = FALSE /\ inv'[i].outcome = "none"
    BY <1>2, <1>10 DEF Launches, SameResult
  <2>2. Copied(i)'
    BY <1>3, <1>5, <1>6, <2>1 DEF Copied, Read
  <2>3. FedAll(i)' /\ KeptAll(i)'
    BY <2>1, NoOutcome
  <2> QED BY <2>2, <2>3 DEF Taken
<1>11. CASE p.real = "broken" /\ Keyed(b, inv'[i], exitNotFound)
  <2>1. inv'[i].at = "saveReq" /\ ~inv'[i].ran /\ inv'[i].acc = << >>
    BY <1>2, <1>11 DEF Keyed, SameInput
  <2>2. Steady(p) => p.stdin.chunks = << >>
    BY <1>11 DEF Steady
  <2>3. KeptAll(i)'
    BY <1>3, <2>1, <2>2 DEF KeptAll
  <2>4. Copied(i)' /\ FedAll(i)'
    BY <2>1 DEF Copied, FedAll
  <2> QED BY <2>3, <2>4 DEF Taken
<1>12. CASE Tried(b, inv'[i], FALSE)
  BY <1>2, <1>8, <1>10, <1>11, <1>12 DEF Tried, Finishes
<1> QED BY <1>1, <1>7, <1>8, <1>9, <1>12 DEF Begins

LEMMA InputStep ==
    ASSUME Good, InputInv, [Next]_vars
    PROVE  InputInv'
<1>0. TypeOK /\ \A i \in Invocations : (Begun(i) => InPhase(i)) /\ Taken(i)
  BY DEF Good, PhaseInv, InputInv, Taken
<1> SUFFICES ASSUME NEW i \in Invocations
             PROVE  Taken(i)'
  BY DEF InputInv, Taken
<1>1. ASSUME inv'[i] = inv[i]
      PROVE  Taken(i)'
  <2>1. Begun(i) => Mode(i)' = Mode(i)
    BY <1>1, ConfigStays DEF Mode, Cfg
  <2>2. Copied(i)'
    BY <1>0, <1>1, <2>1 DEF Taken, Copied, Read, Stdin, InTime, Begun
  <2>3. FedAll(i)' /\ KeptAll(i)'
    BY <1>0, <1>1 DEF Taken, FedAll, KeptAll, Saving, Stdin, InTime, Begun
  <2> QED BY <2>2, <2>3 DEF Taken
<1>2. CASE UNCHANGED vars
  BY <1>1, <1>2 DEF vars
<1>3. CASE \E r \in Runs : RunAction(r)
  BY <1>0, <1>1, <1>3, RunActionFacts
<1>4. ASSUME NEW r \in Runs, NEW m \in Invocations, NEW p \in Programs, Invoke(r, m, p)
      PROVE  Taken(i)'
  BY <1>0, <1>1, <1>4, InvokeFacts, InvokeTakes DEF Others
<1>5. ASSUME NEW m \in Invocations, CallAction(m)
      PROVE  Taken(i)'
  BY <1>0, <1>1, <1>5, CallActionFacts, CallTakes DEF Others
<1> QED BY <1>0, <1>2, <1>3, <1>4, <1>5, NextCases

LEMMA InputInit ==
    ASSUME Init
    PROVE  InputInv
BY DEF InputInv, Copied, FedAll, KeptAll, Init, Begun

\* A real command that waited for the end of its input has been given all of
\* it (RealGetsItsInput): also what was first read to look for a cassette.
THEOREM RealGetsAll == Spec => []RealGetsItsInput
<1>1. Init => Good /\ InputInv
  BY GoodInit, InputInit
<1>2. Good /\ InputInv /\ [Next]_vars => (Good /\ InputInv)'
  BY GoodStep, InputStep
<1>3. Good /\ InputInv => RealGetsItsInput
  BY DEF InputInv, FedAll, InTime, RealGetsItsInput
<1> QED BY <1>1, <1>2, <1>3, PTL DEF Spec

-----------------------------------------------------------------------------
(***************************************************************************)
(* A call that repeats a recording.                                        *)
(***************************************************************************)
LEMMA CallKeeps ==
    ASSUME Good, [Next]_vars, NEW i \in Invocations, Begun(i)
    PROVE  Begun(i)' /\ Keeps(inv[i], inv'[i])
<1>0. TypeOK /\ DOMAIN inv[i] = Fields
  BY BegunCall DEF Good
<1>1. ASSUME inv'[i] = inv[i]
      PROVE  Begun(i)' /\ Keeps(inv[i], inv'[i])
  BY <1>0, <1>1 DEF Begun, Keeps
<1>2. CASE UNCHANGED vars
  BY <1>1, <1>2 DEF vars
<1>3. CASE \E r \in Runs : RunAction(r)
  BY <1>0, <1>1, <1>3, RunActionFacts
<1>4. CASE \E r \in Runs, m \in Invocations, p \in Programs : Invoke(r, m, p)
  BY <1>0, <1>1, <1>4, InvokeFacts DEF Others
<1>5. CASE \E m \in Invocations : CallAction(m)
  BY <1>0, <1>1, <1>5, CallActionFacts DEF Others
<1> QED BY <1>0, <1>2, <1>3, <1>4, <1>5, NextCases

\* A call begins only by Invoke.
LEMMA BeginsByInvoke ==
    ASSUME Good, [Next]_vars, NEW i \in Invocations, ~Begun(i), Begun(i)'
    PROVE  \E r \in Runs, p \in Programs : Invoke(r, i, p)
<1>0. TypeOK /\ inv'[i] # inv[i]
  BY DEF Good, Begun
<1>1. CASE UNCHANGED vars
  BY <1>0, <1>1 DEF vars
<1>2. CASE \E r \in Runs : RunAction(r)
  BY <1>0, <1>2, RunActionFacts
<1>3. CASE \E r \in Runs, m \in Invocations, p \in Programs : Invoke(r, m, p)
  BY <1>0, <1>3, InvokeFacts DEF Others
<1>4. CASE \E m \in Invocations : CallAction(m)
  BY <1>0, <1>4, CallActionFacts DEF Others
<1> QED BY <1>0, <1>1, <1>2, <1>3, <1>4, NextCases

LEMMA ConfigStep ==
    ASSUME Good, ConfigInv, [Next]_vars
    PROVE  ConfigInv'
<1>0. TypeOK
  BY DEF Good
<1>1. ASSUME run' = run, plan' = plan
      PROVE  ConfigInv'
  BY <1>1 DEF ConfigInv, Configured, Opts
<1>2. CASE UNCHANGED vars
  BY <1>1, <1>2 DEF vars
<1>3. ASSUME NEW r \in Runs, RunAction(r)
      PROVE  ConfigInv'
  <2>1. plan' = plan /\ OtherRuns(r)
    BY <1>0, <1>3, RunActionFacts
  <2>2. ASSUME NEW q \in Runs, q # r, Configured(q)'
        PROVE  run'[q].cfg = Config(Opts(q), plan[q].goos)
    BY <2>1, <2>2 DEF OtherRuns, ConfigInv, Configured
  <2>3. ASSUME Configured(r)'
        PROVE  run'[r].cfg = Config(Opts(r), plan[r].goos)
    <3>1. CASE Configured(r)
      BY <1>0, <1>3, <3>1, RunActionFacts DEF ConfigInv
    <3>2. CASE Start(r)
      <4>1. \/ \E code : run' = [run EXCEPT ![r] = Ended(code)]
            \/ run' = [run EXCEPT ![r] = Running(r)]
        BY <3>2 DEF Start
      <4>2. DOMAIN run = Runs
        BY <1>0 DEF TypeOK
      <4>3. ASSUME NEW code, run' = [run EXCEPT ![r] = Ended(code)]
            PROVE  FALSE
        BY <2>3, <4>2, <4>3 DEF Configured, Ended
      <4>4. CASE run' = [run EXCEPT ![r] = Running(r)]
        BY <4>2, <4>4 DEF Running
      <4> QED BY <4>1, <4>3, <4>4
    <3>3. ~Start(r) => Configured(r)
      <4>1. ~Start(r) => run[r].at \in {"suite", "waited", "read", "removing"}
        BY <1>3 DEF RunAction, ReadCalls, Report, RemoveRunDir, SuiteExits
      <4> QED BY <1>0, <4>1, RunCall
    <3> QED BY <3>1, <3>2, <3>3
  <2> QED BY <2>1, <2>2, <2>3 DEF ConfigInv, Opts
<1>4. CASE \E r \in Runs, i \in Invocations, p \in Programs : Invoke(r, i, p)
  BY <1>0, <1>1, <1>4, InvokeFacts
<1>5. CASE \E i \in Invocations : CallAction(i)
  BY <1>0, <1>1, <1>5, CallActionFacts
<1> QED BY <1>0, <1>2, <1>3, <1>4, <1>5, NextCases

LEMMA NameStep ==
    ASSUME NamesAgree, Good, ConfigInv, NameInv, [Next]_vars
    PROVE  NameInv'
<1>0. TypeOK
  BY DEF Good
<1> SUFFICES ASSUME NEW i \in Invocations, Begun(i)', inv'[i].shim
             PROVE  inv'[i].name = CassetteName(inv'[i].prog.name)
  BY DEF NameInv
<1>1. CASE Begun(i)
  BY <1>1, CallKeeps DEF NameInv, Keeps
<1>2. CASE ~Begun(i)
  <2>1. PICK r \in Runs, p \in Programs : Invoke(r, i, p)
    BY <1>2, BeginsByInvoke
  <2>2. PICK b : Fresh(b, r, p) /\ Begins(i, r, b)
    BY <1>0, <2>1, InvokeStep
  <2>3. /\ inv'[i].name = b.name /\ inv'[i].prog = p /\ b.shim = inv'[i].shim
    BY <2>2 DEF Fresh, Begins, Tried, Finishes, Concludes, Launches, Keyed, Keeps
  <2>4. b.name = CassetteName(CommandOf(r, p)) /\ Installed(r, p)
    BY <2>2, <2>3 DEF Fresh
  <2>5. Configured(r) /\ plan \in Plans
    BY <1>0, <2>1, InvokeFacts DEF TypeOK
  <2>6. PICK goos, cfg, file : /\ goos = plan[r].goos
                               /\ cfg = Config(ToOpts(Merged(plan[r].inputs)), goos)
                               /\ file = ShimFileName(p.name, goos)
    OBVIOUS
  <2>7. Cfg(r) = cfg
    BY <2>5, <2>6 DEF ConfigInv, Opts, Cfg
  <2>8. /\ CommandOf(r, p) = CmdFor(cfg, file, goos)
        /\ \E f \in DOMAIN cfg.cmds :
              f = file \/ (goos = "windows" /\ ToLower(f) = ToLower(file))
    BY <2>4, <2>6, <2>7 DEF CommandOf, Installed, FileOf
  <2>9. CassetteName(CmdFor(cfg, file, goos)) = CassetteName(p.name)
    BY <2>5, <2>6, <2>8 DEF NamesAgree
  <2> QED BY <2>3, <2>4, <2>8, <2>9
<1> QED BY <1>1, <1>2

LEMMA AfterStep ==
    ASSUME Good, AfterInv, [Next]_vars
    PROVE  AfterInv'
<1>0. TypeOK
  BY DEF Good
<1>1. ASSUME NEW j \in Invocations, Begun(j), Over(j)
      PROVE  (Begun(j) /\ Over(j))'
  BY <1>1, OverStays DEF Begun, Over
<1> SUFFICES ASSUME NEW i \in Invocations, Begun(i)', NEW j \in inv'[i].after
             PROVE  j \in Invocations /\ (Begun(j) /\ Over(j))'
  BY DEF AfterInv
<1>2. CASE Begun(i)
  <2>1. j \in inv[i].after
    BY <1>2, CallKeeps DEF Keeps
  <2> QED BY <1>1, <1>2, <2>1 DEF AfterInv
<1>3. CASE ~Begun(i)
  <2>1. PICK r \in Runs, p \in Programs : Invoke(r, i, p)
    BY <1>3, BeginsByInvoke
  <2>2. PICK b : Fresh(b, r, p) /\ Begins(i, r, b)
    BY <1>0, <2>1, InvokeStep
  <2>3. inv'[i].after = b.after
    BY <2>2 DEF Begins, Tried, Finishes, Concludes, Launches, Keyed, Keeps
  <2>4. j \in Invocations /\ Over(j)
    BY <2>2, <2>3 DEF Fresh
  <2>5. Begun(j)
    BY <1>0, <2>4, BegunCall DEF Over
  <2> QED BY <1>1, <2>4, <2>5
<1> QED BY <1>2, <1>3

LEMMA RecordedCode ==
    ASSUME NEW j, NEW code \in Nat
    PROVE  ReplayedCode(Content(j, code, code # 0)) = code
<1>1. PICK err, f : err = (code # 0) /\ f = Content(j, code, err)
  OBVIOUS
<1>2. f.code = code /\ f.error = err
  BY <1>1 DEF Content
<1>3. code = 0 => ~err
  BY <1>1
<1>4. ~(f.code < 0)
  BY <1>2
<1>5. ~(f.code = 0 /\ f.error)
  BY <1>2, <1>3
<1>6. ReplayedCode(f) = code
  BY <1>2, <1>4, <1>5 DEF ReplayedCode
<1> QED BY <1>1, <1>6

\* What repeats a recording has repeated it since it began.
LEMMA RepeatedBefore ==
    ASSUME Good, Good', AfterInv, [Next]_vars, NEW i \in Invocations, NEW j \in Invocations,
           Begun(i), Repeats(i, j)'
    PROVE  Repeats(i, j) /\ inv'[j] = inv[j]
<1>0. TypeOK /\ TypeOK' /\ \A k \in Invocations : Begun(k) => InPhase(k)
  BY DEF Good, PhaseInv
<1>1. /\ Begun(j)' /\ inv'[j].outcome = "recorded" /\ j \in inv'[i].after /\ Alone(j)'
      /\ inv'[i].prog = inv'[j].prog /\ Steady(inv'[j].prog) /\ i # j
      /\ (Cfg(inv[i].run).cassettes = Cfg(inv[j].run).cassettes)'
      /\ Mode(i)' = "replay"
  BY DEF Repeats
<1>2. Keeps(inv[i], inv'[i])
  BY CallKeeps
<1>3. Begun(j) /\ Over(j)
  BY <1>1, <1>2 DEF Keeps, AfterInv
<1>4. inv'[j] = inv[j]
  BY <1>3, OverStays
<1>5. inv[j].key # {}
  BY <1>0, <1>1, <1>3, <1>4 DEF InPhase
<1>6. \A k \in Invocations \ {j} : Begun(k) =>
         Begun(k)' /\ (inv[k].key = {} \/ inv'[k].key = inv[k].key)
  <2> SUFFICES ASSUME NEW k \in Invocations, Begun(k)
               PROVE  Begun(k)' /\ (inv[k].key = {} \/ inv'[k].key = inv[k].key)
    OBVIOUS
  <2>1. Begun(k)'
    BY CallKeeps
  <2>2. CASE CallAction(k)
    BY <1>0, <2>1, <2>2, KeyMadeOnce
  <2>3. CASE inv'[k] = inv[k]
    BY <2>1, <2>3
  <2>4. CallAction(k) \/ inv'[k] = inv[k]
    <3>1. CASE UNCHANGED vars
      BY <3>1 DEF vars
    <3>2. CASE \E r \in Runs : RunAction(r)
      BY <1>0, <3>2, RunActionFacts
    <3>3. CASE \E r \in Runs, m \in Invocations, p \in Programs : Invoke(r, m, p)
      BY <1>0, <3>3, InvokeFacts DEF Others
    <3>4. CASE \E m \in Invocations : CallAction(m)
      BY <1>0, <3>4, CallActionFacts DEF Others
    <3> QED BY <1>0, <3>1, <3>2, <3>3, <3>4, NextCases
  <2> QED BY <2>2, <2>3, <2>4
<1>7. Alone(j)
  BY <1>1, <1>4, <1>5, <1>6, WasAlone
<1>8. /\ run'[inv[i].run].cfg = run[inv[i].run].cfg
      /\ run'[inv[j].run].cfg = run[inv[j].run].cfg
  BY <1>3, ConfigStays
<1> QED BY <1>1, <1>2, <1>3, <1>4, <1>7, <1>8 DEF Repeats, Mode, Cfg, Keeps

\* It finds the recording.
LEMMA LoadFinds ==
    ASSUME Good, SavedInv, InputInv, NameInv, NEW i \in Invocations, NEW j \in Invocations,
           Repeats(i, j), Load(i)
    PROVE  Concludes(inv[i], inv'[i], "replayed", inv[j].code)
<1>0. TypeOK /\ Begun(i) /\ Begun(j) /\ InPhase(i) /\ InPhase(j)
  BY DEF Good, PhaseInv, Repeats
<1>1. inv[i].at = "stdin" /\ (AtEnd(i) \/ TimesOut(i)) /\ Answers(i)
  BY <1>0, LoadStep
<1>2. /\ inv[j].outcome = "recorded" /\ Alone(j) /\ inv[i].prog = inv[j].prog
      /\ Steady(inv[i].prog) /\ Cfg(inv[i].run).cassettes = Cfg(inv[j].run).cassettes
  BY DEF Repeats
<1>3. inv[i].acc = Stdin(i).chunks
  <2>1. inv[i].taken \in 0 .. Len(Stdin(i).chunks) /\ Read(i, inv[i].acc)
    BY <1>0, <1>1 DEF InputInv, Copied
  <2>2. ~More(i)
    <3>1. CASE Stdin(i).chunks = << >>
      BY <2>1, <3>1 DEF More
    <3>2. CASE Stdin(i).chunks # << >>
      BY <1>1, <1>2, <3>2 DEF Steady, Stdin, AtEnd, TimesOut
    <3> QED BY <3>1, <3>2
  <2> QED BY <1>0, <2>1, <2>2, ReadAll
<1>4. inv[j].acc = Stdin(i).chunks
  BY <1>0, <1>2 DEF InputInv, KeptAll, Stdin
<1>5. inv[i].name = inv[j].name
  BY <1>0, <1>1, <1>2 DEF InPhase, NameInv
<1>6. KeyFor(inv[i]) = KeyFor(inv[j])
  BY <1>2, <1>3, <1>4, <1>5 DEF KeyFor
<1>7. PICK k, code, c : k = KeyFor(inv[j]) /\ code = inv[j].code
                        /\ c = Content(j, code, code # 0)
  OBVIOUS
<1>8. /\ ReadStreamFile(reqFiles, k) = Content(j, 0, FALSE)
      /\ ReadStreamFile(respFiles, k) = c
  BY <1>0, <1>2, <1>7 DEF SavedInv, Saved
<1>9. InResp(i) = c /\ InReq(i) = Content(j, 0, FALSE)
  BY <1>6, <1>7, <1>8 DEF InReq, InResp
<1>10. Whole(i)
  BY <1>7, <1>9 DEF Whole, Content
<1>11. ReplayedCode(InResp(i)) = code
  <2>1. code \in Nat
    BY <1>0, <1>2, <1>7 DEF InPhase
  <2> QED BY <1>7, <1>9, <2>1, RecordedCode
<1> QED BY <1>1, <1>7, <1>10, <1>11 DEF Answers

\* The other steps of a call in a replay.
LEMMA OtherwiseWaits ==
    ASSUME TypeOK, NEW i \in Invocations, InPhase(i), CallAction(i), ~Load(i),
           inv[i].at # "exec", Mode(i) = "replay", inv[i].outcome = "none"
    PROVE  inv'[i].at # "exec" /\ inv'[i].outcome = "none"
<1>1. ~Saving(i)
  BY DEF InPhase, Saving
<1>2. ReadStdin(i) \/ Log(i) \/ Kill(i)
  BY <1>1, PumpStep, RealExitsStep, SaveStep, SaveFailsStep
     DEF CallAction, WritesReq, WritesResp, Saving
<1> QED BY <1>2, ReadStdinStep, LogStep, KillStep DEF SameResult, Moves

LEMMA ServedStep ==
    ASSUME Good, Good', SavedInv, InputInv, NameInv, AfterInv, [Next]_vars,
           NEW i \in Invocations, NEW j \in Invocations, Served(i, j)
    PROVE  Served(i, j)'
<1>0. TypeOK
  BY DEF Good
<1> SUFFICES ASSUME Repeats(i, j)'
             PROVE  /\ inv'[i].at # "exec"
                    /\ inv'[i].outcome \notin {"none", "denied"} =>
                          inv'[i].outcome = "replayed" /\ inv'[i].code = inv'[j].code
  BY DEF Served
<1>1. CASE ~Begun(i)
  <2>1. PICK r \in Runs, p \in Programs : Invoke(r, i, p)
    BY <1>1, BeginsByInvoke DEF Repeats
  <2>2. PICK b : Fresh(b, r, p) /\ Begins(i, r, b)
    BY <1>0, <2>1, InvokeStep
  <2>3. run' = run /\ inv'[i].run = r
    BY <1>0, <2>1, InvokeFacts
  <2>4. Cfg(r).mode = "replay"
    BY <2>3 DEF Repeats, Mode, Cfg
  <2> QED BY <2>2, <2>4 DEF Begins, Fresh, Concludes
<1>2. CASE Begun(i)
  <2>1. Repeats(i, j) /\ inv'[j] = inv[j]
    BY <1>2, RepeatedBefore
  <2>2. /\ inv[i].at # "exec"
        /\ inv[i].outcome \notin {"none", "denied"} =>
              inv[i].outcome = "replayed" /\ inv[i].code = inv[j].code
    BY <2>1 DEF Served
  <2>3. InPhase(i) /\ Mode(i) = "replay"
    BY <1>2, <2>1 DEF Good, PhaseInv, Repeats
  <2>4. CASE inv'[i] = inv[i]
    BY <2>1, <2>2, <2>4
  <2>5. CASE inv[i].outcome # "none"
    <3>1. Settled(i)
      BY <1>2, <2>5, OutcomeStays
    <3>2. (Begun(i) /\ InPhase(i))'
      BY <3>1 DEF Settled, Good, PhaseInv
    <3>3. inv'[i].at # "exec"
      BY <2>5, <3>1, <3>2 DEF Settled, InPhase
    <3> QED BY <2>1, <2>2, <3>1, <3>3 DEF Settled
  <2>6. CASE Load(i)
    BY <2>1, <2>6, LoadFinds DEF Concludes
  <2>7. CASE CallAction(i) /\ ~Load(i) /\ inv[i].outcome = "none"
    BY <1>0, <2>2, <2>3, <2>7, OtherwiseWaits
  <2>8. CallAction(i) \/ inv'[i] = inv[i]
    <3>1. CASE UNCHANGED vars
      BY <3>1 DEF vars
    <3>2. CASE \E r \in Runs : RunAction(r)
      BY <1>0, <3>2, RunActionFacts
    <3>3. CASE \E r \in Runs, m \in Invocations, p \in Programs : Invoke(r, m, p)
      BY <1>0, <1>2, <3>3, InvokeFacts DEF Others
    <3>4. CASE \E m \in Invocations : CallAction(m)
      BY <1>0, <3>4, CallActionFacts DEF Others
    <3> QED BY <1>0, <3>1, <3>2, <3>3, <3>4, NextCases
  <2> QED BY <2>4, <2>5, <2>6, <2>7, <2>8
<1> QED BY <1>1, <1>2

\* Every call that repeats a recorded one is replayed with its exit code
\* (RecordedCallReplays), for any inputs and secrets, any mix of platforms
\* and any faults, provided that names agree across the configurations.
THEOREM RepeatReplays ==
    ASSUME NamesAgree
    PROVE  Spec => []RecordedCallReplays
<1> DEFINE IInv == Good /\ SavedInv /\ InputInv /\ RepeatInv
<1>1. Init => IInv
  <2> SUFFICES ASSUME Init
               PROVE  IInv
    OBVIOUS
  <2>1. SavedInv
    BY DEF SavedInv, Saved, Init, Begun
  <2>2. NameInv /\ AfterInv /\ \A i, j \in Invocations : Served(i, j)
    BY DEF NameInv, AfterInv, Served, Repeats, Init, Begun
  <2>3. ConfigInv
    BY DEF ConfigInv, Configured, Init, NotBegun
  <2> QED BY <2>1, <2>2, <2>3, GoodInit, InputInit DEF RepeatInv
<1>2. IInv /\ [Next]_vars => IInv'
  <2> SUFFICES ASSUME IInv, [Next]_vars
               PROVE  IInv'
    OBVIOUS
  <2>1. Good' /\ SavedInv' /\ InputInv'
    BY GoodStep, SavedStep, InputStep
  <2>2. ConfigInv' /\ NameInv' /\ AfterInv'
    BY NamesAgree, ConfigStep, NameStep, AfterStep DEF RepeatInv
  <2>3. \A i, j \in Invocations : Served(i, j)'
    BY <2>1, ServedStep DEF RepeatInv
  <2> QED BY <2>1, <2>2, <2>3 DEF RepeatInv
<1>3. IInv => RecordedCallReplays
  BY DEF RepeatInv, Served, Repeats, Mode, RecordedCallReplays
<1> QED BY <1>1, <1>2, <1>3, PTL DEF Spec

-----------------------------------------------------------------------------
(***************************************************************************)
(* Lists of settings.  A list is united with another, or gets the defaults *)
(* that are not in it, entry by entry.                                     *)
(***************************************************************************)
LEMMA AppendSet ==
    ASSUME NEW V, NEW q \in Seq(V), NEW v \in V
    PROVE  /\ Append(q, v) \in Seq(V)
           /\ ToSet(Append(q, v)) = ToSet(q) \cup {v}
           /\ ToSet(q) \subseteq V
<1>1. PICK a : a = Append(q, v)
  OBVIOUS
<1>2. /\ a \in Seq(V) /\ Len(q) \in Nat /\ DOMAIN q = 1 .. Len(q)
      /\ DOMAIN a = 1 .. Len(q) + 1 /\ a[Len(q) + 1] = v
      /\ \A i \in 1 .. Len(q) : a[i] = q[i] /\ q[i] \in V
  BY <1>1
<1>3. ASSUME NEW i \in DOMAIN a PROVE a[i] \in ToSet(q) \cup {v}
  BY <1>2 DEF ToSet
<1>4. ASSUME NEW i \in DOMAIN q PROVE q[i] \in ToSet(a)
  <2>1. i \in DOMAIN a /\ a[i] = q[i]
    BY <1>2
  <2> QED
    BY <2>1 DEF ToSet
<1>5. v \in ToSet(a)
  <2>1. Len(q) + 1 \in DOMAIN a
    BY <1>2
  <2> QED
    BY <1>2, <2>1 DEF ToSet
<1>6. ToSet(q) \subseteq V
  BY <1>2 DEF ToSet
<1>7. ToSet(a) \subseteq ToSet(q) \cup {v}
  BY <1>3, Zenon DEF ToSet
<1>8. ToSet(q) \subseteq ToSet(a)
  BY <1>4, Zenon DEF ToSet
<1> QED
  BY <1>1, <1>2, <1>5, <1>6, <1>7, <1>8

LEMMA OnceFacts ==
    ASSUME NEW V, NEW q \in Seq(V), NEW v \in V
    PROVE  Once(q, v) \in Seq(V) /\ ToSet(Once(q, v)) = ToSet(q) \cup {v}
<1>1. CASE Contains(q, v)
  <2>1. v \in ToSet(q)
    BY <1>1 DEF Contains, ToSet
  <2> QED
    BY <1>1, <2>1 DEF Once
<1>2. CASE ~Contains(q, v)
  BY <1>2, AppendSet DEF Once
<1> QED
  BY <1>1, <1>2

\* The loop of union.
IsUnion(f, both) ==
    f = [i \in 0 .. Len(both) |-> IF i = 0 THEN << >> ELSE Once(f[i - 1], both[i])]

LEMMA UnionExists ==
    ASSUME NEW V, NEW both \in Seq(V)
    PROVE  \E f : IsUnion(f, both)
<1>1. Len(both) \in Nat /\ \A i \in 1 .. Len(both) : both[i] \in V
  OBVIOUS
<1>2. PICK n : n = Len(both)
  OBVIOUS
<1> DEFINE s == [t \in Seq(V) \X (1 .. n) |-> Once(t[1], both[t[2]])]
<1>3. s \in [Seq(V) \X (1 .. n) -> Seq(V)]
  <2>1. ASSUME NEW t \in Seq(V) \X (1 .. n) PROVE Once(t[1], both[t[2]]) \in Seq(V)
    <3>1. t[1] \in Seq(V) /\ both[t[2]] \in V
      BY <1>1, <1>2
    <3> QED
      BY <3>1, OnceFacts
  <2> QED
    BY <2>1, Zenon
<1>4. << >> \in Seq(V)
  OBVIOUS
<1>5. ASSUME NEW q \in Seq(V), NEW i \in 1 .. n PROVE s[<<q, i>>] = Once(q, both[i])
  OBVIOUS
<1> HIDE DEF s
<1>6. PICK f \in [0 .. n -> Seq(V)] : Computes(f, n, << >>, s)
  BY <1>1, <1>2, <1>3, <1>4, Recursion
<1>7. ASSUME NEW i \in 0 .. n
      PROVE  f[i] = IF i = 0 THEN << >> ELSE Once(f[i - 1], both[i])
  <2>1. CASE i = 0
    BY <1>6, <2>1 DEF Computes
  <2>2. CASE i # 0
    <3>1. i \in 1 .. n /\ i - 1 \in 0 .. n
      BY <1>1, <1>2, <2>2
    <3>2. f[i - 1] \in Seq(V) /\ f[i] = s[<<f[i - 1], i>>]
      BY <1>6, <3>1 DEF Computes
    <3>3. f[i] = Once(f[i - 1], both[i])
      BY <1>5, <3>1, <3>2
    <3> QED
      BY <2>2, <3>3, Zenon
  <2> QED
    BY <2>1, <2>2
<1>8. f = [i \in 0 .. n |-> f[i]]
  OBVIOUS
<1>9. IsUnion(f, both)
  BY <1>2, <1>7, <1>8, Zenon DEF IsUnion
<1> QED
  BY <1>9

\* union has the entries of both lists.
LEMMA UnionFacts ==
    ASSUME NEW a, NEW b, a \in Seq(ToSet(a)), b \in Seq(ToSet(b))
    PROVE  /\ ToSet(UnionOf(a, b)) = ToSet(a) \cup ToSet(b)
           /\ UnionOf(a, b) \in Seq(ToSet(UnionOf(a, b)))
<1> DEFINE V == ToSet(a) \cup ToSet(b)
<1>1. PICK both, n : both = a \o b /\ n = Len(both)
  OBVIOUS
<1>2. a \in Seq(V) /\ b \in Seq(V)
  OBVIOUS
<1>3. PICK W : W = V
  OBVIOUS
<1> HIDE DEF V
<1>4. /\ both \in Seq(W) /\ n \in Nat /\ DOMAIN both = 1 .. n
      /\ \A i \in 1 .. n : both[i] \in W
  BY <1>1, <1>2, <1>3
<1>5. {both[i] : i \in 1 .. n} = W
  <2>1. ASSUME NEW v \in ToSet(a) PROVE \E i \in 1 .. n : both[i] = v
    <3>1. PICK i \in DOMAIN a : a[i] = v
      BY DEF ToSet
    <3>2. i \in 1 .. n /\ both[i] = a[i]
      BY <1>1, <1>2, <3>1
    <3> QED
      BY <3>1, <3>2
  <2>2. ASSUME NEW v \in ToSet(b) PROVE \E i \in 1 .. n : both[i] = v
    <3>1. PICK i \in DOMAIN b : b[i] = v
      BY DEF ToSet
    <3>2. Len(a) + i \in 1 .. n /\ both[Len(a) + i] = b[i]
      BY <1>1, <1>2, <3>1
    <3> QED
      BY <3>1, <3>2
  <2> QED
    BY <1>3, <1>4, <2>1, <2>2 DEF V
<1>6. PICK f : f = CHOOSE g : IsUnion(g, both)
  OBVIOUS
<1>7. IsUnion(f, both)
  BY <1>4, <1>6, UnionExists
<1>8. UnionOf(a, b) = f[n]
  BY <1>1, <1>6 DEF UnionOf, IsUnion
<1>9. f[0] = << >>
  <2>1. 0 \in 0 .. Len(both)
    BY <1>1, <1>4
  <2> QED
    BY <1>7, <2>1 DEF IsUnion
<1>10. ASSUME NEW i \in 1 .. n PROVE f[i] = Once(f[i - 1], both[i])
  <2>1. i \in 0 .. Len(both) /\ i # 0
    BY <1>1, <1>4
  <2> QED
    BY <1>7, <2>1 DEF IsUnion
<1> DEFINE S == {i \in Nat : f[i] \in Seq(W) /\ ToSet(f[i]) = {both[j] : j \in 1 .. i}}
<1>11. 0 \in S
  <2>1. << >> \in Seq(W) /\ ToSet(<< >>) = {} /\ {both[j] : j \in 1 .. 0} = {}
    BY DEF ToSet
  <2> QED
    BY <1>9, <2>1
<1>12. ASSUME NEW i \in 0 .. n - 1, i \in S PROVE i + 1 \in S
  <2>1. /\ i + 1 \in 1 .. n /\ (i + 1) - 1 = i /\ i + 1 \in Nat
        /\ 1 .. i + 1 = (1 .. i) \cup {i + 1}
    BY <1>4
  <2>2. f[i + 1] = Once(f[i], both[i + 1]) /\ both[i + 1] \in W
    BY <1>4, <1>10, <2>1
  <2>3. f[i] \in Seq(W) /\ ToSet(f[i]) = {both[j] : j \in 1 .. i}
    BY <1>12
  <2>4. f[i + 1] \in Seq(W) /\ ToSet(f[i + 1]) = ToSet(f[i]) \cup {both[i + 1]}
    BY <2>2, <2>3, OnceFacts
  <2>5. {both[j] : j \in 1 .. i + 1} = {both[j] : j \in 1 .. i} \cup {both[i + 1]}
    BY <2>1
  <2> QED
    BY <2>1, <2>3, <2>4, <2>5
<1>13. n \in S
  <2>1. S \in SUBSET Nat
    OBVIOUS
  <2> HIDE DEF S
  <2>2. \A j \in 0 .. n : j \in S
    BY <1>4, <1>11, <1>12, <2>1, InductionUpTo
  <2> QED
    BY <1>4, <2>2
<1>14. f[n] \in Seq(W) /\ ToSet(f[n]) = W
  BY <1>5, <1>13
<1> QED
  BY <1>3, <1>8, <1>14 DEF V

\* Membership by cassette name, and that it does not depend on the order.
LEMMA InNamesSet ==
    ASSUME NEW list, NEW n
    PROVE  InNames(list, n) <=> \E e \in ToSet(list) : CassetteName(e) = CassetteName(n)
BY DEF InNames, ToSet

LEMMA DefaultsAreList == defaultDeny \in Seq(ToSet(defaultDeny))
<1>1. ASSUME NEW s, NEW n \in Nat, NEW t, s = [i \in 1 .. n |-> t[i]]
      PROVE  s \in Seq(ToSet(s))
  <2>1. s \in [1 .. n -> ToSet(s)]
    BY <1>1 DEF ToSet
  <2> QED
    BY <2>1
<1> DEFINE plain == <<"open", "xdg-open", "wslview", "start", "sendmail", "mail",
                      "osascript", "say", "pbcopy", "notify-send">>
           exe == <<"explorer", "rundll32", "mshta", "clip", "msg", "wscript", "cscript">>
<1>2. DOMAIN plain = 1 .. 10 /\ DOMAIN exe = 1 .. 7
  OBVIOUS
<1>3. PICK p, e : /\ p = [i \in DOMAIN plain |-> Name(plain[i], << >>)]
                  /\ e = [i \in DOMAIN exe |-> Name(exe[i], <<".exe">>)]
  OBVIOUS
<1>4. defaultDeny = p \o e
  BY <1>3 DEF defaultDeny
<1> HIDE DEF plain, exe
<1>5. p = [i \in 1 .. 10 |-> p[i]] /\ e = [i \in 1 .. 7 |-> e[i]]
  BY <1>2, <1>3
<1>6. p \in Seq(ToSet(p)) /\ e \in Seq(ToSet(e))
  BY <1>1, <1>5
<1>7. PICK V : V = ToSet(p) \cup ToSet(e)
  OBVIOUS
<1>8. p \in Seq(V) /\ e \in Seq(V)
  BY <1>6, <1>7
<1>9. PICK d, n : d = p \o e /\ n = Len(d)
  OBVIOUS
<1>10. d \in Seq(V) /\ n \in Nat /\ d = [i \in 1 .. n |-> d[i]]
  <2>1. d \in Seq(V)
    BY <1>8, <1>9
  <2>2. \A q \in Seq(V) : Len(q) \in Nat /\ q = [i \in 1 .. Len(q) |-> q[i]]
    OBVIOUS
  <2> QED
    BY <1>9, <2>1, <2>2
<1>11. d \in Seq(ToSet(d))
  BY ONLY <1>1, <1>10
<1> QED
  BY ONLY <1>4, <1>9, <1>11

LEMMA WithDefaultFacts ==
    ASSUME NEW V, NEW deny \in Seq(V), NEW d \in V, NEW shim
    PROVE  /\ WithDefault(shim, deny, d) \in Seq(V)
           /\ ToSet(deny) \subseteq ToSet(WithDefault(shim, deny, d))
           /\ InNames(shim, d) \/ InNames(WithDefault(shim, deny, d), d)
<1>1. CASE InNames(shim, d) \/ InNames(deny, d)
  BY <1>1 DEF WithDefault
<1>2. CASE ~(InNames(shim, d) \/ InNames(deny, d))
  <2>1. PICK a : a = WithDefault(shim, deny, d)
    OBVIOUS
  <2>2. a = Append(deny, d)
    BY <1>2, <2>1 DEF WithDefault
  <2>3. a \in Seq(V) /\ ToSet(a) = ToSet(deny) \cup {d}
    BY <2>2, AppendSet
  <2>4. InNames(a, d)
    BY <2>3, InNamesSet
  <2> QED
    BY <2>1, <2>3, <2>4
<1> QED
  BY <1>1, <1>2

\* The loop of resolve over the default deny list.
IsDenying(f, shim, deny) ==
    f = [i \in 0 .. Len(defaultDeny) |->
            IF i = 0 THEN deny ELSE WithDefault(shim, f[i - 1], defaultDeny[i])]

LEMMA DenyingExists ==
    ASSUME NEW V, NEW deny \in Seq(V), defaultDeny \in Seq(V), NEW shim
    PROVE  \E f : IsDenying(f, shim, deny)
<1>1. PICK all, n : all = defaultDeny /\ n = Len(all)
  OBVIOUS
<1>2. n \in Nat /\ \A i \in 1 .. n : all[i] \in V
  BY <1>1
<1> DEFINE s == [t \in Seq(V) \X (1 .. n) |-> WithDefault(shim, t[1], all[t[2]])]
<1>3. s \in [Seq(V) \X (1 .. n) -> Seq(V)]
  <2>1. ASSUME NEW t \in Seq(V) \X (1 .. n)
        PROVE  WithDefault(shim, t[1], all[t[2]]) \in Seq(V)
    <3>1. t[1] \in Seq(V) /\ all[t[2]] \in V
      BY <1>2
    <3> QED
      BY <3>1, WithDefaultFacts
  <2> QED
    BY <2>1, Zenon
<1>4. ASSUME NEW q \in Seq(V), NEW i \in 1 .. n
      PROVE  s[<<q, i>>] = WithDefault(shim, q, all[i])
  OBVIOUS
<1> HIDE DEF s
<1>5. PICK f \in [0 .. n -> Seq(V)] : Computes(f, n, deny, s)
  BY <1>2, <1>3, Recursion
<1>6. ASSUME NEW i \in 0 .. n
      PROVE  f[i] = IF i = 0 THEN deny ELSE WithDefault(shim, f[i - 1], all[i])
  <2>1. CASE i = 0
    BY <1>5, <2>1 DEF Computes
  <2>2. CASE i # 0
    <3>1. i \in 1 .. n /\ i - 1 \in 0 .. n
      BY <1>2, <2>2
    <3>2. f[i - 1] \in Seq(V) /\ f[i] = s[<<f[i - 1], i>>]
      BY <1>5, <3>1 DEF Computes
    <3>3. f[i] = WithDefault(shim, f[i - 1], all[i])
      BY <1>4, <3>1, <3>2
    <3> QED
      BY <2>2, <3>3, Zenon
  <2> QED
    BY <2>1, <2>2
<1>7. f = [i \in 0 .. n |-> f[i]]
  OBVIOUS
<1>8. IsDenying(f, shim, deny)
  BY <1>1, <1>6, <1>7, Zenon DEF IsDenying
<1> QED
  BY <1>8

\* What is denied by a list stays denied, and unless they are switched off a
\* default is shimmed or denied.
LEMMA DeniedFacts ==
    ASSUME NEW o, o.deny \in Seq(ToSet(o.deny))
    PROVE  /\ ToSet(o.deny) \subseteq ToSet(Denied(o))
           /\ ~o.noDefaultDeny =>
                 \A d \in ToSet(defaultDeny) : InNames(o.shim, d) \/ InNames(Denied(o), d)
<1>1. CASE o.noDefaultDeny
  BY <1>1 DEF Denied
<1>2. CASE ~o.noDefaultDeny
  <2>1. PICK V, all, n, shim, deny :
           /\ V = ToSet(o.deny) \cup ToSet(defaultDeny)
           /\ all = defaultDeny /\ n = Len(all) /\ shim = o.shim /\ deny = o.deny
    OBVIOUS
  <2>2. deny \in Seq(V) /\ all \in Seq(V)
    BY <2>1, DefaultsAreList
  <2>3. n \in Nat /\ DOMAIN all = 1 .. n /\ \A i \in 1 .. n : all[i] \in V
    BY <2>1, <2>2
  <2>4. PICK f : f = CHOOSE g : IsDenying(g, shim, deny)
    OBVIOUS
  <2>5. IsDenying(f, shim, deny)
    BY <2>1, <2>2, <2>4, DenyingExists
  <2>6. Denied(o) = f[n]
    BY <1>2, <2>1, <2>4 DEF Denied, IsDenying
  <2>7. f[0] = deny
    <3>1. 0 \in 0 .. Len(defaultDeny)
      BY <2>1, <2>3
    <3> QED
      BY <2>5, <3>1 DEF IsDenying
  <2>8. ASSUME NEW i \in 1 .. n PROVE f[i] = WithDefault(shim, f[i - 1], all[i])
    <3>1. i \in 0 .. Len(defaultDeny) /\ i # 0
      BY <2>1, <2>3
    <3> QED
      BY <2>1, <2>5, <3>1 DEF IsDenying
  <2> DEFINE Has(q, i) == \A j \in 1 .. i : InNames(shim, all[j]) \/ InNames(q, all[j])
             S == {i \in Nat : f[i] \in Seq(V) /\ ToSet(deny) \subseteq ToSet(f[i]) /\ Has(f[i], i)}
  <2>9. 0 \in S
    BY <2>2, <2>7
  <2>10. ASSUME NEW i \in 0 .. n - 1, i \in S PROVE i + 1 \in S
    <3>1. /\ i + 1 \in 1 .. n /\ (i + 1) - 1 = i /\ i + 1 \in Nat
          /\ 1 .. i + 1 = (1 .. i) \cup {i + 1}
      BY <2>3
    <3>2. PICK q, p : q = f[i] /\ p = f[i + 1]
      OBVIOUS
    <3>3. p = WithDefault(shim, q, all[i + 1]) /\ all[i + 1] \in V
      BY <2>3, <2>8, <3>1, <3>2
    <3>4. q \in Seq(V) /\ ToSet(deny) \subseteq ToSet(q) /\ Has(q, i)
      BY <2>10, <3>2
    <3>5. /\ p \in Seq(V) /\ ToSet(q) \subseteq ToSet(p)
          /\ InNames(shim, all[i + 1]) \/ InNames(p, all[i + 1])
      BY <3>3, <3>4, WithDefaultFacts
    <3>6. \A m : InNames(q, m) => InNames(p, m)
      BY <3>5, InNamesSet
    <3>7. Has(p, i + 1)
      BY <3>1, <3>4, <3>5, <3>6
    <3> QED
      BY <3>1, <3>2, <3>4, <3>5, <3>7
  <2>11. n \in S
    <3>1. S \in SUBSET Nat
      OBVIOUS
    <3> HIDE DEF S
    <3>2. \A j \in 0 .. n : j \in S
      BY <2>3, <2>9, <2>10, <3>1, InductionUpTo
    <3> QED
      BY <2>3, <3>2
  <2>12. ToSet(deny) \subseteq ToSet(f[n]) /\ Has(f[n], n)
    BY <2>11
  <2>13. ASSUME NEW d \in ToSet(defaultDeny)
         PROVE  InNames(shim, d) \/ InNames(f[n], d)
    <3>1. PICK j \in 1 .. n : d = all[j]
      BY <2>1, <2>3 DEF ToSet
    <3> QED
      BY <2>12, <3>1
  <2> QED
    BY <2>1, <2>6, <2>12, <2>13
<1> QED
  BY <1>1, <1>2

-----------------------------------------------------------------------------
(***************************************************************************)
(* The layers.                                                             *)
(***************************************************************************)
Higher(lo, hi) == IF hi # {} THEN hi ELSE lo

LEMMA MergeFacts ==
    ASSUME NEW lo, NEW hi, IsSettings(lo), IsSettings(hi)
    PROVE  /\ IsSettings(MergeSettings(lo, hi))
           /\ \A k \in Lists :
                 ToSet(MergeSettings(lo, hi)[k]) = ToSet(lo[k]) \cup ToSet(hi[k])
           /\ \A k \in Scalars : MergeSettings(lo, hi)[k] = Higher(lo[k], hi[k])
<1>1. PICK m : m = MergeSettings(lo, hi)
  OBVIOUS
<1>2. DOMAIN lo = Scalars \cup Lists
  BY DEF IsSettings
<1>3. DOMAIN m = Scalars \cup Lists
  BY <1>1, <1>2 DEF MergeSettings
<1>4. ASSUME NEW k \in Lists
      PROVE  /\ m[k] \in Seq(ToSet(m[k]))
             /\ ToSet(m[k]) = ToSet(lo[k]) \cup ToSet(hi[k])
  <2>1. m[k] = UnionOf(lo[k], hi[k])
    BY <1>1, <1>2 DEF MergeSettings
  <2>2. lo[k] \in Seq(ToSet(lo[k])) /\ hi[k] \in Seq(ToSet(hi[k]))
    BY DEF IsSettings
  <2> QED
    BY <2>1, <2>2, UnionFacts
<1>5. ASSUME NEW k \in Scalars PROVE m[k] = Higher(lo[k], hi[k])
  <2>1. k \notin Lists
    BY DEF Scalars, Lists, Commands
  <2> QED
    BY <1>1, <1>2, <2>1 DEF MergeSettings, Higher
<1> QED
  BY <1>1, <1>3, <1>4, <1>5 DEF IsSettings

\* The settings of a plan.
InputsOf(runs, r) == runs[r].inputs

LEMMA LayersAreSettings ==
    ASSUME NEW runs \in Plans, NEW r \in Runs, NEW in, in = InputsOf(runs, r)
    PROVE  /\ IsSettings(in.user.settings) /\ IsSettings(in.project.settings)
           /\ IsSettings(in.env.settings) /\ IsSettings(in.flags)
<1>1. r \in DOMAIN runs
  BY RunAssumption DEF Runs
<1>2. PICK layers : layers = LayersOf(runs[r].inputs)
  OBVIOUS
<1>3. \A n \in DOMAIN layers : IsSettings(layers[n])
  BY <1>1, <1>2, RunAssumption
<1>4. layers = <<in.user.settings, in.project.settings, in.env.settings, in.flags>>
  BY <1>2 DEF LayersOf, InputsOf
<1>5. 1 \in DOMAIN layers /\ 2 \in DOMAIN layers /\ 3 \in DOMAIN layers /\ 4 \in DOMAIN layers
  BY <1>4
<1> QED
  BY <1>3, <1>4, <1>5

\* What loadLayers makes of four layers.
LEMMA MergedFacts ==
    ASSUME NEW runs \in Plans, NEW r \in Runs, NEW in, in = InputsOf(runs, r)
    PROVE  /\ IsSettings(Merged(in))
           /\ \A k \in Lists :
                 ToSet(Merged(in)[k]) =
                     ToSet(in.user.settings[k]) \cup ToSet(in.project.settings[k])
                     \cup ToSet(in.env.settings[k]) \cup ToSet(in.flags[k])
           /\ \A k \in Scalars :
                 Merged(in)[k] =
                     Higher(Higher(Higher(in.user.settings[k], in.project.settings[k]),
                                   in.env.settings[k]), in.flags[k])
<1>1. PICK u, p, e, f : /\ u = in.user.settings /\ p = in.project.settings
                        /\ e = in.env.settings /\ f = in.flags
  OBVIOUS
<1>2. IsSettings(u) /\ IsSettings(p) /\ IsSettings(e) /\ IsSettings(f)
  BY <1>1, LayersAreSettings
<1>3. PICK m1, m2, m3 : /\ m1 = MergeSettings(u, p) /\ m2 = MergeSettings(m1, e)
                        /\ m3 = MergeSettings(m2, f)
  OBVIOUS
<1>4. /\ IsSettings(m1)
      /\ \A k \in Lists : ToSet(m1[k]) = ToSet(u[k]) \cup ToSet(p[k])
      /\ \A k \in Scalars : m1[k] = Higher(u[k], p[k])
  BY <1>2, <1>3, MergeFacts
<1>5. /\ IsSettings(m2)
      /\ \A k \in Lists : ToSet(m2[k]) = ToSet(m1[k]) \cup ToSet(e[k])
      /\ \A k \in Scalars : m2[k] = Higher(m1[k], e[k])
  BY <1>2, <1>3, <1>4, MergeFacts
<1>6. /\ IsSettings(m3)
      /\ \A k \in Lists : ToSet(m3[k]) = ToSet(m2[k]) \cup ToSet(f[k])
      /\ \A k \in Scalars : m3[k] = Higher(m2[k], f[k])
  BY <1>2, <1>3, <1>5, MergeFacts
<1>7. Merged(in) = m3
  BY <1>1, <1>3 DEF Merged
<1>8. \A k \in Lists : ToSet(m3[k]) = ToSet(u[k]) \cup ToSet(p[k]) \cup ToSet(e[k]) \cup ToSet(f[k])
  BY <1>4, <1>5, <1>6
<1>9. \A k \in Scalars : m3[k] = Higher(Higher(Higher(u[k], p[k]), e[k]), f[k])
  BY <1>4, <1>5, <1>6
<1> QED
  BY <1>1, <1>6, <1>7, <1>8, <1>9

\* The lists of all layers, and the highest value of a scalar, are what the
\* merged settings have.
LEMMA ListedIsMerged ==
    ASSUME TypeOK, NEW r \in Runs, NEW k \in Lists
    PROVE  Listed(r, k) = ToSet(Merged(plan[r].inputs)[k])
<1>1. PICK in : in = InputsOf(plan, r)
  OBVIOUS
<1>2. plan \in Plans
  BY DEF TypeOK
<1>3. ToSet(Merged(in)[k]) =
         ToSet(in.user.settings[k]) \cup ToSet(in.project.settings[k])
         \cup ToSet(in.env.settings[k]) \cup ToSet(in.flags[k])
  BY <1>1, <1>2, MergedFacts
<1>4. PICK u, p, e, f, layers :
         /\ u = in.user.settings /\ p = in.project.settings
         /\ e = in.env.settings /\ f = in.flags /\ layers = <<u, p, e, f>>
  OBVIOUS
<1>5. Layers(r) = layers
  BY <1>1, <1>4 DEF Layers, LayersOf, InputsOf
<1>6. DOMAIN layers = {1, 2, 3, 4}
  BY <1>4
<1>7. layers[1] = u /\ layers[2] = p /\ layers[3] = e /\ layers[4] = f
  BY <1>4
<1>8. Listed(r, k) = UNION {ToSet(layers[n][k]) : n \in {1, 2, 3, 4}}
  BY <1>5, <1>6 DEF Listed
<1>9. UNION {ToSet(layers[n][k]) : n \in {1, 2, 3, 4}} =
         ToSet(u[k]) \cup ToSet(p[k]) \cup ToSet(e[k]) \cup ToSet(f[k])
  BY <1>7
<1> QED
  BY <1>1, <1>3, <1>4, <1>8, <1>9 DEF InputsOf

LEMMA EffectiveIsMerged ==
    ASSUME TypeOK, NEW r \in Runs, NEW k \in Scalars, NEW default
    PROVE  Effective(r, k, default) = OrDefault(Merged(plan[r].inputs)[k], default)
<1>1. PICK in : in = InputsOf(plan, r)
  OBVIOUS
<1>2. plan \in Plans
  BY DEF TypeOK
<1>3. PICK layers, a, b, c, d :
         /\ layers = Layers(r)
         /\ a = in.user.settings[k] /\ b = in.project.settings[k]
         /\ c = in.env.settings[k] /\ d = in.flags[k]
  OBVIOUS
<1>4. Merged(in)[k] = Higher(Higher(Higher(a, b), c), d)
  BY <1>1, <1>2, <1>3, MergedFacts
<1>5. layers = <<in.user.settings, in.project.settings, in.env.settings, in.flags>>
  BY <1>1, <1>3 DEF Layers, LayersOf, InputsOf
<1>6. /\ DOMAIN layers = {1, 2, 3, 4}
      /\ layers[1][k] = a /\ layers[2][k] = b /\ layers[3][k] = c /\ layers[4][k] = d
  BY <1>3, <1>5
<1>7. PICK set : set = {n \in {1, 2, 3, 4} : layers[n][k] # {}}
  OBVIOUS
<1>8. PICK highest : highest = CHOOSE n \in set : \A m \in set : m <= n
  OBVIOUS
<1>9. Effective(r, k, default) =
         IF set = {} THEN default ELSE CHOOSE v \in layers[highest][k] : TRUE
  BY <1>3, <1>6, <1>7, <1>8 DEF Effective
<1>10. CASE set = {}
  <2>1. a = {} /\ b = {} /\ c = {} /\ d = {}
    BY <1>6, <1>7, <1>10
  <2>2. Merged(in)[k] = {}
    BY <1>4, <2>1 DEF Higher
  <2> QED
    BY <1>1, <1>9, <1>10, <2>2 DEF OrDefault, InputsOf
<1>11. CASE set # {}
  <2>1. \E n \in set : \A m \in set : m <= n
    <3>1. CASE 4 \in set
      BY <1>7, <3>1
    <3>2. CASE 4 \notin set /\ 3 \in set
      BY <1>7, <3>2
    <3>3. CASE 4 \notin set /\ 3 \notin set /\ 2 \in set
      BY <1>7, <3>3
    <3>4. CASE 4 \notin set /\ 3 \notin set /\ 2 \notin set
      BY <1>7, <1>11, <3>4
    <3> QED
      BY <3>1, <3>2, <3>3, <3>4
  <2>2. highest \in set /\ \A m \in set : m <= highest
    BY <1>8, <2>1
  <2>3. highest \in {1, 2, 3, 4} /\ layers[highest][k] # {}
    BY <1>7, <2>2
  <2>4. /\ highest = 1 => b = {} /\ c = {} /\ d = {}
        /\ highest = 2 => c = {} /\ d = {}
        /\ highest = 3 => d = {}
    BY <1>6, <1>7, <2>2
  <2>5. Merged(in)[k] = layers[highest][k]
    BY <1>4, <1>6, <2>3, <2>4 DEF Higher
  <2> QED
    BY <1>1, <1>9, <1>11, <2>3, <2>5 DEF OrDefault, InputsOf
<1> QED
  BY <1>10, <1>11

-----------------------------------------------------------------------------
(***************************************************************************)
(* Real commands run only if they may.                                     *)
(***************************************************************************)

NameSet(B, E) == [base : B, exts : Seq(E), caps : BOOLEAN]

LEMMA LowerFacts ==
    ASSUME NEW B, NEW E, NEW n \in NameSet(B, E)
    PROVE  /\ ToLower(n) \in NameSet(B, E)
           /\ ToLower(n).base = n.base /\ ToLower(n).exts = n.exts
           /\ ToLower(n).caps = FALSE
           /\ n.caps = FALSE => ToLower(n) = n
BY DEF ToLower, NameSet

\* Of a name with one extension or none, cassetteName is taken once.
LEMMA CassetteNameTwice ==
    ASSUME NEW B, NEW E, NEW n \in NameSet(B, E), Len(n.exts) < 2
    PROVE  CassetteName(CassetteName(n)) = CassetteName(n)
<1>1. PICK low : low = ToLower(n)
  OBVIOUS
<1>2. /\ low \in NameSet(B, E)
      /\ low.exts = n.exts /\ low.base = n.base /\ low.caps = FALSE
  <2>1. /\ ToLower(n) \in NameSet(B, E)
        /\ ToLower(n).exts = n.exts /\ ToLower(n).base = n.base
        /\ ToLower(n).caps = FALSE
    BY ONLY n \in NameSet(B, E) DEF ToLower, NameSet
  <2> QED
    BY ONLY <1>1, <2>1
<1>3. ToLower(low) = low
  BY <1>2, LowerFacts
<1> DEFINE Drops == /\ n.exts # << >> /\ Last(n.exts) \in exeExts
                    /\ n.base # "" \/ Len(n.exts) > 1
<1>4. CASE ~Drops
  <2>1. CassetteName(n) = low
    BY <1>1, <1>4, Zenon DEF CassetteName
  <2>2. ~(/\ low.exts # << >> /\ Last(low.exts) \in exeExts
          /\ low.base # "" \/ Len(low.exts) > 1)
    BY <1>2, <1>4
  <2>3. CassetteName(low) = low
    BY <1>3, <2>2, Zenon DEF CassetteName
  <2> QED
    BY <2>1, <2>3
<1>5. CASE Drops
  <2>1. n.exts # << >> /\ CassetteName(n) = [low EXCEPT !.exts = Front(low.exts)]
    BY <1>1, <1>5 DEF CassetteName
  <2>2. n.exts \in Seq(E) /\ Len(n.exts) = 1
    <3>1. PICK s : s = n.exts
      OBVIOUS
    <3>2. s \in Seq(E)
      BY <3>1 DEF NameSet
    <3>3. s # << >> /\ Len(s) < 2
      BY <2>1, <3>1
    <3>4. \A q \in Seq(E) : Len(q) = 0 => q = << >>
      OBVIOUS
    <3>5. Len(s) # 0
      BY <3>2, <3>3, <3>4, Zenon
    <3>6. PICK k : k = Len(s)
      OBVIOUS
    <3>7. k \in Nat
      BY <3>2, <3>6
    <3>8. k = 1
      BY <3>3, <3>5, <3>6, <3>7
    <3> QED
      BY <3>1, <3>2, <3>6, <3>8
  <2>3. Front(low.exts) = << >>
    <3>1. PICK s : s = low.exts
      OBVIOUS
    <3>2. s \in Seq(E) /\ Len(s) = 1
      BY <1>2, <2>2, <3>1
    <3>3. Front(s) = SubSeq(s, 1, 0)
      BY <3>2 DEF Front
    <3>4. SubSeq(s, 1, 0) = << >>
      BY <3>2
    <3> QED
      BY <3>1, <3>3, <3>4
  <2>4. PICK m : m = CassetteName(n)
    OBVIOUS
  <2>5. m = [low EXCEPT !.exts = << >>]
    BY <2>1, <2>3, <2>4
  <2>6. m \in NameSet(B, E) /\ m.exts = << >> /\ m.caps = FALSE
    <3>1. PICK none, Q : none = << >> /\ Q = Seq(E)
      OBVIOUS
    <3>2. none \in Q
      BY <3>1
    <3>3. low \in [base : B, exts : Q, caps : BOOLEAN] /\ m = [low EXCEPT !.exts = none]
      BY <1>2, <2>5, <3>1 DEF NameSet
    <3>4. /\ m \in [base : B, exts : Q, caps : BOOLEAN]
          /\ m.exts = none /\ m.caps = low.caps
      BY <3>2, <3>3
    <3> QED
      BY <1>2, <3>1, <3>4 DEF NameSet
  <2>7. CassetteName(m) = ToLower(m)
    BY <2>6 DEF CassetteName
  <2>8. ToLower(m) = m
    BY <2>6, LowerFacts
  <2> QED
    BY <2>4, <2>7, <2>8
<1> QED
  BY <1>4, <1>5

\* What a layer denies, or the default set, is on the deny list of the shims.
LEMMA DeniedIsListed ==
    ASSUME TypeOK, NEW r \in Runs, NEW p, IsDenied(r, p)
    PROVE  InNames(Denied(Opts(r)), p.name)
<1>1. PICK s, o : s = Merged(plan[r].inputs) /\ o = ToOpts(s)
  OBVIOUS
<1>2. Opts(r) = o
  BY <1>1 DEF Opts
<1>3. "deny" \in Lists /\ "shim" \in Lists /\ "no_default_deny" \in Scalars
  BY DEF Lists, Commands, Scalars
<1>4. o.deny = s["deny"] /\ o.shim = s["shim"]
      /\ o.noDefaultDeny = OrDefault(s["no_default_deny"], FALSE)
  BY <1>1 DEF ToOpts
<1>5. /\ Listed(r, "deny") = ToSet(o.deny) /\ Listed(r, "shim") = ToSet(o.shim)
      /\ Effective(r, "no_default_deny", FALSE) = o.noDefaultDeny
  BY <1>1, <1>3, <1>4, ListedIsMerged, EffectiveIsMerged
<1>6. o.deny \in Seq(ToSet(o.deny))
  <2>1. plan \in Plans
    BY DEF TypeOK
  <2>2. IsSettings(s)
    BY <1>1, <2>1, MergedFacts DEF InputsOf
  <2> QED
    BY <1>3, <1>4, <2>2 DEF IsSettings
<1>7. PICK list : list = Denied(o)
  OBVIOUS
<1>8. /\ ToSet(o.deny) \subseteq ToSet(list)
      /\ ~o.noDefaultDeny =>
            \A d \in ToSet(defaultDeny) : InNames(o.shim, d) \/ InNames(list, d)
  BY <1>6, <1>7, DeniedFacts
<1>9. CASE Same(Listed(r, "deny"), p)
  <2>1. PICK n \in ToSet(o.deny) : CassetteName(n) = CassetteName(p.name)
    BY <1>5, <1>9 DEF Same
  <2>2. n \in ToSet(list)
    BY <1>8
  <2>3. InNames(list, p.name)
    BY <2>1, <2>2, InNamesSet
  <2> QED
    BY <1>2, <1>7, <2>3
<1>10. CASE /\ ~Effective(r, "no_default_deny", FALSE)
            /\ ~Same(Listed(r, "shim"), p)
            /\ Same(ToSet(defaultDeny), p)
  <2>1. PICK d \in ToSet(defaultDeny) : CassetteName(d) = CassetteName(p.name)
    BY <1>10 DEF Same
  <2>2. InNames(o.shim, d) \/ InNames(list, d)
    BY <1>5, <1>8, <1>10
  <2>3. ~InNames(o.shim, d)
    BY <1>5, <1>10, <2>1, InNamesSet DEF Same
  <2>4. InNames(list, p.name)
    BY <2>1, <2>2, <2>3 DEF InNames
  <2> QED
    BY <1>2, <1>7, <2>4
<1> QED
  BY <1>9, <1>10 DEF IsDenied

\* A replay that is strict does not run the command.
LEMMA StrictConcludes ==
    ASSUME TypeOK, NEW i \in Invocations, Load(i), Cfg(inv[i].run).strict
    PROVE  inv'[i].ran = inv[i].ran
<1>1. Begun(i)
  BY BegunCall DEF Load
<1>2. \E outcome, code : Conclude(i, outcome, code)
  BY DEF Load, Miss
<1>3. PICK outcome, code : Conclude(i, outcome, code)
  BY <1>2
<1> QED
  BY <1>1, <1>3, ConcludeFacts DEF Concludes, SameInput

\* A call that has begun runs later only by Load, in a replay that is not
\* strict, and does not go back to reading its input.
LEMMA RunsByLoad ==
    ASSUME Good, NEW i \in Invocations, CallAction(i)
    PROVE  /\ inv'[i].at = "stdin" => inv[i].at = "stdin"
           /\ inv'[i].ran = inv[i].ran \/
              (inv[i].at = "stdin" /\ ~Cfg(inv[i].run).strict)
<1>0. TypeOK
  BY DEF Good
<1>1. CASE ReadStdin(i)
  BY <1>0, <1>1, ReadStdinStep
<1>2. CASE Load(i)
  <2>1. inv[i].at = "stdin"
    BY <1>0, <1>2, LoadStep
  <2>2. CASE Cfg(inv[i].run).strict
    BY <1>0, <1>2, <2>1, <2>2, StrictConcludes
  <2> QED
    BY <2>1, <2>2
<1>3. CASE Pump(i)
  BY <1>0, <1>3, PumpStep
<1>4. CASE \E code \in Nat : RealExits(i, code)
  BY <1>0, <1>4, RealExitsStep DEF Finishes, Concludes, Keyed, SameInput
<1>5. CASE Save(i)
  BY <1>0, <1>5, SaveStep DEF WritesReq, WritesResp, Moves, Concludes, SameInput
<1>6. CASE Log(i)
  BY <1>0, <1>6, LogStep DEF Moves, SameInput
<1>7. CASE SaveFails(i)
  BY <1>0, <1>7, SaveFailsStep DEF Concludes, SameInput
<1>8. CASE Kill(i)
  BY <1>0, <1>8, KillStep DEF Moves, SameInput
<1> QED
  BY <1>1, <1>2, <1>3, <1>4, <1>5, <1>6, <1>7, <1>8 DEF CallAction

\* Nothing that a shim's permission rests on changes under it.
LEMMA StillAllowed ==
    ASSUME Good, [Next]_vars, NEW i \in Invocations, Begun(i), Allowed(i),
           inv'[i].at = "stdin" => inv[i].at = "stdin",
           inv'[i].ran = inv[i].ran \/ (inv[i].at = "stdin" /\ ~Cfg(inv[i].run).strict)
    PROVE  Allowed(i)'
<1>1. Keeps(inv[i], inv'[i]) /\ Cfg(inv[i].run)' = Cfg(inv[i].run)
  <2>1. run'[inv[i].run].cfg = run[inv[i].run].cfg /\ inv'[i].run = inv[i].run
    BY CallKeeps, ConfigStays DEF Keeps
  <2> QED
    BY <2>1, CallKeeps DEF Cfg
<1>2. /\ inv'[i].run = inv[i].run /\ inv'[i].prog = inv[i].prog
      /\ inv'[i].shim = inv[i].shim /\ inv'[i].onPath = inv[i].onPath
      /\ inv'[i].name = inv[i].name
  BY <1>1 DEF Keeps
<1>3. plan' = plan
  <2>1. TypeOK
    BY DEF Good
  <2>2. CASE UNCHANGED vars
    BY <2>2 DEF vars
  <2>3. ASSUME NEW r \in Runs, RunAction(r)
        PROVE  plan' = plan
    BY <2>1, <2>3, RunActionFacts
  <2>4. ASSUME NEW r \in Runs, NEW m \in Invocations, NEW p \in Programs, Invoke(r, m, p)
        PROVE  plan' = plan
    BY <2>1, <2>4, InvokeFacts
  <2>5. ASSUME NEW m \in Invocations, CallAction(m)
        PROVE  plan' = plan
    BY <2>1, <2>5, CallActionFacts
  <2> QED
    BY <2>1, <2>2, <2>3, <2>4, <2>5, NextCases
<1>4. PICK r, p : r = inv[i].run /\ p = inv[i].prog
  OBVIOUS
<1>5. Cfg(r)' = Cfg(r) /\ inv'[i].run = r /\ inv'[i].prog = p
  BY <1>1, <1>2, <1>4
<1>6. Installed(r, p)' = Installed(r, p)
  BY <1>3, <1>5 DEF Installed, FileOf
<1> QED
  BY <1>2, <1>4, <1>5, <1>6 DEF Allowed, Mode

LEMMA AllowStep ==
    ASSUME Good, AllowInv, [Next]_vars
    PROVE  AllowInv'
<1>0. TypeOK
  BY DEF Good
<1> SUFFICES ASSUME NEW i \in Invocations, Begun(i)' PROVE Allowed(i)'
  BY DEF AllowInv
<1>1. ASSUME Begun(i), inv'[i] = inv[i] PROVE Allowed(i)'
  BY <1>1, StillAllowed DEF AllowInv
<1>2. CASE Begun(i)
  <2>1. CASE CallAction(i)
    BY <1>2, <2>1, RunsByLoad, StillAllowed DEF AllowInv
  <2>2. CASE ~CallAction(i)
    <3>1. inv'[i] = inv[i]
      <4>1. CASE UNCHANGED vars
        BY <4>1 DEF vars
      <4>2. CASE \E r \in Runs : RunAction(r)
        BY <1>0, <4>2, RunActionFacts
      <4>3. CASE \E r \in Runs, m \in Invocations, p \in Programs : Invoke(r, m, p)
        BY <1>0, <1>2, <4>3, InvokeFacts DEF Others
      <4>4. CASE \E m \in Invocations : CallAction(m)
        BY <1>0, <2>2, <4>4, CallActionFacts DEF Others
      <4> QED
        BY <1>0, <4>1, <4>2, <4>3, <4>4, NextCases
    <3> QED
      BY <1>1, <1>2, <3>1
  <2> QED
    BY <2>1, <2>2
<1>3. CASE ~Begun(i)
  <2>1. PICK r \in Runs, p \in Programs : Invoke(r, i, p)
    BY <1>3, BeginsByInvoke
  <2>2. PICK b : Fresh(b, r, p) /\ Begins(i, r, b)
    BY <1>0, <2>1, InvokeStep
  <2>3. plan' = plan /\ run' = run
    BY <1>0, <2>1, InvokeFacts
  <2>4. Cfg(r)' = Cfg(r) /\ Installed(r, p)' = Installed(r, p)
    BY <2>3 DEF Cfg, Installed, FileOf
  <2>5. /\ inv'[i].run = r /\ inv'[i].prog = p /\ inv'[i].shim = b.shim
        /\ inv'[i].onPath = b.onPath /\ inv'[i].name = b.name
    BY <2>2 DEF Fresh, Begins, Tried, Finishes, Concludes, Launches, Keyed, Keeps
  <2>6. b.shim = Installed(r, p) /\ b.ran = FALSE
    BY <2>2 DEF Fresh
  <2>7. b.onPath /\ b.shim /\ (inv'[i].at = "stdin" \/ inv'[i].ran) =>
           ~InNames(Cfg(r).deny, b.name)
    BY <2>2, <2>6 DEF Begins, Concludes, SameInput
  <2>8. b.onPath /\ b.shim /\ inv'[i].ran => Cfg(r).mode # "replay"
    BY <2>2, <2>6 DEF Begins, Concludes, SameInput
  <2> QED
    BY <2>4, <2>5, <2>6, <2>7, <2>8 DEF Allowed, Mode
<1> QED
  BY <1>2, <1>3

LEMMA AllowedRuns ==
    ASSUME NamesFound, Good, ConfigInv, NameInv, AllowInv
    PROVE  RealRunsOnlyIfAllowed
<1>0. TypeOK /\ plan \in Plans
  BY DEF Good, TypeOK
<1> SUFFICES ASSUME NEW i \in Invocations, Begun(i), inv[i].onPath, inv[i].ran,
                    Len(inv[i].prog.name.exts) < 2
             PROVE  /\ ~IsDenied(inv[i].run, inv[i].prog)
                    /\ inv[i].shim /\ Effective(inv[i].run, "mode", "replay") = "replay"
                          => ~Effective(inv[i].run, "strict", TRUE)
  BY DEF RealRunsOnlyIfAllowed
<1>1. PICK r, p, o, goos, cfg, file :
         /\ r = inv[i].run /\ p = inv[i].prog /\ o = Opts(r) /\ goos = plan[r].goos
         /\ cfg = Config(o, goos) /\ file = ShimFileName(p.name, goos)
  OBVIOUS
<1>2. r \in Runs /\ p \in Programs /\ Configured(r)
  BY <1>0, <1>1, BegunCall DEF Good, PhaseInv, InPhase
<1>3. Cfg(r) = cfg /\ cfg.deny = Denied(o) /\ cfg.mode = o.mode /\ cfg.strict = o.strict
  BY <1>1, <1>2 DEF ConfigInv, Cfg, Config
<1>4. Allowed(i)
  BY DEF AllowInv
<1>5. ASSUME IsDenied(r, p) PROVE FALSE
  <2>1. InNames(cfg.deny, p.name)
    BY <1>0, <1>1, <1>2, <1>3, <1>5, DeniedIsListed
  <2>2. \E f \in DOMAIN cfg.cmds :
           f = file \/ (goos = "windows" /\ ToLower(f) = ToLower(file))
    <3>1. plan \in Plans /\ r \in Runs /\ p \in Programs /\ Len(p.name.exts) < 2
      BY <1>0, <1>1, <1>2
    <3>2. cfg = Config(ToOpts(Merged(plan[r].inputs)), goos)
      BY ONLY <1>1 DEF Opts
    <3>3. \A runs \in Plans, q \in Runs, s \in Programs :
             /\ Len(s.name.exts) < 2
             /\ InNames(Config(ToOpts(Merged(runs[q].inputs)), runs[q].goos).deny, s.name)
             => \E f \in DOMAIN Config(ToOpts(Merged(runs[q].inputs)), runs[q].goos).cmds :
                   \/ f = ShimFileName(s.name, runs[q].goos)
                   \/ /\ runs[q].goos = "windows"
                      /\ ToLower(f) = ToLower(ShimFileName(s.name, runs[q].goos))
      BY ONLY NamesFound DEF NamesFound
    <3>4. goos = plan[r].goos /\ file = ShimFileName(p.name, goos)
      BY ONLY <1>1
    <3> QED
      BY ONLY <2>1, <3>1, <3>2, <3>3, <3>4
  <2>3. Installed(r, p)
    BY <1>1, <1>3, <2>2 DEF Installed, FileOf
  <2>4. inv[i].shim
    BY <1>1, <1>4, <2>3 DEF Allowed
  <2>5. inv[i].name = CassetteName(p.name)
    BY <1>1, <2>4 DEF NameInv
  <2>6. ~InNames(cfg.deny, inv[i].name)
    BY <1>1, <1>3, <1>4, <2>4 DEF Allowed
  <2>7. CassetteName(CassetteName(p.name)) = CassetteName(p.name)
    <3>1. p.name \in NameSet({p.name.base}, ToSet(p.name.exts))
      BY <1>2, ProgramsAssumption DEF NameSet
    <3> QED
      BY <1>1, <3>1, CassetteNameTwice
  <2> QED
    BY <2>1, <2>5, <2>6, <2>7 DEF InNames
<1>6. ASSUME inv[i].shim, Effective(r, "mode", "replay") = "replay"
      PROVE  ~Effective(r, "strict", TRUE)
  <2>1. "mode" \in Scalars /\ "strict" \in Scalars
    BY DEF Scalars
  <2>2. PICK s : s = Merged(plan[r].inputs)
    OBVIOUS
  <2>3. o.mode = OrDefault(s["mode"], "replay") /\ o.strict = OrDefault(s["strict"], TRUE)
    BY <1>1, <2>2 DEF Opts, ToOpts
  <2>4. o.mode = Effective(r, "mode", "replay") /\ o.strict = Effective(r, "strict", TRUE)
    BY <1>0, <1>2, <2>1, <2>2, <2>3, EffectiveIsMerged
  <2>5. Mode(i) # "replay" \/ ~Cfg(r).strict
    BY <1>1, <1>4, <1>6 DEF Allowed
  <2> QED
    BY <1>1, <1>3, <1>6, <2>4, <2>5 DEF Mode
<1> QED
  BY <1>1, <1>5, <1>6

\* No real command is run by a shim, or past the shims, that a layer of the
\* settings or the default set denies, nor by the shim of a strict replay
\* (RealRunsOnlyIfAllowed), whatever the layers, the mode and the platform
\* and however runs and shims interleave: provided that names agree, and that
\* the deny list spells the names as the files do.
THEOREM OnlyAllowedRuns ==
    ASSUME NamesAgree, NamesFound
    PROVE  Spec => []RealRunsOnlyIfAllowed
<1> DEFINE IInv == Good /\ ConfigInv /\ NameInv /\ AllowInv
<1>1. Init => IInv
  <2> SUFFICES ASSUME Init PROVE IInv
    OBVIOUS
  <2>1. NameInv /\ AllowInv
    BY DEF NameInv, AllowInv, Init, Begun
  <2>2. ConfigInv
    BY DEF ConfigInv, Configured, Init, NotBegun
  <2> QED
    BY <2>1, <2>2, GoodInit
<1>2. IInv /\ [Next]_vars => IInv'
  BY NamesAgree, GoodStep, ConfigStep, NameStep, AllowStep
<1>3. IInv => RealRunsOnlyIfAllowed
  BY NamesFound, AllowedRuns
<1> QED
  BY <1>1, <1>2, <1>3, PTL DEF Spec
=============================================================================
