------------------------------- MODULE XrrRun -------------------------------
(***************************************************************************)
(* xrr run and its shims: run.go, shim.go and report.go of go/cmd/xrr.     *)
(*                                                                         *)
(* A run prepares a directory of shims with their configuration and starts *)
(* a command, here called the suite.  Whatever the suite starts by name is *)
(* a shim: a process of its own that records, replays, passes through or   *)
(* denies, and notes the outcome in a log in the run's directory.  When    *)
(* the suite exits, the run reads the log, reports, decides its exit code  *)
(* and removes the directory.  Runs follow one another and share cassette  *)
(* directories.  Shims may be left behind in the background, and be killed *)
(* at any moment.                                                          *)
(*                                                                         *)
(* The suite, the real commands and whoever writes to the standard input   *)
(* of a command are external.                                              *)
(***************************************************************************)
EXTENDS UnaryFormat, RunConfig, Redactor, FiniteSets

CONSTANTS
    NumRuns,        \* how many runs follow one another
    Plans,          \* what they may be: their inputs, their platform, and the
                    \* exit codes of the suite
    NumInvocations, \* bound: how many commands the suites start
    Programs,       \* what may be invoked, with which input
    Environ,        \* the environment variables of the suite
    RedactorEnv,    \* XRR_REDACT_*: disable, allow, deny
    Faults,         \* what may go wrong: "setup", "lookup", "save", "report",
                    \* "kill", and a line of the log that is "lost" or "torn"
    MaxFaults,      \* bound: how often something goes wrong
    Secrets,        \* fragments that occur only in values to be masked
    Foreign         \* cassettes that are there already: key -> code and error

ASSUME RunAssumption ==
    /\ Faults \subseteq {"setup", "lookup", "save", "report", "kill", "lost", "torn"}
    /\ NumInvocations \in Nat /\ MaxFaults \in Nat
    /\ \A key \in DOMAIN Foreign :
          Foreign[key].code \in Int /\ Foreign[key].error \in BOOLEAN
    /\ NumRuns \in Nat /\ \A p \in Plans : DOMAIN p = 1 .. NumRuns
    /\ \A p \in Plans : \A r \in DOMAIN p :
          LET layers == LayersOf(p[r].inputs) IN
          \A n \in DOMAIN layers : IsSettings(layers[n])

\* exitCodeOf makes every exit code a number that is not negative.
ASSUME ProgramsAssumption ==
    \A p \in Programs :
        /\ p.codes \subseteq Nat
        /\ p.name \in [base : {p.name.base}, exts : Seq(ToSet(p.name.exts)), caps : BOOLEAN]
        /\ p.args \in Seq({p.args[n] : n \in DOMAIN p.args})
        /\ p.stdin.chunks \in Seq({p.stdin.chunks[n] : n \in DOMAIN p.stdin.chunks})

Runs == 1 .. NumRuns

Invocations == 1 .. NumInvocations

exitOK == 0
exitUsage == 2
exitViolation == 3
exitMiss == 125
exitDenied == 126
exitNotFound == 127

VARIABLES
    plan,                   \* the runs to be made
    run,                    \* each of them
    inv,                    \* the invocations
    log,                    \* per run: calls.jsonl
    dirs,                   \* the cassette directories there are
    reqFiles, respFiles,    \* their files
    faults                  \* how often something has gone wrong

vars == <<plan, run, inv, log, dirs, reqFiles, respFiles, faults>>

files == <<dirs, reqFiles, respFiles>>

rd == NewRedactor(RedactorEnv.disable, RedactorEnv.allow, RedactorEnv.deny)

NotBegun == [at |-> "idle"]

Idle == [at |-> "idle"]

\* A unary file, by the call that wrote it (0: it was there before), with
\* what replay looks at: the exit code of the payload and the error of the
\* envelope.  WrittenReq and WrittenResp have the rest of the payload.
Content(i, code, err) ==
    [shape |-> "unary", by |-> i, code |-> code, error |-> err]

Payload(steps) == <<At(Key(<<"PAYLOAD">>))>> \o steps

ExitCodeField == Payload(<<At(Key(<<"EXIT", "CODE">>))>>)

Init ==
    /\ plan \in Plans
    /\ run = [r \in Runs |-> NotBegun]
    /\ inv = [i \in Invocations |-> Idle]
    /\ log = [r \in Runs |-> << >>]
    /\ faults = 0
    /\ dirs = {key.dir : key \in DOMAIN Foreign}
    /\ reqFiles = [key \in DOMAIN Foreign |-> Content(0, 0, FALSE)]
    /\ respFiles = [key \in DOMAIN Foreign |->
                       Content(0, Foreign[key].code, Foreign[key].error)]

\* Something goes wrong, within the bound.
Fault(kind) == kind \in Faults /\ faults < MaxFaults /\ faults' = faults + 1

NoFault == UNCHANGED faults

-----------------------------------------------------------------------------
(***************************************************************************)
(* The run.                                                                *)
(***************************************************************************)
Opts(r) == ToOpts(Merged(plan[r].inputs))

\* Will the run get as far as its suite, and if not, why not?
Verdict(r) ==
    IF ~plan[r].child \/ ~LayersLoad(plan[r].inputs) THEN exitUsage
    ELSE IF ~Resolvable(Opts(r), dirs) THEN exitUsage
    ELSE exitOK

\* prepareCassetteDir: a run that records makes the directory of its
\* cassettes, also when it is refused thereafter.
Prepared(r) ==
    IF /\ plan[r].child /\ LayersLoad(plan[r].inputs)
       /\ Opts(r).mode = "record" /\ Opts(r).shim # << >>
    THEN {Opts(r).cassettes} ELSE {}

\* A run whose directory has its configuration.
Running(r) ==
    [at |-> "suite", code |-> 0, dir |-> "whole", child |-> 0, seen |-> << >>,
     inTime |-> {}, cfg |-> Config(Opts(r), plan[r].goos)]

Ended(code) == [at |-> "exited", code |-> code, dir |-> "none"]

\* runCmd and execute up to the start of the suite.  A run that fails has
\* removed its own directory.
Start(r) ==
    /\ run[r].at = "idle"
    /\ \A q \in 1 .. r - 1 : run[q].at = "exited"
    /\ IF Verdict(r) # exitOK
       THEN NoFault /\ run' = [run EXCEPT ![r] = Ended(Verdict(r))]
       ELSE \/ NoFault /\ run' = [run EXCEPT ![r] = Running(r)]
            \/ Fault("setup") /\ run' = [run EXCEPT ![r] = Ended(exitUsage)]
            \/ Fault("lookup") /\ run' = [run EXCEPT ![r] = Ended(exitNotFound)]
    /\ dirs' = dirs \cup Prepared(r)
    /\ UNCHANGED <<plan, inv, log, reqFiles, respFiles>>

Over(i) == inv[i].at \in {"done", "killed"}

OfRun(r) == {i \in Invocations : inv[i] # Idle /\ inv[i].run = r}

\* The suite exits, by itself or on a signal the run forwarded to it; only
\* what it runs in the background is still running.
SuiteExits(r, code) ==
    /\ run[r].at = "suite"
    /\ \A i \in OfRun(r) : Over(i) \/ inv[i].prog.background
    /\ run' = [run EXCEPT ![r].at = "waited", ![r].child = code,
                          ![r].inTime = {i \in OfRun(r) : Over(i)}]
    /\ UNCHANGED <<plan, inv, log, files, faults>>

\* readCalls; a line that does not parse ends the run.
ReadCalls(r) ==
    /\ run[r].at = "waited"
    /\ IF \E n \in DOMAIN log[r] : log[r][n].outcome = "torn"
       THEN run' = [run EXCEPT ![r].at = "removing", ![r].code = exitViolation]
       ELSE run' = [run EXCEPT ![r].at = "read", ![r].seen = log[r]]
    /\ UNCHANGED <<plan, inv, log, files, faults>>

\* Mutant: only what the deny list has stopped fails the run.
FailingIfDenied(entry) == entry.outcome = "denied"

Failing(entry) == entry.outcome \in {"denied", "miss", "error"}

AnyFailing(calls) == \E n \in DOMAIN calls : Failing(calls[n])

ExitCode(r) ==
    IF run[r].child # 0 THEN run[r].child
    ELSE IF AnyFailing(run[r].seen) THEN exitViolation ELSE exitOK

\* The report is printed, and written to a file if one was asked for.
Report(r) ==
    /\ run[r].at = "read"
    /\ \/ NoFault /\ run' = [run EXCEPT ![r].at = "removing", ![r].code = ExitCode(r)]
       \/ /\ Opts(r).reportFile # {} /\ Fault("report")
          /\ run' = [run EXCEPT ![r].at = "removing", ![r].code = exitViolation]
    /\ UNCHANGED <<plan, inv, log, files>>

\* RemoveAll: the configuration goes before the shims, or after.
RemoveRunDir(r) ==
    /\ run[r].at = "removing"
    /\ \/ /\ run[r].dir = "whole"
          /\ run' = [run EXCEPT ![r].dir = "partial"]
       \/ run' = [run EXCEPT ![r].at = "exited", ![r].dir = "gone"]
    /\ UNCHANGED <<plan, inv, log, files, faults>>

-----------------------------------------------------------------------------
(***************************************************************************)
(* A shim.                                                                 *)
(***************************************************************************)
Cfg(r) == run[r].cfg

\* The file the suite's PATH leads to.
FileOf(r, p) == ShimFileName(p.name, plan[r].goos)

Installed(r, p) ==
    \E f \in DOMAIN Cfg(r).cmds :
        f = FileOf(r, p) \/ (plan[r].goos = "windows" /\ ToLower(f) = ToLower(FileOf(r, p)))

CommandOf(r, p) == CmdFor(Cfg(r), FileOf(r, p), plan[r].goos)

\* shimMain: the shim, with the secrets of its environment.
Began(r, p) ==
    [at |-> "stdin",
     env |-> CollectEnvSecrets(rd, Environ, Cfg(r).scrubDeny, Cfg(r).scrubAllow),
     run |-> r, prog |-> p, shim |-> Installed(r, p),
     onPath |-> run[r].dir # "gone",
     name |-> CassetteName(CommandOf(r, p)), taken |-> 0, acc |-> << >>,
     fed |-> << >>, leftover |-> FALSE, ran |-> FALSE, code |-> 0,
     outcome |-> "none", logged |-> "none", key |-> {},
     after |-> {j \in Invocations : Over(j)}]

\* The command line; the command's name is kept apart.
Argv(p) == <<Word(<< >>)>> \o p.args

\* Mutant: the key is made from what may be shown.
KeyOfSafeArgv(c) ==
    [dir |-> Cfg(c.run).cassettes, name |-> c.name,
     args |-> ScrubArgv(rd, Argv(c.prog)), stdin |-> c.acc]

\* The fingerprint of a call c, over the live argv and the input.
KeyFor(c) ==
    [dir |-> Cfg(c.run).cassettes, name |-> c.name, args |-> Argv(c.prog),
     stdin |-> c.acc]

\* The real command has exited: record goes on to save the call, passthrough
\* and miss only note it.
Executed(c, code) ==
    IF Cfg(c.run).mode = "record"
    THEN [c EXCEPT !.at = "saveReq", !.key = {KeyFor(c)}, !.code = code]
    ELSE [c EXCEPT !.at = "log", !.outcome = "passthrough", !.code = code]

\* Mutant: what was read to look for a cassette is not passed on.
AlreadyReadLost(c) == << >>

\* The beginning of the input, when it was read to look for a cassette.
AlreadyRead(c) == c.acc

\* execReal up to the start of the real command, for a call c.  One that
\* cannot be started counts as one that has exited.
ExecReal(c) ==
    IF c.prog.real = "missing"
    THEN [c EXCEPT !.at = "log", !.outcome = "error", !.code = exitNotFound]
    ELSE IF c.prog.real = "broken" THEN Executed(c, exitNotFound)
    ELSE [c EXCEPT !.at = "exec", !.ran = TRUE, !.fed = AlreadyRead(c)]

\* Where a shim goes first: run.
FirstStep(r, c) ==
    IF InNames(Cfg(r).deny, c.name)
    THEN [c EXCEPT !.at = "log", !.outcome = "denied", !.code = exitDenied]
    ELSE IF Cfg(r).mode = "replay" THEN c ELSE ExecReal(c)

\* The suite, or what it has left behind, starts a command.  Without the
\* configuration the binary takes itself for the ordinary xrr, and without
\* the directory the search goes on to the real command.
Invoke(r, i, p) ==
    /\ inv[i] = Idle /\ \A j \in 1 .. i - 1 : inv[j] # Idle
    /\ run[r].at = "suite" \/ (run[r].at # "idle" /\ run[r].dir # "none" /\ p.background)
    /\ inv' = [inv EXCEPT ![i] =
                IF run[r].dir = "gone" \/ ~Installed(r, p)
                THEN [Began(r, p) EXCEPT !.at = "done", !.ran = TRUE]
                ELSE IF run[r].dir = "partial"
                THEN [Began(r, p) EXCEPT !.at = "done", !.code = exitUsage]
                ELSE FirstStep(r, Began(r, p))]
    /\ UNCHANGED <<plan, run, log, files, faults>>

StepTo(i, next) == inv' = [inv EXCEPT ![i] = next]

Conclude(i, outcome, code) ==
    StepTo(i, [inv[i] EXCEPT !.at = "log", !.outcome = outcome, !.code = code])

Stdin(i) == inv[i].prog.stdin

More(i) == inv[i].taken < Len(Stdin(i).chunks)

NextChunk(i) == Stdin(i).chunks[inv[i].taken + 1]

\* readStdinIdle takes what arrives.
ReadStdin(i) ==
    /\ inv[i].at = "stdin" /\ ~Stdin(i).device /\ More(i)
    /\ StepTo(i, [inv[i] EXCEPT !.acc = Append(@, NextChunk(i)), !.taken = @ + 1])
    /\ UNCHANGED <<plan, run, log, files, faults>>

\* Its other results: a device counts as empty, and so does what arrives
\* after a silence longer than the limit.
AtEnd(i) == Stdin(i).device \/ (~More(i) /\ Stdin(i).closes)

\* Mutant: there is no limit.
TimesOutNever(i) == FALSE

TimesOut(i) ==
    /\ ~Stdin(i).device
    /\ Stdin(i).slow \/ (~More(i) /\ ~Stdin(i).closes)

\* The exit code replay returns: a failure does not become a success.
ReplayedCode(file) ==
    IF file.code < 0 \/ (file.code = 0 /\ file.error) THEN 1 ELSE file.code

\* The goroutine of readStdinIdle may be left over, waiting for more input.
Miss(i, leftover) ==
    IF Cfg(inv[i].run).strict THEN Conclude(i, "miss", exitMiss)
    ELSE StepTo(i, ExecReal([inv[i] EXCEPT !.leftover = leftover]))

\* replay, once the input is known.  The two files are read at one moment: of
\* the req file it only matters whether it can be read.
Load(i) ==
    /\ inv[i].at = "stdin"
    /\ \E leftover \in {FALSE, TRUE} :
       /\ IF leftover THEN TimesOut(i) ELSE AtEnd(i)
       /\ LET key == KeyFor(inv[i])
              req == ReadStreamFile(reqFiles, key)
              resp == ReadStreamFile(respFiles, key)
          IN  \E v \in LoadVerdicts(req, resp) :
                 \/ v = "miss" /\ Miss(i, leftover)
                 \/ v = "ok" /\ Conclude(i, "replayed", ReplayedCode(resp))
                 \/ v \notin {"miss", "ok"} /\ Conclude(i, "error", exitUsage)
    /\ UNCHANGED <<plan, run, log, files, faults>>

\* Mutant: the command is fed first, and the copy may come too late.
PumpFeedsFirst(i) ==
    /\ inv[i].at = "exec" /\ More(i)
    /\ \/ StepTo(i, [inv[i] EXCEPT !.taken = @ + 1,
                        !.fed = Append(@, NextChunk(i)), !.acc = Append(@, NextChunk(i))])
       \/ StepTo(i, [inv[i] EXCEPT !.taken = @ + 1, !.fed = Append(@, NextChunk(i))])
    /\ UNCHANGED <<plan, run, log, files, faults>>

\* The pump, or the command itself, takes what arrives; in record mode a
\* copy is kept first.  A reader left over from readStdinIdle is still
\* waiting before the pump, and what it gets is lost.
Pump(i) ==
    /\ inv[i].at = "exec" /\ More(i)
    /\ StepTo(i, [inv[i] EXCEPT
          !.taken = @ + 1,
          !.leftover = FALSE,
          !.fed = IF inv[i].leftover THEN @ ELSE Append(@, NextChunk(i)),
          !.acc = IF Cfg(inv[i].run).mode = "record" THEN Append(@, NextChunk(i)) ELSE @])
    /\ UNCHANGED <<plan, run, log, files, faults>>

\* A command that reads its input ends when that has ended, any other at
\* any time.
RealExits(i, code) ==
    /\ inv[i].at = "exec"
    /\ inv[i].prog.reads => ~More(i) /\ Stdin(i).closes
    /\ StepTo(i, Executed(inv[i], code))
    /\ UNCHANGED <<plan, run, log, files, faults>>

-----------------------------------------------------------------------------
(***************************************************************************)
(* What is written.                                                        *)
(***************************************************************************)
\* safeArgv.
SafeArgv(i) ==
    ScrubAll(inv[i].env, ScrubArgv(rd, Argv(inv[i].prog)))

\* The captured variables, by position in the environment.
CaptureEnv(i) ==
    {n \in DOMAIN Environ : Contains(Cfg(inv[i].run).env, Environ[n].name)}

\* The payload of the req file, as a tree of leaves; write masks it.
WrittenReq(i) ==
    LET argv == SafeArgv(i)
        secrets == inv[i].env
        text(m) == Str(Scrub(secrets, Environ[m].text))
        of(name) == CHOOSE m \in DOMAIN Environ : Environ[m].name = name
        argvPaths == {Payload(<<At(Key(<<"ARGV">>)), Index(m)>>) : m \in DOMAIN argv}
        envPaths == {Payload(<<At(Key(<<"ENV">>)), At(Environ[m].name)>>) : m \in CaptureEnv(i)}
    IN  RedactNode(rd,
            [path \in argvPaths |-> Str(argv[Last(path).index].text)] @@
            (Payload(<<At(Key(<<"STDIN">>))>>) :> Str(Scrub(secrets, inv[i].acc))) @@
            [path \in envPaths |-> text(of(Last(path).key))])

\* That of the resp file.
WrittenResp(i) ==
    RedactNode(rd,
        (Payload(<<At(Key(<<"STDOUT">>))>>) :> Str(Scrub(inv[i].env, inv[i].prog.out))) @@
        (ExitCodeField :> Number(inv[i].code)))

TheKey(i) == CHOOSE key \in inv[i].key : TRUE

\* The contents Save writes.
ReqContent(i) == Content(i, 0, FALSE)

RespContent(i) == Content(i, inv[i].code, inv[i].code # 0)

\* Save of the cassette, file by file.  A shim that reads a file between its
\* truncation and its writing is refused, as after a save that was stopped;
\* for a shim that goes on, the two are one step.
Save(i) ==
    /\ \/ /\ inv[i].at = "saveReq"
          /\ reqFiles' = WriteFile(reqFiles, TheKey(i), ReqContent(i))
          /\ StepTo(i, [inv[i] EXCEPT !.at = "saveResp"])
          /\ UNCHANGED respFiles
       \/ /\ inv[i].at = "saveResp"
          /\ respFiles' = WriteFile(respFiles, TheKey(i), RespContent(i))
          /\ Conclude(i, "recorded", inv[i].code)
          /\ UNCHANGED reqFiles
    /\ UNCHANGED <<plan, run, log, dirs, faults>>

\* What is left of a decimal number that is cut short: its first digits, or
\* nothing, which reads as zero.
CutNumbers(n) ==
    {m \in 0 .. n : m = 0 \/ \E digits \in 0 .. 9 : m = n \div 10^digits}

\* What a write that stops may have made of a file: it was not opened, it is
\* empty, has a beginning, or is whole.
Interrupted(dir, key, content) ==
    {dir} \cup {WriteFile(dir, key, left) : left \in
        {Truncated, content} \cup
        {CutShort([content EXCEPT !.code = m]) : m \in CutNumbers(content.code)}}

\* The save under way stops.
StopsSaving(i) ==
    /\ reqFiles' \in IF inv[i].at = "saveReq"
                     THEN Interrupted(reqFiles, TheKey(i), ReqContent(i)) ELSE {reqFiles}
    /\ respFiles' \in IF inv[i].at = "saveResp"
                      THEN Interrupted(respFiles, TheKey(i), RespContent(i)) ELSE {respFiles}
    /\ UNCHANGED <<plan, run, log, dirs>>

\* Mutant: the error of Save is dropped.
SaveFailsUnnoticed(i) ==
    /\ inv[i].at \in {"saveReq", "saveResp"} /\ Fault("save")
    /\ StopsSaving(i)
    /\ Conclude(i, "recorded", inv[i].code)

\* A write fails: saveFailed, and the command's own exit code is returned.
SaveFails(i) ==
    /\ inv[i].at \in {"saveReq", "saveResp"} /\ Fault("save")
    /\ StopsSaving(i)
    /\ Conclude(i, "error", inv[i].code)

\* log, and the end of the shim.  A line that cannot be written is only
\* complained about, and once the directory goes it is written for nobody.
Log(i) ==
    /\ inv[i].at = "log"
    /\ \E result \in IF run[inv[i].run].dir = "whole" THEN {"ok", "lost", "torn"}
                     ELSE {"lost"} :
          /\ IF result = "ok" \/ run[inv[i].run].dir # "whole" THEN NoFault
             ELSE Fault(result)
          /\ StepTo(i, [inv[i] EXCEPT !.at = "done", !.logged = result])
          /\ log' = IF result = "lost" THEN log
                    ELSE [log EXCEPT ![inv[i].run] = Append(@,
                            [by |-> i,
                             outcome |-> IF result = "torn" THEN "torn"
                                         ELSE inv[i].outcome])]
    /\ UNCHANGED <<plan, run, files>>

\* A shim is killed, maybe in a write.
Kill(i) ==
    /\ inv[i] # Idle /\ ~Over(i) /\ Fault("kill")
    /\ StepTo(i, [inv[i] EXCEPT !.at = "killed"])
    /\ StopsSaving(i)

-----------------------------------------------------------------------------
ShimStep(i) ==
    \/ ReadStdin(i) \/ Load(i) \/ Pump(i)
    \/ \E code \in IF inv[i] = Idle THEN {} ELSE inv[i].prog.codes : RealExits(i, code)
    \/ Save(i) \/ Log(i)

Next ==
    \/ \E r \in Runs :
          \/ Start(r) \/ ReadCalls(r) \/ Report(r) \/ RemoveRunDir(r)
          \/ \E code \in plan[r].codes : SuiteExits(r, code)
          \/ \E i \in Invocations, p \in Programs : Invoke(r, i, p)
    \/ \E i \in Invocations : ShimStep(i) \/ SaveFails(i) \/ Kill(i)

Spec == Init /\ [][Next]_vars

\* The operating system runs the shims, and a command that has read its input,
\* or does not read it, comes to an end.
Fairness == \A i \in Invocations : WF_vars(ShimStep(i))

FairSpec == Spec /\ Fairness

-----------------------------------------------------------------------------
(***************************************************************************)
(* Properties.                                                             *)
(***************************************************************************)
Begun(i) == inv[i] # Idle

Layers(r) == LayersOf(plan[r].inputs)

\* The value of a scalar by the highest layer that sets it.
Effective(r, k, default) ==
    LET set == {n \in DOMAIN Layers(r) : Layers(r)[n][k] # {}}
        highest == CHOOSE n \in set : \A m \in set : m <= n
    IN  IF set = {} THEN default ELSE CHOOSE v \in Layers(r)[highest][k] : TRUE

Listed(r, k) == UNION {ToSet(Layers(r)[n][k]) : n \in DOMAIN Layers(r)}

Same(names, p) == \E n \in names : CassetteName(n) = CassetteName(p.name)

\* Has any layer denied this command, or the default set, which yields to a
\* shim?
IsDenied(r, p) ==
    \/ Same(Listed(r, "deny"), p)
    \/ /\ ~Effective(r, "no_default_deny", FALSE)
       /\ ~Same(Listed(r, "shim"), p)
       /\ Same(ToSet(defaultDeny), p)

\* A real command runs under a run only if no layer denies it and, if there
\* is a shim for it, the mode in force has it run: to record, to pass
\* through, or to replay without being strict.  (Names with two executable
\* extensions aside: the second is not seen through, and such a command is
\* not denied.)
RealRunsOnlyIfAllowed ==
    \A i \in Invocations :
        /\ Begun(i) /\ inv[i].onPath /\ inv[i].ran /\ Len(inv[i].prog.name.exts) < 2
        => LET r == inv[i].run IN
           /\ ~IsDenied(r, inv[i].prog)
           /\ inv[i].shim /\ Effective(r, "mode", "replay") = "replay"
                 => ~Effective(r, "strict", TRUE)

\* A run whose suite passed does not pass itself when a command it had
\* started and waited for was denied, missed or failed, whatever the suite
\* made of that command's exit code, provided the command could note it.
FailureFailsTheRun ==
    \A r \in Runs :
        /\ run[r].at = "exited" /\ run[r].dir = "gone" /\ run[r].code = exitOK
        => \A i \in run[r].inTime :
              inv[i].logged = "ok" => inv[i].outcome \notin {"denied", "miss", "error"}

\* Nobody else has begun to save under the key of this call.
Alone(i) == \A j \in Invocations \ {i} : Begun(j) => inv[j].key # inv[i].key

\* What is noted as recorded is sure to load, with the exit code of the
\* command: a save that was stopped, and may have left half a file, is not.
RecordedIsLoadable ==
    \A i \in Invocations :
        /\ Begun(i) /\ inv[i].outcome = "recorded" /\ Alone(i)
        => /\ LoadVerdicts(ReadStreamFile(reqFiles, TheKey(i)),
                           ReadStreamFile(respFiles, TheKey(i))) = {"ok"}
           /\ respFiles[TheKey(i)].code = inv[i].code
           /\ respFiles[TheKey(i)].error = (inv[i].code # 0)

\* An input that is the same whenever it is read: all of it comes in time,
\* and the command is started and waits for it.
Steady(p) ==
    /\ ~p.stdin.slow
    /\ p.stdin.chunks # << >> =>
          p.real = "ok" /\ p.reads /\ p.stdin.closes /\ ~p.stdin.device

\* The file a command's name leads to stands for a command that has the same
\* cassette name, on every platform and in every configuration: not if an
\* entry has two executable extensions, of which only one is dropped.
NamesAgree ==
    \A runs \in Plans, r \in Runs, p \in Programs :
        LET goos == runs[r].goos
            cfg == Config(ToOpts(Merged(runs[r].inputs)), goos)
            file == ShimFileName(p.name, goos)
        IN  /\ \E f \in DOMAIN cfg.cmds :
                  f = file \/ (goos = "windows" /\ ToLower(f) = ToLower(file))
            => CassetteName(CmdFor(cfg, file, goos)) = CassetteName(p.name)

\* Where a command is denied there is a shim for it to be stopped by: not if
\* the list spells the name otherwise than the file, as mailx.exe on linux.
NamesFound ==
    \A runs \in Plans, r \in Runs, p \in Programs :
        LET goos == runs[r].goos
            cfg == Config(ToOpts(Merged(runs[r].inputs)), goos)
            file == ShimFileName(p.name, goos)
        IN  /\ Len(p.name.exts) < 2 /\ InNames(cfg.deny, p.name)
            => \E f \in DOMAIN cfg.cmds :
                  f = file \/ (goos = "windows" /\ ToLower(f) = ToLower(file))

\* A call that repeats one that was recorded is replayed with its exit code,
\* although recording copies the input while the command reads it and
\* replaying reads it with a time limit: on whatever platform, and whatever
\* secrets its arguments have.
RecordedCallReplays ==
    \A i, j \in Invocations :
        /\ Begun(i) /\ Begun(j) /\ i # j
        /\ inv[j].outcome = "recorded" /\ j \in inv[i].after /\ Alone(j)
        /\ inv[i].prog = inv[j].prog /\ Steady(inv[j].prog)
        /\ Cfg(inv[i].run).cassettes = Cfg(inv[j].run).cassettes
        /\ Cfg(inv[i].run).mode = "replay" /\ inv[i].outcome # "none"
        /\ inv[i].outcome # "denied"
        => inv[i].outcome = "replayed" /\ inv[i].code = inv[j].code

\* The recording j is of the command, the arguments and the input of i, in
\* the directory i replays from.  One that was stopped, and said so or died,
\* may have left only the first digits of its exit code.
RecordingFor(j, i) ==
    /\ Begun(j) /\ inv[j].key # {}
    /\ Cfg(inv[j].run).cassettes = Cfg(inv[i].run).cassettes
    /\ inv[j].name = inv[i].name
    /\ inv[j].prog.args = inv[i].prog.args
    /\ inv[j].acc = inv[i].acc
    /\ \/ inv[j].outcome = "recorded" /\ inv[j].code = inv[i].code
       \/ /\ inv[j].outcome = "error" \/ (inv[j].at = "killed" /\ inv[j].outcome = "none")
          /\ inv[j].code = 0 <=> inv[i].code = 0

\* The same of a cassette that was there before; a negative exit code, and
\* zero with an error, comes back as a failure.
WasThere(k, i) ==
    /\ k.dir = Cfg(inv[i].run).cassettes /\ k.name = inv[i].name
    /\ k.args = Argv(inv[i].prog) /\ k.stdin = inv[i].acc
    /\ Foreign[k].code > 0 => inv[i].code = Foreign[k].code
    /\ inv[i].code = 0 <=> (Foreign[k].code = 0 /\ ~Foreign[k].error)

\* Only what was recorded is replayed: the command, the arguments and the
\* input are those of a recording in the same directory, and so is the exit
\* code if the recording was saved.  A failure does not become a success,
\* not even if a save was stopped in the middle of a file.
ReplayIsOfARecording ==
    \A i \in Invocations :
        Begun(i) /\ inv[i].outcome = "replayed" =>
            \/ \E j \in Invocations : RecordingFor(j, i)
            \/ \E k \in DOMAIN Foreign : WasThere(k, i)

\* A real command that waited for the end of its input has been given all of
\* it.  (A limit that strikes while replaying loses what arrives next.)
RealGetsItsInput ==
    \A i \in Invocations :
        /\ Begun(i) /\ inv[i].shim /\ inv[i].onPath /\ inv[i].ran /\ inv[i].prog.reads
        /\ inv[i].at \in {"saveReq", "saveResp", "log", "done"}
        /\ ~Stdin(i).slow /\ Stdin(i).closes
        => inv[i].fed = Stdin(i).chunks

Masked(text) == \A n \in DOMAIN text : text[n] \notin Secrets

MaskedTree(tree) ==
    \A p \in DOMAIN tree : tree[p].tag = "str" => Masked(tree[p].text)

\* No part of a secret is ever in a cassette or in the log: not of the value
\* of a flag or an assignment, nor of one with a vendor's mark, nor of that
\* of an environment variable, even if one is a part of another.  The exit
\* code survives the masking.
SecretsStayOffDisk ==
    /\ \A k \in DOMAIN reqFiles :
          LET i == reqFiles[k].by IN
          reqFiles[k] # Truncated /\ i # 0 => MaskedTree(WrittenReq(i))
    /\ \A k \in DOMAIN respFiles :
          LET i == respFiles[k].by IN
          respFiles[k] # Truncated /\ i # 0 =>
             /\ MaskedTree(WrittenResp(i))
             /\ respFiles[k].shape = "unary" =>
                   WrittenResp(i)[ExitCodeField] = Number(respFiles[k].code)
    /\ \A r \in Runs : \A n \in DOMAIN log[r] :
          LET argv == SafeArgv(log[r][n].by) IN
          \A m \in DOMAIN argv : Masked(argv[m].text)

\* Nothing but its own input can keep a shim: to replay it does not wait for
\* the end of it, and to record only as long as the command does.
ShimAnswers ==
    \A i \in Invocations :
        /\ Begun(i)
        /\ \/ Stdin(i).closes \/ ~inv[i].prog.reads
           \/ Cfg(inv[i].run).mode = "replay" /\ Cfg(inv[i].run).strict
        ~> (Begun(i) /\ Over(i))
=============================================================================
