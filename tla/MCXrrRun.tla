------------------------------ MODULE MCXrrRun ------------------------------
(***************************************************************************)
(* Instances of XrrRun for TLC.                                            *)
(***************************************************************************)
EXTENDS XrrRun

git == Name("git", << >>)
az == Name("az", << >>)
mailx == Capital(Name("mailx", <<".exe">>))

\* Fragments of texts.
x == Plain("x")
y == Plain("y")
half == Plain("half a token")
rest == Plain("the rest of it")
hush == Plain("hush")
hint == Plain("hint")
ghp == Vendor("ghp")

AllSecrets == {half, rest, hush, hint, ghp}

\* One secret variable's value is the beginning of another's.
TheEnviron ==
    <<[name |-> Key(<<"SHORT", "TOKEN">>), text |-> <<half, rest>>],
      [name |-> Key(<<"LONG", "TOKEN">>), text |-> <<half, rest, hint>>],
      [name |-> Key(<<"KEYBOARD", "LAYOUT">>), text |-> <<x, y>>]>>

TheRedactorEnv == [disable |-> "", allow |-> << >>, deny |-> << >>]

\* Standard inputs.
Input(chunks, closes, slow, device) ==
    [chunks |-> chunks, closes |-> closes, slow |-> slow, device |-> device]

Device == Input(<< >>, TRUE, FALSE, TRUE)
Silent == Input(<< >>, FALSE, FALSE, FALSE)
Piped == Input(<<x>>, TRUE, FALSE, FALSE)
Trickle == Input(<<x>>, TRUE, TRUE, FALSE)

Program(name, args, stdin, reads, codes, real) ==
    [name |-> name, args |-> args, stdin |-> stdin, reads |-> reads,
     codes |-> codes, out |-> <<x, half, rest, hint>>, real |-> real,
     background |-> FALSE]

Login(secret) ==
    Program(az, <<Flag(Key(<<"PASSWORD">>)), Word(<<secret>>), Word(<<ghp>>),
                  Assign(Key(<<"API", "TOKEN">>), <<secret>>, FALSE)>>,
            Piped, TRUE, {1}, "ok")

Status == Program(git, << >>, Silent, FALSE, {0}, "ok")

ThePrograms ==
    {Login(hush), Login(hint), Status,
     Program(git, <<Word(<<y>>)>>, Trickle, TRUE, {0}, "ok"),
     Program(git, <<Word(<<x>>)>>, Device, FALSE, {0}, "missing"),
     Program(az, <<Word(<<x>>)>>, Piped, TRUE, {0}, "broken"),
     [Program(mailx, << >>, Device, FALSE, {0}, "ok") EXCEPT !.background = TRUE]}

\* Layers.
With(k, v) == [Unset EXCEPT ![k] = v]

Also(s, k, v) == [s EXCEPT ![k] = v]

User == File(Also(With("deny", <<mailx>>), "strict", {FALSE}))
Project == File(Also(With("shim", <<git, az>>), "deny", <<Name("rm", << >>)>>))
Env == File(With("env", <<Key(<<"LONG", "TOKEN">>)>>))
Flags(mode) == Also(With("mode", {mode}), "report_file", {"report"})
Strict(mode) == Also(Flags(mode), "strict", {TRUE})

Planned(inputs, goos) ==
    [inputs |-> inputs, goos |-> goos, child |-> TRUE,
     codes |-> IF inputs.flags["strict"] = {TRUE} THEN {0, 7} ELSE {0}]

Layered(flags, goos) == Planned(Inputs(User, Project, TRUE, Env, flags), goos)

\* Runs that cannot start: a command both shimmed and denied, by spelling and
\* by name, a file that is missing or broken, no suite, nothing to replay.
Conflicting == Layered(Also(Flags("record"), "deny", <<git>>), "linux")
Colliding == Layered(Also(Flags("record"), "deny", <<Name("git", <<".exe">>)>>), "linux")
Unnamed == Planned(Inputs(User, NoFile, TRUE, Env, Flags("record")), "linux")
Broken == Planned(Inputs(Undecodable, Project, FALSE, NoFile, Flags("record")), "linux")
Empty == [Layered(Flags("record"), "linux") EXCEPT !.child = FALSE]
Elsewhere == Layered(Also(Flags("replay"), "cassettes", {"elsewhere"}), "linux")

ThePlans ==
    {<<Layered(Flags("record"), "linux"), Layered(Strict("replay"), "windows")>>,
     <<Layered(Flags("record"), "linux"), Layered(Flags("replay"), "linux")>>,
     <<Layered(Flags("passthrough"), "linux"), Conflicting>>,
     <<Colliding, Unnamed>>, <<Broken, Empty>>, <<Elsewhere, Elsewhere>>}

\* A cassette of another tool: it failed without an exit code.
TheForeign ==
    ([dir |-> "cassettes", name |-> git, args |-> <<Word(<< >>)>>, stdin |-> << >>]
        :> [code |-> 0, error |-> TRUE])

\* What the theorems of XrrRun_proofs ask of the names holds of this instance.
ASSUME NamesHypotheses == NamesAgree /\ NamesFound
=============================================================================
