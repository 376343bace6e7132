----------------------------- MODULE RunConfig -----------------------------
(***************************************************************************)
(* How xrr run is configured: config_file.go, and the parts of run.go,     *)
(* config.go and platform.go that turn four layers of settings into the    *)
(* configuration the shims read.  Pure: operators only.                    *)
(*                                                                         *)
(* A command name is a base, the extensions after it and whether it has    *)
(* capitals: what cassetteName and shimFileName look at.                   *)
(***************************************************************************)
EXTENDS Integers, Sequences, SequencesExt

Name(base, exts) == [base |-> base, exts |-> exts, caps |-> FALSE]

Capital(n) == [n EXCEPT !.caps = TRUE]

ToLower(n) == [n EXCEPT !.caps = FALSE]

exeExts == {".exe", ".com", ".bat", ".cmd"}

\* The built-in side-effect set.
defaultDeny ==
    LET plain == <<"open", "xdg-open", "wslview", "start", "sendmail", "mail",
                   "osascript", "say", "pbcopy", "notify-send">>
        exe == <<"explorer", "rundll32", "mshta", "clip", "msg", "wscript",
                 "cscript">>
    IN  [i \in DOMAIN plain |-> Name(plain[i], << >>)] \o
        [i \in DOMAIN exe |-> Name(exe[i], <<".exe">>)]

\* One executable extension is dropped, unless nothing would be left.
CassetteName(n) ==
    IF /\ n.exts # << >>
       /\ Last(n.exts) \in exeExts
       /\ n.base # "" \/ Len(n.exts) > 1
    THEN [ToLower(n) EXCEPT !.exts = Front(@)]
    ELSE ToLower(n)

ShimFileName(n, goos) ==
    IF goos = "windows" /\ (n.exts = << >> \/ Last(n.exts) # ".exe")
    THEN [n EXCEPT !.exts = Append(@, ".exe")]
    ELSE n

\* Membership, by cassette name.
InNames(list, n) ==
    \E i \in DOMAIN list : CassetteName(list[i]) = CassetteName(n)

\* Two entries with one cassette name are refused, but for an entry repeated
\* within its list.
CheckCollisions(shim, deny) ==
    LET entry(list, name) == [i \in DOMAIN list |-> [entry |-> list[i], list |-> name]]
        all == entry(shim, "shim") \o entry(deny, "deny")
    IN  \A i, j \in DOMAIN all :
            CassetteName(all[i].entry) = CassetteName(all[j].entry) => all[i] = all[j]

\* Names that cannot be a bare entry of PATH.
ValidCommandName(n) ==
    /\ n.base # "" \/ n.exts # << >>
    /\ n.base # "bin/tool"

-----------------------------------------------------------------------------
(***************************************************************************)
(* Settings.  A scalar is a set: empty when the layer leaves it unset.     *)
(***************************************************************************)
Scalars == {"mode", "cassettes", "no_default_deny", "strict", "report_file"}

Commands == {"shim", "deny"}

Lists == Commands \cup {"env", "scrub_deny", "scrub_allow"}

Unset == [k \in Scalars \cup Lists |-> IF k \in Scalars THEN {} ELSE << >>]

IsSettings(s) ==
    /\ DOMAIN s = Scalars \cup Lists
    /\ \A k \in Lists : s[k] \in Seq(ToSet(s[k]))

Once(out, v) == IF Contains(out, v) THEN out ELSE Append(out, v)

\* union: of two lists, in order, every entry once.
UnionOf(a, b) ==
    LET both == a \o b
        out[i \in 0 .. Len(both)] ==
            IF i = 0 THEN << >> ELSE Once(out[i - 1], both[i])
    IN  out[Len(both)]

\* Mutant: a list of a higher layer replaces the lower one's.
MergeSettingsReplacing(lo, hi) ==
    [k \in DOMAIN lo |-> IF hi[k] = Unset[k] THEN lo[k] ELSE hi[k]]

\* hi over lo: a scalar that is set wins, lists are united.
MergeSettings(lo, hi) ==
    [k \in DOMAIN lo |->
        IF k \in Lists THEN UnionOf(lo[k], hi[k])
        ELSE IF hi[k] # {} THEN hi[k] ELSE lo[k]]

\* validate.  The form of a duration and of a pattern is left out: a layer
\* that is refused for one of them is represented by one with a bad mode.
Valid(s) ==
    /\ s["mode"] \subseteq {"record", "replay", "passthrough"}
    /\ \A k \in Commands : \A i \in DOMAIN s[k] : ValidCommandName(s[k][i])

\* A config file is absent, or does not decode, or holds settings.
NoFile == [state |-> "absent", settings |-> Unset]

File(settings) == [state |-> "ok", settings |-> settings]

Undecodable == [state |-> "bad", settings |-> Unset]

\* loadFile: may this file be used?  Settings that are missing are unset.
Usable(file, required) ==
    \/ file.state = "absent" /\ ~required
    \/ file.state = "ok" /\ Valid(file.settings)

\* The inputs of a run: the user's file, the project's, whether --config
\* named the latter, the environment, the flags.
Inputs(user, project, named, env, flags) ==
    [user |-> user, project |-> project, named |-> named, env |-> env,
     flags |-> flags]

LayersOf(in) ==
    <<in.user.settings, in.project.settings, in.env.settings, in.flags>>

\* checkConflicts: what no two lists may share, by spelling.
Conflicts(s) ==
    \/ ToSet(s["scrub_deny"]) \cap ToSet(s["scrub_allow"]) # {}
    \/ ToSet(s["shim"]) \cap ToSet(s["deny"]) # {}

\* loadLayers: user file < project file < env < flags.
Merged(in) ==
    MergeSettings(MergeSettings(MergeSettings(
        in.user.settings, in.project.settings), in.env.settings), in.flags)

LayersLoad(in) ==
    /\ Valid(in.flags)
    /\ Usable(in.user, FALSE)
    /\ Usable(in.project, in.named)
    /\ Usable(in.env, FALSE)
    /\ ~Conflicts(Merged(in))

OrDefault(s, default) == IF s = {} THEN default ELSE CHOOSE v \in s : TRUE

\* toOpts.
ToOpts(s) ==
    [mode |-> OrDefault(s["mode"], "replay"),
     cassettes |-> OrDefault(s["cassettes"] \ {""}, "cassettes"),
     strict |-> OrDefault(s["strict"], TRUE),
     noDefaultDeny |-> OrDefault(s["no_default_deny"], FALSE),
     reportFile |-> s["report_file"],
     shim |-> s["shim"], deny |-> s["deny"], env |-> s["env"],
     scrubDeny |-> s["scrub_deny"], scrubAllow |-> s["scrub_allow"]]

-----------------------------------------------------------------------------
(***************************************************************************)
(* resolve: the configuration handed to the shims.                         *)
(***************************************************************************)
Resolvable(o, dirs) ==
    /\ o.mode # "passthrough" =>
          o.shim # << >> /\ (o.mode = "record" \/ o.cassettes \in dirs)
    /\ CheckCollisions(o.shim, o.deny)

WithDefault(shim, deny, d) ==
    IF InNames(shim, d) \/ InNames(deny, d) THEN deny ELSE Append(deny, d)

\* The deny list, with the defaults that are not shimmed or denied anyway.
Denied(o) ==
    LET deny[i \in 0 .. Len(defaultDeny)] ==
            IF i = 0 THEN o.deny ELSE WithDefault(o.shim, deny[i - 1], defaultDeny[i])
    IN  IF o.noDefaultDeny THEN o.deny ELSE deny[Len(defaultDeny)]

\* Cmds: what each shim file stands for; of two names with one file the
\* later wins.
Cmds(o, goos) ==
    LET names == o.shim \o Denied(o)
        files == {ShimFileName(names[i], goos) : i \in DOMAIN names}
        stands(f) == SelectLastInSeq(names, LAMBDA n : ShimFileName(n, goos) = f)
    IN  [f \in files |-> names[stands(f)]]

Config(o, goos) ==
    [mode |-> o.mode, cassettes |-> o.cassettes, strict |-> o.strict,
     deny |-> Denied(o), cmds |-> Cmds(o, goos), env |-> o.env,
     scrubDeny |-> o.scrubDeny, scrubAllow |-> o.scrubAllow]

\* cmdFor: an unknown file stands for itself.
CmdFor(cfg, file, goos) ==
    IF file \in DOMAIN cfg.cmds THEN cfg.cmds[file]
    ELSE LET same == {f \in DOMAIN cfg.cmds :
                         goos = "windows" /\ ToLower(f) = ToLower(file)}
         IN  IF same = {} THEN file ELSE cfg.cmds[CHOOSE f \in same : TRUE]
=============================================================================
