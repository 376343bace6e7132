--------------------------- MODULE MCUnarySession ---------------------------
(***************************************************************************)
(* Instances of UnarySession for TLC, with the fingerprints of module      *)
(* Adapters and the redactor of module Redactor.                           *)
(***************************************************************************)
EXTENDS UnarySession, Redactor, FiniteSets

A == INSTANCE Adapters

\* Requests of every adapter.
Exec(cwd, env) ==
    [adapter |-> "exec", argv |-> <<"git">>, stdin |-> "", cwd |-> cwd, env |-> env]

Http(host, query, parses) ==
    [adapter |-> "http", method |-> "GET", headers |-> {host}, body |-> "",
     url |-> [host |-> host, path |-> "/p", query |-> query, parses |-> parses]]

Redis(caps, args) ==
    [adapter |-> "redis", command |-> [word |-> "SET", caps |-> caps], args |-> args]

Sql(words, blanks) ==
    [adapter |-> "sql", args |-> <<1>>,
     query |-> [words |-> words, blanks |-> blanks, caps |-> blanks > 1]]

Grpc(method) == [adapter |-> "grpc", service |-> "s", method |-> method, message |-> "m"]

Chmod(mode, path, rules) ==
    [adapter |-> "fs", op |-> "chmod", path |-> path, rules |-> rules, data |-> "",
     mode |-> mode, uid |-> {}, gid |-> {}, size |-> {}, dest |-> "", flags |-> 0,
     recursive |-> FALSE]

\* Pairs of requests: one interaction or two.
Pairs ==
    {{Exec("", {}), Exec("d", {})},
     {Http("a", "q", TRUE), Http("b", "q", TRUE)},
     {Http("a", "", TRUE), Http("a", "q", FALSE)},
     {Redis(TRUE, <<<<"k">>, <<"v">>>>), Redis(TRUE, <<<<"k">>>>)},
     {Redis(TRUE, <<<<"k">>>>), Redis(FALSE, <<<<"k">>>>)},
     {Sql(<<"select">>, 1), Sql(<<"select">>, 2)},
     {Grpc("m"), Grpc("n")},
     {Chmod({}, "p", << >>), Chmod({0}, "p", << >>)},
     {Chmod({0}, "/tmp/p", "/tmp/p" :> "p"), Chmod({0}, "p", << >>)}}

Requests == UNION Pairs

\* Every call makes the same request, or two make those of a pair.
TheScenarios ==
    [Calls -> {Exec("", {})}] \cup
    UNION {[two -> pair] : two \in kSubset(2, Calls), pair \in Pairs}

Fingerprinted == [q \in Requests |-> A!Fingerprint(q)]

NoneFiled == A!Unfiled

SameInteractions ==
    {<<q, s>> \in Requests \X Requests : A!SameInteraction(q, s)}

\* A response with a secret by its name, one by its value, one in a list,
\* and things that only look like one.
Rich ==
    LET path(words) == <<At(Key(<<"PAYLOAD">>)), At(Key(words))>>
        text == Str(<<Plain("x")>>)
    IN  (path(<<"API", "TOKEN">>) :> text) @@
        (path(<<"NOTE">>) :> Str(<<Plain("x"), Vendor("ghp")>>)) @@
        (<<At(Key(<<"PAYLOAD">>)), At(Header(<<"SET", "COOKIE">>)), Index(1)>> :> text) @@
        (path(<<"KEYBOARD", "LAYOUT">>) :> text) @@
        (path(<<"ERROR">>) :> text) @@
        (path(<<"OTP">>) :> Number(7))

rd == NewRedactor("", <<Key(<<"GPG", "TTY">>)>>, << >>)

Tree(leaves) == [tree |-> leaves]

NoPayload == Tree(<< >>)

TheResponses == {Tree(Rich)}

ThePayloads == TheResponses \cup {Tree(RedactNode(rd, Rich)), NoPayload}

Mask == [p \in ThePayloads |-> Tree(RedactNode(rd, p.tree))]

CallSymmetry == Permutations(Calls)
=============================================================================
