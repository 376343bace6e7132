------------------------------ MODULE Adapters ------------------------------
(***************************************************************************)
(* What the unary adapters of go/adapters file a request under.  Pure:     *)
(* operators only.                                                         *)
(*                                                                         *)
(* A fingerprint is the value that is hashed: CanonicalFingerprint takes   *)
(* equal values, and no others, to equal fingerprints (collisions of the   *)
(* 32 bits it keeps are left out).  Fields that are left out of the hash   *)
(* are absent from the record.  A pointer is a set of at most one value,   *)
(* and texts are sequences of words where an adapter looks inside.         *)
(***************************************************************************)
EXTENDS Integers, Sequences, SequencesExt

\* A field that participates only if cond holds.
Field(cond, name, value) == IF cond THEN name :> value ELSE << >>

\* exec: cwd only if it is not empty; the environment not at all.
ExecFingerprint(r) ==
    [argv |-> r.argv, stdin |-> r.stdin] @@ Field(r.cwd # "", "cwd", r.cwd)

\* http: the path with its query; neither the host nor the headers.
HttpFingerprint(r) ==
    [method |-> r.method, body_hash |-> r.body,
     path |-> IF r.url.query = "" THEN <<r.url.path>>
              ELSE <<r.url.path, r.url.query>>]

\* redis: the command in upper case and its arguments as one text, so that
\* arguments with blanks run together.
RedisFingerprint(r) == <<r.command.word>> \o FlattenSeq(r.args)

\* sql: normalizeQuery is blind to case and to blanks.
NormalizeQuery(q) == q.words

SqlFingerprint(r) == [query |-> NormalizeQuery(r.query), args |-> r.args]

GrpcFingerprint(r) ==
    [service |-> r.service, method |-> r.method, msg_hash |-> r.message]

\* fs: the installed PathNormalizer, which is not asked about an empty path.
Normalize(rules, p) == IF p # "" /\ p \in DOMAIN rules THEN rules[p] ELSE p

\* Mutant: a field that is set to zero is taken for one that is not set.
GivenNonZero(ptr) == ptr \notin {{}, {0}}

\* A pointer that is not nil.
Given(ptr) == ptr # {}

Pointer(name, ptr) == Field(Given(ptr), name, ptr)

FsFingerprint(r) ==
    LET dest == Normalize(r.rules, r.dest) IN
    [op |-> r.op, path |-> Normalize(r.rules, r.path)] @@
    Field(r.data # "", "data_sha256", r.data) @@
    Pointer("mode", r.mode) @@ Pointer("uid", r.uid) @@
    Pointer("gid", r.gid) @@ Pointer("size", r.size) @@
    Field(dest # "", "dest", dest) @@
    Field(r.flags # 0, "flags", r.flags) @@
    Field(r.recursive, "recursive", TRUE)

\* Fingerprint of the request's adapter, with the adapter's ID, which is a
\* part of the name of a cassette; or none, for a URL that does not parse.
Unfiled == [adapter |-> "none"]

Fingerprint(r) ==
    IF r.adapter = "http" /\ ~r.url.parses THEN Unfiled
    ELSE [adapter |-> r.adapter,
          of |-> IF r.adapter = "exec" THEN ExecFingerprint(r)
                 ELSE IF r.adapter = "http" THEN HttpFingerprint(r)
                 ELSE IF r.adapter = "redis" THEN RedisFingerprint(r)
                 ELSE IF r.adapter = "sql" THEN SqlFingerprint(r)
                 ELSE IF r.adapter = "grpc" THEN GrpcFingerprint(r)
                 ELSE FsFingerprint(r)]

-----------------------------------------------------------------------------
(***************************************************************************)
(* Reference: a request without what its adapter is documented to ignore.  *)
(* Two requests that differ in anything else are two interactions.         *)
(***************************************************************************)
Essence(r) ==
    IF r.adapter = "exec" THEN [r EXCEPT !.env = {}]
    ELSE IF r.adapter = "http" THEN [r EXCEPT !.url.host = "", !.headers = {}]
    ELSE IF r.adapter = "redis" THEN [r EXCEPT !.command.caps = TRUE]
    ELSE IF r.adapter = "sql" THEN [r EXCEPT !.query.blanks = 1, !.query.caps = FALSE]
    ELSE IF r.adapter = "fs"
    THEN [r EXCEPT !.path = Normalize(r.rules, @), !.dest = Normalize(r.rules, @),
                   !.rules = << >>]
    ELSE r

SameInteraction(q, r) == q.adapter = r.adapter /\ Essence(q) = Essence(r)
=============================================================================
