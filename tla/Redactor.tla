------------------------------ MODULE Redactor ------------------------------
(***************************************************************************)
(* What is masked before it is written: the Redactor of go/redact.go, and  *)
(* the scrubbing of arguments and of the values of environment variables   *)
(* in go/cmd/xrr/scrub.go.  Pure: operators only.                          *)
(*                                                                         *)
(* A field name is its words, upper case, and how they are joined.  A text *)
(* is a sequence of fragments: plain ones, ones that match a vendor's      *)
(* credential pattern, and placeholders.  A payload is a YAML tree, given  *)
(* by its leaves: a function from paths, which lead through the keys of    *)
(* mappings and the indices of sequences, to scalars.                      *)
(***************************************************************************)
EXTENDS Integers, Sequences, SequencesExt

Key(words) == [words |-> words, dashed |-> FALSE]

Header(words) == [words |-> words, dashed |-> TRUE]

NoKey == Key(<<"">>)

Plain(s) == [plain |-> s]

Vendor(s) == [vendor |-> s]

\* Placeholder: a text that depends on the name only.  normalizeDisplayKey
\* keeps the dashes.
Placeholder(name) == <<[redacted |-> name]>>

-----------------------------------------------------------------------------
secretKeyWords ==
    {"TOKEN", "SECRET", "PASSWORD", "PASSWD", "PASSPHRASE", "CREDENTIAL",
     "CREDENTIALS", "APIKEY", "KEY", "AUTH", "AUTHORIZATION", "COOKIE",
     "SESSION", "SIGNATURE", "PRIVATE", "ACCESS", "BEARER", "OTP"}

secretKeyExact ==
    {<<"AUTHORIZATION">>, <<"PROXY", "AUTHORIZATION">>, <<"COOKIE">>,
     <<"SET", "COOKIE">>, <<"AWS", "ACCESS", "KEY", "ID">>,
     <<"AWS", "SECRET", "ACCESS", "KEY">>, <<"AWS", "SESSION", "TOKEN">>}

secretKeyPrefixes == {"AWS"}

benignKeys ==
    {<<"XRR", "MODE">>, <<"XRR", "CASSETTE", "DIR">>,
     <<"XRR", "REDACT", "ALLOW">>, <<"XRR", "REDACT", "DENY">>,
     <<"XRR", "REDACT", "DISABLE">>, <<"AWS", "REGION">>,
     <<"AWS", "DEFAULT", "REGION">>, <<"AWS", "PROFILE">>,
     <<"SSH", "AUTH", "SOCK">>, <<"KEYBOARD", "LAYOUT">>, <<"ACCESS", "LOG">>,
     <<"ACCESS", "LOG", "FORMAT">>, <<"PRIVATE", "NETWORK">>,
     <<"SESSION", "MANAGER">>, <<"GPG", "TTY">>,
     <<"AUTHORIZED", "KEYS", "FILE">>}

\* The names an XRR_REDACT_* list or the tables are compared by.
NormalizeKey(name) == name.words

\* NewRedactor of RedactConfigFromEnv: a switch and two lists of names.
Truthy(s) == s \notin {"", "0", "false", "no"}

NewRedactor(disable, allow, deny) ==
    [disabled |-> Truthy(disable),
     allow |-> {NormalizeKey(allow[i]) : i \in DOMAIN allow},
     deny |-> {NormalizeKey(deny[i]) : i \in DOMAIN deny}]

IsSecretKey(r, name) ==
    LET n == NormalizeKey(name) IN
    /\ ~r.disabled
    /\ n \notin r.allow
    /\ \/ n \in r.deny
       \/ /\ n \notin benignKeys
          /\ \/ n \in secretKeyExact
             \/ Len(n) > 1 /\ n[1] \in secretKeyPrefixes
             \/ \E i \in DOMAIN n : n[i] \in secretKeyWords

IsSecretValue(r, text) ==
    ~r.disabled /\ \E i \in DOMAIN text : "vendor" \in DOMAIN text[i]

\* Is this field masked?
Redacts(r, name, text) ==
    /\ ~r.disabled /\ text # << >>
    /\ NormalizeKey(name) \notin r.allow
    /\ IsSecretKey(r, name) \/ IsSecretValue(r, text)

RedactField(r, name, text) ==
    IF Redacts(r, name, text) THEN Placeholder(name) ELSE text

-----------------------------------------------------------------------------
(***************************************************************************)
(* redactNode.                                                             *)
(***************************************************************************)
Str(text) == [tag |-> "str", text |-> text]

Number(n) == [tag |-> "int", int |-> n]

At(key) == [key |-> key]

Index(i) == [index |-> i]

IsKey(step) == "key" \in DOMAIN step

envelopeMetaKeys ==
    {Key(<<"XRR">>), Key(<<"ADAPTER">>), Key(<<"FINGERPRINT">>),
     Key(<<"RECORDED", "AT">>), Key(<<"ERROR">>)}

\* The key a node is reached under: elements of a sequence have that of the
\* sequence, the root has none.
KeyOf(path) ==
    LET i == SelectLastInSeq(path, IsKey) IN IF i = 0 THEN NoKey ELSE path[i].key

\* Is this leaf under envelope metadata: a key of that name whose mapping
\* was reached under no key, or under an empty one?
IsEnvelopeMeta(path) ==
    \E i \in DOMAIN path :
        /\ IsKey(path[i]) /\ path[i].key \in envelopeMetaKeys
        /\ KeyOf(SubSeq(path, 1, i - 1)) = NoKey

\* redactScalar: only strings are touched.
RedactScalar(r, key, scalar) ==
    IF scalar.tag # "str" THEN scalar ELSE Str(RedactField(r, key, scalar.text))

RedactNode(r, tree) ==
    [path \in DOMAIN tree |->
        IF IsEnvelopeMeta(path) THEN tree[path]
        ELSE RedactScalar(r, KeyOf(path), tree[path])]

-----------------------------------------------------------------------------
(***************************************************************************)
(* scrubArgv.  An argument is a word, a flag or an assignment; its text is *)
(* what follows the name.                                                  *)
(***************************************************************************)
Word(text) == [form |-> "word", dash |-> FALSE, name |-> NoKey, text |-> text]

Flag(name) == [form |-> "flag", dash |-> TRUE, name |-> name, text |-> << >>]

Assign(name, text, dash) ==
    [form |-> "assign", dash |-> dash, name |-> name, text |-> text]

\* What RedactField is given of an argument that follows a flag.
WholeText(arg) ==
    IF arg.form = "assign" THEN <<Plain("=")>> \o arg.text ELSE arg.text

\* Is argument i the value of the flag before it, masked with it?  Arguments
\* that begin with a dash are nobody's value.
ValueOfFlag(r, argv, i) ==
    /\ i > 2 /\ argv[i - 1].form = "flag" /\ ~argv[i].dash
    /\ Redacts(r, argv[i - 1].name, WholeText(argv[i]))

ScrubArgv(r, argv) ==
    [i \in DOMAIN argv |->
        IF i = 1 THEN argv[i]
        ELSE IF ValueOfFlag(r, argv, i) THEN Word(Placeholder(argv[i - 1].name))
        ELSE IF IsSecretValue(r, argv[i].text)
        THEN Word(Placeholder(Key(<<"ARGV">>)))
        ELSE IF argv[i].form = "assign"
        THEN [argv[i] EXCEPT !.text = RedactField(r, argv[i].name, @)]
        ELSE argv[i]]

-----------------------------------------------------------------------------
(***************************************************************************)
(* The values of environment variables.                                    *)
(***************************************************************************)
minSecretLen == 2   \* fragments; the code counts 8 bytes

Longer(x, y) == Len(x.value) > Len(y.value)

\* Mutant: the values are replaced in the order of the environment.
LongestFirstNot(secrets) == secrets

\* The stable sort at the end of collectEnvSecrets.
LongestFirst(secrets) ==
    LET rank(i) == Cardinality({j \in DOMAIN secrets :
                       \/ Longer(secrets[j], secrets[i])
                       \/ j <= i /\ ~Longer(secrets[i], secrets[j])})
    IN  [k \in DOMAIN secrets |->
            secrets[CHOOSE i \in DOMAIN secrets : rank(i) = k]]

\* The variables whose values are scrubbed.  The patterns of the two lists,
\* which may be globs, are given by the names they match.
CollectEnvSecrets(r, environ, deny, allow) ==
    LET secret(v) == /\ v.text # << >>
                     /\ \/ Contains(deny, v.name)
                        \/ /\ ~Contains(allow, v.name)
                           /\ Len(v.text) >= minSecretLen
                           /\ IsSecretKey(r, v.name)
        chosen == SelectSeq(environ, secret)
    IN  LongestFirst([i \in DOMAIN chosen |->
            [value |-> chosen[i].text, placeholder |-> Placeholder(chosen[i].name)]])

\* strings.ReplaceAll.
ReplaceEvery(text, value, by) ==
    LET n == Len(value)
        from[i \in 1 .. Len(text) + 1] ==
            IF i > Len(text) THEN << >>
            ELSE IF i + n <= Len(text) + 1 /\ SubSeq(text, i, i + n - 1) = value
            THEN by \o from[i + n]
            ELSE <<text[i]>> \o from[i + 1]
    IN  from[1]

\* envSecrets.scrub: every occurrence of every value.
Scrub(secrets, text) ==
    LET replace(t, s) == ReplaceEvery(t, s.value, s.placeholder)
    IN  FoldLeft(replace, text, secrets)

ScrubAll(secrets, argv) ==
    [i \in DOMAIN argv |-> [argv[i] EXCEPT !.text = Scrub(secrets, @)]]
=============================================================================
