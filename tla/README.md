# A verification of trustbeat-cli

TLA+ specifications of the `trustbeat` command line client, the TLC runs that
check them on small instances, and the theorems about them that TLAPS checks for
every value of their constants. The reference is the Rust code of the repository
(`src/client.rs`, `src/main.rs`, `src/merkle.rs`, `src/rfc3161.rs`,
`src/verify.rs`, ...); paths below are relative to the repository's root.

1. [The system](#1-the-system)
2. [Modules and how they correspond to the code](#2-modules)
3. [Runs and their bounds](#3-runs)
4. [Time and fairness](#4-time-and-fairness)
5. [What is proved](#5-what-is-proved)
6. [Where the code and its documentation disagree](#6-disagreements)
7. [What is not modelled](#7-what-is-not-modelled)
8. [Plan](#8-plan)

## 1. The system

`trustbeat` timestamps documents. `anchor` hashes a file (or takes a hash),
submits the hash to the TrustBeat service and, with `--wait`, polls until the
service has put the hash in a Merkle tree and had the root of the tree
timestamped by an RFC 3161 authority; `proof` fetches the resulting bundle later;
`verify` checks a bundle with no network; `hash` prints the hash of a file. Each
command is one process with one thread. What makes it hard is what is around
it: a network that loses and delays, a service that rate-limits, signals and
full disks, files that other programs change or other commands write, and bundles
made of parts that come from several parties.

| component | state it keeps | operations | what makes it correct |
|---|---|---|---|
| one API call, `Client::send` (`client.rs`) | attempts so far, the last answer, the time | send, read an answer, give up, back off, send again | a retry only after a refusal; a bounded number of them; a bounded time; it returns |
| `anchor` and `proof` (`main.rs`, `Client::wait_for_proof`) | where the command is, the tracking id, what it has printed, the proof file | submit, poll, sleep, time out, write the proof, exit | one command never makes two jobs; what it says of the submission is and stays true; exit 0 can be relied on; an accepted id can be found again; an older proof file is not damaged by a failure to get a new one |
| the service (external) | jobs: unused, queued, anchored; requests still in flight | queue a hash, answer, refuse, anchor a batch | not this program's, but what the rest has to live with |
| Merkle inclusion (`merkle.rs`) | position in the path, the digest derived so far | hash the leaf, climb one step, compare | honest proofs pass; only members do; what cannot be checked is an error and not a "no" |
| RFC 3161 token (`rfc3161.rs`) | the stage of the inspection, the chosen certificate | parse, choose the signer, bind the content, check the signature | supported tokens pass, whatever their mixture of algorithms; "valid" means that this key signed this content |
| `verify` (`verify.rs`, `cmd_verify`) | the checks done so far | read, check the document, fold, inspect, compare the imprint, exit | the parts belong together; the exit code tells what happened |
| credentials (`config.rs`) | none | look up the key and the URL | precedence flag, environment, file; the key goes where the user meant it to go |
| hashing (`hashing.rs`) | a hasher, a position in the file | read a chunk, finish; normalise a hash | the hash is that of a file that existed; one text for one hash |
| conversions (`merkle.rs`, `hashing.rs`, `client.rs`, `verify.rs`, `rfc3161.rs`, `ui.rs`, `proof.rs`) | none | hex, URL escapes, base64, decimal, dates, bundles to and from JSON | each is the inverse of what the other side does |
| output (`ui.rs`) | whether colours are on | format | — |
| release (`.github/workflows/publish.yml`) | tags, published crate, binaries | check, build, publish, release | nothing is published unless everything built |

Interactions. `anchor` and `proof` call `send` for every request, and `send` calls
back into nothing: a command is suspended while its call runs. Commands share the
service's tables and the files on disk, and nothing else. A request outlives its
sender: a POST that timed out, or whose process was killed, may still be
processed later. `verify` reads the bundle once, then calls `verify_inclusion` and
`inspect` on parts of it; they share nothing, and the only thing that ties the
path, the root and the token together is the pair of comparisons with
`merkle_root`.

The hard behaviours, each with its line in the source and the properties that
would catch it, are listed as hazards in `PROJECT.json`: lost and late requests,
the nesting of the retry loop in the polling loop, the tracking id that lives only
in memory, the file that is truncated before it is written, a file that is read
while it is written, byte strings concatenated with no length check, a token of
another batch, the three algorithm slots of a token, and boundaries of numbers and
texts.

## 2. Modules

    ApiCall <---------- Session ---refines---> SubmitOnce
      ^                    ^
      MCApiCall            MCSession             Merkle <--- MerkleBinding
                                                   ^   ^        ^
                                                   |   |        MCMerkleBinding
      TimestampToken <--- TsaTokens                |   MerkleTree <--- MCMerkle
             ^                 ^                   |       ^
             |                 |                   |       |
             +------ VerifyProof ------------------+       |
                           ^                               |
                           VerifyBatch --------------------+
                               ^
                               MCVerifyBatch

      Credentials <--- SharedFiles <--- MCSharedFiles
      Conversions <--- MCConversions

(an arrow points at the module that is extended). The proofs are in modules that
extend the ones they are about: `ApiCallProofs`, `SessionProofs`, `SharedFilesProofs`,
`MerkleProofs` (of `Merkle`, `MerkleTree` and `MerkleBinding`), `VerifyProofs`, `TokenProofs`,
which extends it, `VerifyBatchProofs`, which extends all of the last three, and
`ConversionProofs`.

### ApiCall — `Client::send`, `handle`, `retry_after`

`phase` is where the one request is: in flight to the service, its answer in
flight back, slept for, or done. `attempt` is the loop counter of `send`, `clock`
the time since the `Instant::now()` of the command. `ReadRefusal` is the
arm of `send` for a 429, split by what it leads to: the panic of
`Duration::from_secs_f64`, `GiveUp` (budget spent or wait too long) and `BackOff`;
`Retry` is the end of the sleep. `ReadFinal` is `handle`. `Status` with any code
other than 401, 403 and 429 behaves the same, so 503 stands for all. The answer
of the service and the loss of either leg are external actions.

### Session — `cmd_anchor`, `cmd_proof`, `wait_for_proof`, `write_proof`

One command after another, up to `MaxRuns`, from a shell, against a service. `pc`
is the statement the command is at: `post` and `poll` are inside a call (whose
steps are those of `ApiCall`), `nap` is the `sleep(poll)` of `wait_for_proof`,
`write` and `writing` are before and inside `fs::write`. `args` is what the
control depends on: the subcommand, `--wait`, `--json` and whether there is a path
to write to. All that is printed is reduced to `shown`, the ids a user has seen,
and `report`, what the user was told of the submission: `Accepted` is the id,
`Verdict` what each `ApiError` text says — that the key or the rate limit
refused it, or nothing certain.

Around the commands: the service queues a hash and may still fail to say so
(`SubmissionQueued` with a 503 or a garbled body), requests may be abandoned in
flight (`orphans`) and arrive later (`OrphanQueued`) or never; `Kill` may end a
process at any step; a write may fail at its opening or after the truncation.

### SubmitOnce — the promise of a submission

The abstract specification: a run creates at most one job and ends with a
verdict that is true and stays true; "unknown" is the only verdict after which a
job may still appear. `Session` implements it under the mapping that
takes `jobs` to the jobs a command owns and `told` to `report`.

### Merkle — `verify_inclusion`, `derive_root`, `prefixes`, `constant_time_eq`

One action per step of the fold, in the order the code takes them: algorithm,
leaf, then for every step of the path the sibling's hex before the side, then the
root. A byte string is a sequence of blocks (a digest, a prefix byte) and SHA-256
is an injective constructor of blocks; `MerkleProofs` uses no more than that it
has no collisions. `hex_decode` is reduced to its three outcomes:
bytes, an error (`BadHex`) and the panic of slicing inside a character
(`SplitChar`).

`MerkleTree` adds what the service builds (external: RFC 6962 trees of any
batch, under both constructions, and the proof of each leaf), and what the fold
owes them. `MerkleBinding` runs two proofs of the same shape in step, to say what a
digest commits to.

The trees are built with the code's own `LeafOf` and `Parent`, so a prefix byte that both
sides got wrong alike would not show in a run: that the bytes are 0 and 1, as in RFC 6962, is
for a reader to compare, at the lines of `prefixes`. What the runs show is that the leaf and
the node prefix, the order of the two children and the shape of the path do what they are for.

A legacy root commits to less than an rfc6962 root: with no prefixes an inner node
of a tree is itself a leaf with a shorter path, so `OnlyMembersAccepted`
is stated of rfc6962 only. That is what the construction is, and
`src/proof.rs:55` and `src/merkle.rs` say why it is kept; it is also what a bundle without a
`merkle_algorithm` is taken for. `DigestBinds` holds of both, and `ValidMeansAnchored` says
what is left of membership under a legacy root (`Enters` of `VerifyBatch`): where a proof
can have entered the tree.

A digest is one block, which is enough although the code concatenates bytes: in `Parent` the
child is always a whole digest at one end of the string, so two such strings that are equal
can only be cut at the end of a digest. The one step whose child may have another length is
the first of a legacy path, where the child is the `hash` of the bundle itself; `Enters`
excepts it for every hash that is not one digest long.

### TimestampToken — `inspect`, `find_signer_cert`, `verify_signer`, `verify_ecdsa`, `verify_rsa`

A token is what its DER decodes to. A digest is a pair of an algorithm and the
data, a signature a triple of a scheme, a key and a digest; so a signature
verifies exactly when the code compares it under the right key, over the right
digest, of the right bytes. The order of the errors is the code's: a token
whose attributes do not bind the content is "invalid" before its signature
algorithm is looked at. `TsaTokens` adds the authorities (external): keys of each
kind, chains with the leaf anywhere in them or without the usage, every allowed
pair of digest and signature algorithm.

### VerifyProof — `cmd_verify`, `verify_proof`, `is_valid`

`stage` walks through the checks; `FoldStep` and `InspectStep` are the steps of
`Merkle` and `TimestampToken`, so that the whole of `verify` is one state machine
and the verdict is computed from theirs. `VerifyBatch` composes it with the
batches of `MerkleTree` and the tokens of `TsaTokens`: bundles as the service
hands them out, and bundles with the path of one batch, the root of another and
the token of a third. The promises about tokens (`SupportedIsValid`,
`ValidIsSigned`) are checked there, inside `verify`, since it is the only command
whose verdict rests on them.

`verify_proof` compares two pairs of hashes as texts: the file's with `hash`, and the
imprint's with `merkle_root`, each a text that the program has just written against one of the
bundle, ignoring case. The fold decodes the same two texts of the bundle. By
`HexMeansBytes` (module `Conversions`), texts that decode to the same bytes differ in case and
in plus signs only, so a bundle has a field `plus`: which of the two texts have a plus sign in
place of a zero. Such a text folds as the bytes it decodes to and equals no text of the program
(`eq_ignore_ascii_case`), so a bundle with one in `merkle_root` is never valid and one with
one in `hash` is valid only when no file is given. `ExitCodesApart` says so.

### Credentials — `config_path`, `read_config_value`, `resolve_api_key`, `resolve_api_url`

Operators on the flags, the environment and the lines of the credentials file. The
operators take the lines as they are when they are read: `read_config_value` opens
the file each time it is called. A file that cannot be read has no lines, as the error is
dropped there (`.ok()?`).

### SharedFiles — `hash_file`, `cmd_hash`, `cmd_verify`, `cmd_anchor`, `write_proof` as processes

Several commands at once, and other programs, on three files: `FILE`, its bundle and the
credentials file. A path (`dir`) names an inode, `data` is what the inodes hold, and an
open file (`fd`) keeps its inode, so that renaming another file over `FILE` and writing
over `FILE` are different things. `hash_file` is `OpenFile`, a `Read` of
one to `Chunk` blocks at a time, and `HashEnds` when a read returns nothing;
`fs::write` is `StartSave` (create or truncate), a `Write` per block and `SaveEnds`, and
`read_to_string` reads in the same way as `hash_file`. What `verify_proof`
says is taken from module `VerifyBatch`: it accepts one whole bundle for a file of
its hash (`Accepts`). The submission and the polls of `anchor`, which no file
depends on, are those of `Session` and are one step of time here.

External are the edits (append, replace, write over; a new credentials file)
and the kill of a process. A kill is modelled only while a bundle is written: at any
other point it leaves nothing behind that other processes could see.

### Conversions — `hex_decode`, `hex_encode`, `normalize_sha256_hex`, `urlencode`, `decode_base64`, `decode_token`, `int_to_decimal`, `format_unix_utc`, the serde attributes of `Proof`

Each is a function on sequences of characters (a character is the sequence of its
UTF-8 bytes, since `hex_decode` slices bytes and `trim` drops characters) or of numbers,
written the way the code computes it: `decode_base64` and `int_to_decimal` are folds with
the accumulators of the loops. The state is nothing but the input under trial, which
grows step by step; the properties compare the function with a definition of the
format that shares none of it. These are the conversions that the other
modules reduce to their outcomes: `BadHex` and `SplitChar` of `Merkle` are the `None` and
`Panics` of `hex_decode`, `NotBase64` of `VerifyProof` is the `None` of `decode_base64`, and
that hex texts of the same bytes differ in case and plus signs only (`HexMeansBytes`) is why
the bytes and `plus` are all that a bundle there needs.

An answer of the service becomes a `serde_json::Value` first, which keeps the last of several
members with one name (`into_json`), and then a `Proof`; a bundle that `verify` reads becomes
a `Proof` at once, where a second member is an error (`from_json`). What the URL
library does with a segment (`IsSegment`) is external: one that is a dot or two, escaped or
not, is resolved out of the path. `urlencode` leaves dots as they are, so the ids `.` and
`..` are the two that are not a segment, and `IdIsOneSegment` says exactly that.

## 3. Runs

Runs that pass:

| run | question | bounds and why they are enough |
|---|---|---|
| `ApiCall` | budget, time bound and return of one call, against a service that may answer anything | `MaxRetries` is the real one; headers below 0, at 0, at, above and far above the accepted wait, and none; latency and lateness of 0 or 1, so that both are felt |
| `SessionSubmit` | what submissions promise, with two commands, lost, late and duplicated requests, kills and torn writes | two commands are what it takes for a late request of one to arrive during or after another; three jobs leave one more than they may make; no time passes, as it is not what is asked |
| `SessionWait` | how long `--wait` lasts, and that commands end | a timeout of more than two polls, so that a poll may be the first, a middle and the last; a call may take 1 s, a sleep 1 s too long, a 429 up to 2 s |
| `MerkleTree` | which proofs pass, what is an error, what roots commit to | every leaf of batches of one to nine (the powers of two, one more and one less of each) under either construction, and re-declared under the other; every path of up to two steps of good, inner, over-wide, empty and malformed siblings against the roots of the batches of one to three, where honest paths are as long as that and two leaves have paths of different lengths |
| `MerkleBinding` | that digests commit to their inputs | every pair of proofs with up to two steps, with siblings of other widths, such as two digests or a bare prefix byte |
| `VerifyBatch` | what the exit code means, and which tokens are valid, and what a valid bundle says of its batch | batches of one to three; a root of one with the token of another, each authority having signed the roots of some batches only; a file that is in the batch, is not, is missing or cannot be read; a plus sign in `hash`, in `merkle_root` or in both; every way into a legacy tree that `Enters` names, at an inner node, inside two nodes and below a document. Five authorities with every digest and signature algorithm, every exchange of a part between two tokens, every part missing or broken; one authority never signed what the others did, so that a "valid" it should not get shows |
| `SharedFiles` | what commands at the same time do to each other, and edits to a command | four casts, one per kind of conflict: two savers of bundles of different lengths (so that one may stick out of the other) with a reader; a saver and a reader with two edits of the document (one before and one after the bundle was read); one hash under three edits in reads of one or two blocks; one command looking up its credentials in either directory, in every combination of empty, absent and given, under one edit between the two look-ups |
| `Conversions` | whether each conversion means what its format says | one character of every class that a conversion tells apart (for ids, the characters of an escaped dot among them), in texts of up to four (hex: two bytes, or a digest of one byte between white space) and five (base64: more than one group of four, and more bits than the accumulator of the run holds); numbers of up to ten bytes, beyond 64 bits, compared by their remainders by coprime moduli; every day from 1970 to 2405, more than the 400 years after which the calendar repeats; bundles of up to four members, so that a complete one, a doubled member and an unknown one occur |

`MCApiCall` ... `MCConversions` give the constants their values. Symmetry is used
once, for the tracking ids of `SessionSubmit`, which are interchangeable there and where no
liveness is checked. Deadlock is not checked because every one of these
systems stops: a call returns, a fold ends, a shell runs a bounded number of
commands. That they only stop where they should is what `CallReturns`,
`CommandEnds`, `VerifyEnds` (of which the fold is a part) and `SharedEnds` check.

What they show. `AtMostOncePerRun` is the comment on `MAX_RETRIES`, "a
retry can never anchor a hash twice", and holds because only a 429 is retried, and
a 429 is sent before a hash is queued (an assumption on the service, in
`SubmissionRefused`); mutating the retry to include 5xx breaks it at once.
`PromiseKept` adds that an error never says that a hash was refused
when it may yet be anchored. `SuccessIsDurable` ties exit 0 to the service's and the
disk's state. `AcceptedIdShown` holds with one exception that is part of its
statement: with `--wait --json` nothing is printed until the proof has been
written, so a failed poll, a failed write or a kill in between loses the id. The
documentation promises nothing there, so it is not listed as a disagreement.
`OnlyMembersAccepted`, `ConstructionsApart` and `MalformedIsError` say of rfc6962
what "inclusion" should mean. `SupportedIsValid` and `ValidIsSigned` are the two halves
of the token check, and `ValidMeansAnchored`, `HonestIsValid`, `ExitCodesApart` and
`ChecksMean` are the same for the whole of `verify`. `ValidMeansAnchored` has two
halves, because exit 0 of a legacy bundle, which is what one without a `merkle_algorithm` is,
says less of the document than exit 0 of an rfc6962 one: the hash may be an inner node of
the batch's tree.

`HashOfAFile` says that appending to a file, or replacing it, while it is being hashed
still gives the hash of something that existed; of a file written over in place it
says nothing, and nothing holds: the hash may be of a mixture that never was in the
file. `SavedIsWhole` and `VerdictsEarned` say the same of bundles: without a clash of
two commands on one bundle, exit 0 means that the bundle is whole, a torn one
is only ever seen while it is written or after a failure, and is then exit 2 and
never "PROOF INVALID". With a clash neither holds: two savers that overlap both exit 0
and may leave the end of the longer bundle after the shorter one (`clash` is the
history variable that excludes this, and TLC finds the mixture at once without it).
`SentWhereMeant` allows the key of one version of the credentials file to go with the
endpoint of another, because the file is read twice.
`HexMeansBytes` shows what the tests do not: `hex_decode` also takes a plus sign in place of
a leading zero, so more than one text stands for a hash. Wherever the user's text
comes in, `normalize_sha256_hex` excludes it (`NormalizedIsCanonical`); in a bundle, `verify`
fails the comparison of texts although the fold succeeds (`ExitCodesApart`).

Each property has a mutant: a plausible bug in one mapped definition (a retry on
5xx, an off-by-one in the budget, a timeout compared after the sleep, a prefix
left out, a comparison dropped) under which TLC finds it violated.

## 4. Time and fairness

Time is in whole seconds and passes only inside steps: a request takes at most
`MaxLatency`, a sleep of n lasts between n and n + `Slack`. `MaxLatency` stands for the
timeouts set in `Client::new`, 10 s to connect and 30 s for each read. These bound
each read, not the whole answer: a service that trickles one byte every 29 s would
not be cut off, so the time bounds hold of services that do not.

`ApiCall` and `Session` assume weak fairness of the client's own steps (a process
that can run does) and of the request being answered or timing out (the
agent's timeouts). Nothing is assumed of the service beyond that: it may answer
429 or "pending" forever, and never anchor anything. Nobody has to start a
command. `Merkle`, `TimestampToken` and `VerifyProof` are sequential
computations with weak fairness of their next step. `SharedFiles` assumes weak
fairness of each process by itself, as the operating system schedules them, and none of
edits, failures or kills; since edits are bounded, a file does not grow faster than it
is read for ever, which `SharedEnds` needs and which is a bound of the model, not of the
world. `Conversions` states no fairness, as it has no liveness property.

## 5. What is proved

For every value of the constants that meets the assumptions, and so for batches,
paths, chains, sessions and files of every length:

| theorem | module | statement |
|---|---|---|
| `CallTypes`, `CallEndsInTime` | `ApiCallProofs` | types, the retry budget, and `clock <= CallMax` |
| `SessionTypes`, `SessionInvariant` | `SessionProofs` | types and the inductive invariant of sessions |
| `NeverTwice` | `SessionProofs` | a command creates at most one job |
| `WaitEndsInTime` | `SessionProofs` | `--wait` ends within the timeout, one late wake-up and one call |
| `SubmissionsKeepPromise` | `SessionProofs` | `Session` implements `SubmitOnce` |
| `SuccessLasts` | `SessionProofs` | what exit 0 says of the service and of the disk is so |
| `IdsAreShown` | `SessionProofs` | the id of an accepted submission has been shown, but for `--wait --json` |
| `OldProofsAreKept` | `SessionProofs` | a proof file is left alone until a complete proof of an anchored hash has arrived |
| `MerkleTypes`, `MalformedNeverNo` | `MerkleProofs` | types of the fold; what cannot be checked is never a "no" |
| `DigestsBind` | `MerkleProofs` | equal digests of proofs of one shape have folded the same hash and siblings |
| `RootsCommit` | `MerkleProofs` | under an rfc6962 root only documents of the batch are accepted |
| `EveryLeafAccepted` | `MerkleProofs` | every honest proof is accepted, under either construction |
| `RedeclaredRefused` | `MerkleProofs` | an honest proof declared under the other construction is refused |
| `TokenTypes`, `SupportedTokensPass`, `ValidSignaturesSign` | `TokenProofs` | types of an inspection; supported tokens are valid; a valid one was signed by the key of its certificate |
| `VerifyTypes`, `ChecksAreMeant`, `ExitCodesTell` | `VerifyProofs` | types of `verify`; what each check and the exit code rest on, plus signs in the bundle's texts included |
| `ZeroMeansAnchored` | `VerifyBatchProofs` | every exit 0: the root is that of a batch, the authority of the token signed it, and a file that is given has the stated hash; an rfc6962 bundle and root: the hash is a document's; a legacy bundle and root: where the fold entered the tree, and no more |
| `HandedIsValid` | `VerifyBatchProofs` | what the service hands out is valid, for its own document and no other |
| `SharedTypes` | `SharedFilesProofs` | types of any number of commands on shared files |
| `HashesAreOfFiles` | `SharedFilesProofs` | a hash is of the whole of a file, however often it is appended to or replaced |
| `SavesAreWhole`, `VerdictsAreEarned` | `SharedFilesProofs` | a bundle saved last and alone is whole; `verify` says otherwise only for a reason |
| `CredentialsMeant` | `SharedFilesProofs` | the key and the endpoint come from where the user put them |
| `HexMeansItsBytes`, `NormalizedHashIsCanonical` | `ConversionProofs` | which texts are the same hash, and that a typed one comes out as one text, for texts of any length |
| `IdIsASegmentUnlessDots` | `ConversionProofs` | an id of any characters is read back, and is one segment of a URL exactly when it is not `.` or `..` |
| `Base64IsItsDigits` | `ConversionProofs` | `decode_base64` of a text of any length is the octets of its digits |
| `SerialIsExact`, `DecimalIsTheNumber` | `ConversionProofs` | a serial number of any length is written as exactly that number, without a leading zero |
| `DatesAreRight` | `ConversionProofs` | every day of every year from 1970 on, and its seconds, are printed as what they are |
| `BundlesRoundTrip` | `ConversionProofs` | a bundle of any members that the service hands out is read back as the one that was saved |

**The time of a call.** `CallTimeBound` is not inductive: a call that has slept
knows nothing of how long. `CallInv` adds `SpentSince(0)`, which charges every attempt
one latency, one wait and one slack, and `SleepAllowed`, that a sleep is only
entered within the budget and with an accepted wait.

**Sessions.** `SessionInv` has five parts. The types; `SleepAllowed` as
above; `SubmitInv`, which relates the service's tables to the requests in
flight; `TimeInv`, that every call starts by `Timeout + Slack`; and `OutcomeInv`. In
`SubmitInv`, `PostInv` carries the argument: as long as the request under way has not been
answered, or only with refusals, the command has no job and no orphan
(`NothingQueued`), and `VerdictInv` that a verdict of "refused" is only given in such a
state. The same invariant gives the refinement: `Queue` maps to `Create`, the ends of a
submission to `Tell`, everything else to a stutter. `OutcomeInv` follows a command to
its exit code: one that polls, sleeps or writes after `anchor` has a job of its own, the one it
follows, and has shown its id or was told not to (`RunningInv`); and an answer
that says "ready" is about an anchored job from the moment it is sent, so that a proof is
only written for one (`ReadyInv`). TLC checks the whole as an invariant of
`SessionSubmit`, too.

**Binding.** `DigestBinds` is itself nearly inductive, because two equal digests have
equal arguments; what has to be added is that what has been derived so far is one
block wide, and that widths agree on both sides, which is why the
missing length check of siblings does no harm (the child is always 32 bytes, so the
two byte strings can only be split in one way).

**Trees of every size.** `Nodes` and `PathsOf` are recursive over the ranges of a
batch, and `Split` over the numbers below its argument; `NodesExist`, `PathsExist` and
`HalvesExist` show that they are what their recursion says, and `SplitBounds` that both
parts of a range are shorter than it. Then

- `MembersInv`: whenever what the fold has derived is a node of a batch's tree, the
  hash it began with is a document below that node (`Beneath`). A step keeps it, since two
  nodes are equal only if their prefixes, and then both of their children, are. It
  says nothing of the path's length: that a short path to an inner node is
  refused, and that a long one through a leaf is, both come from the prefixes.
- `HonestInv`: a proof is `Derivable` when there is a sequence of digests that starts
  with its leaf, goes on by its steps and ends with its root; the fold is always
  somewhere on such a sequence. `HonestProofsDerive` shows by induction over ranges
  that the proofs of leaves are derivable.
- `CrossedInv`: the last digest of a fold is a leaf or a parent under the declared
  construction, and a root of the other construction is neither.

**Tokens.** `InspectInv` says what each stage of `inspect` has established, as
`CheckedInv` does of the fold. On top of it, `SupportedTokensPass` follows a token
issued by an authority through all checks: the certificate chosen by `find_signer_cert` is
the authority's own, wherever it is in the chain (`OwnIsChosen`). `ValidSignaturesSign` goes the
other way: a signature that verifies is one that some authority made, and then
equal digests make the attributes, and with them the content, the ones it signed.

**Verification.** `StageInv` says which checks are in `checks` at each stage and that
each is still the one the state would give now; `FoldInv` that "yes" is only
answered at the root. `BatchInv` joins the invariants of the fold and of the
inspection, which never disturb each other (`AnsweredInv`: both have answered by the time the
report is made). For an rfc6962 bundle and root, membership is `MembersInv`. For legacy ones
it is `LegacyInv`: what the fold holds is what the path derives so far (`Derived`), it is one
digest after the first step, and whenever it is a node of a batch's tree, the proof has entered
that tree (`Enters`). A step keeps it: if the parent is an inner node, the child, being a whole
digest at one end, is one of that node's children (`LegacyBranch`), so that the fold was in
the tree before, or has entered it now; if the parent is a document, it has entered there.
An authority signs a root and not the construction it was made with. A bundle that is declared
under the one and has a root of the other can come out at that root (an rfc6962 leaf is the
hash of a byte string, and so may a document of a legacy batch be), so
`ValidMeansAnchored` says nothing of its hash beyond what it says of all bundles.

**Shared files.** `SharedInv` is about all processes at once. `FilesInv`: the bundle's
inode never becomes `FILE`'s, and only it has parts of bundles in it. `ReadInv`: what a
process has read of a file is the beginning of what the file holds (`Begins`), unless the
inode was written over; reading on and appending both keep beginnings, and a
beginning that is no shorter than the file is the file. `SaveInv`: as long as nobody
has clashed, a process that writes is the last that opened the file, and the file
holds exactly what it has written. `EditedFile` is what the three edits have in common,
so that the invariant has to be shown once for them. `BundlesInv` rests on it and is about the
readers of the bundle: without a clash the parts in the file are all of one command with one
hash (`OfOne`), also after that command has ended and forgotten its hash, and a reader has a
beginning of them. `CredentialsInv` says that what was resolved was meant by the versions of
the credentials file so far, and `MeantStays` that more versions only ever add to it.

**Conversions.** The state of `Conversions` is an input, and `ConvInv` says no more than what
inputs are (and that `newYear` is `FirstDay` of `year`, in closed form); the work is in lemmas
about each function, for every sequence. `Conversions` writes the loops of the code with
`FlattenSeq` and `FoldLeft` of the community modules, which are defined by recursion over
sets and for which the proof library has no facts. `FlattenAppend`, and `FoldedBySets` with
a lemma for every step function (`ReadFold`, `DecodeFold`, `ShiftFold`, `AddFold`, `ModFold`),
show that they go one element at a time, and `SeqInduction`
then turns an invariant of a loop into a fact about all inputs:

- Hex. `PlacesExist` gives every character its place among the bytes of a text, so that a pair
  that is a number is known to be cut between two characters (`LowBytes`); then the pairs of
  a text are the pairs of its characters (`HexFacts`), and encoding what was decoded gives
  every character back but for case and plus signs (`DecodedText`).
- Ids. `Reads(s, w)`: the service has read exactly `w` from `s` and is not in the middle of an
  escape. It holds again after every character that `urlencode` writes. A segment of dots is
  read as one dot or two (`ReadsDots`), and an id of dots is written as it is (`DotsAreKept`), so
  those two ids, and no others, are resolved out of the path.
- Base64. `Holds(d, v)`: `out` is the octets of the sextets `v` so far, and the
  accumulator ends in the bits that are left over. Only the last 12 bits of the accumulator ever
  matter (`LowOctets`), which is why its overflow does no harm. `Agrees` adds the padding and
  the foreign bytes, after which nothing changes any more.
- Decimal. `Balanced`: the digits shifted so far and the carry, at its weight, are 256 times the
  digits read so far, and the byte. With the digits of the carry at the top (`CarryValue`), `AddByte`
  is "256 times the number, and the byte" (`AddValue`).
  The remainders in `DecimalAgrees` are only there because the numbers are too large for TLC;
  `SerialIsExact` is about the numbers.
- Dates. A day is taken apart into era, century, four years, year and day of the year, in which
  `YearOfEra` is linear (`DayInCenturies`); `DateOfDay` is then one piece of
  arithmetic on months that begin in March. `ClockOfSecond` holds of every day, also of those whose seconds
  are too many for TLC's integers, which `CalendarAgrees` leaves out.
- Bundles. `Holders` are the places of a field: at most one in a bundle that is accepted
  (`ReadBundle`), and exactly one in a bundle that is written unless the field is left out (`WrittenBundle`).
  What `into_json` keeps of members is again members (`KeptMembers`).

Assumptions. Those named in the modules (`RetryAssumption`, `ProofAssumption`,
`ChainAssumption` etc.: numbers, types, distinct tags, and what the service
and the authorities do by RFC 6962 and RFC 3161) are evaluated by TLC on every run. The rest are
hypotheses that the theorems name, because no finite instance can state them:

- `HashIdeal`: SHA-256 maps blocks to blocks and has no collisions. This needs
  infinitely many blocks, such as all terms built from documents by `Hash` and concatenation.
- `NoFixpoint`: no document hash of a batch is its own rfc6962 leaf hash. With no collisions alone
  this could happen, and a tree of one leaf would then be the same under both constructions.
- `ParsedIsApart`: a token, a signature and a digest are not one of the tags that stand for their
  absence. `SignaturesAreIssued`: a signature in a bundle is garbage or was made by the
  holder of its key, that is, appears in a token that was issued; bundles may put the
  parts of tokens together in any way.
- `JobIdAssumption`: `None` and the states of the file are no tracking ids.

- `ConversionAssumption` and `AlphabetAssumption` say what characters, bytes and members are and
  that `None` and `Panics` are no values; `WidthAssumption` that the accumulator of `decode_base64` has
  12 bits or more (in the code it has 32). They are evaluated by TLC.

Induction over numbers and sequences is done over a set (`SetInduction`, from the
well-foundedness of `<`, and `SeqInduction`), because the library's induction theorems take an
operator and cannot be instantiated.

Only model-checked: the liveness properties (`CallReturns`, `CommandEnds`,
`VerifyEnds`, `SharedEnds`), as liveness under fairness is not in the prover's reach. Every other
property of a passing run is stated by a theorem.

## 6. Disagreements

Each is a run of its own that TLC finds violated.

| run | what the code does | what is said of it |
|---|---|---|
| `ApiCallOverflow` | a `Retry-After` no `Duration` holds panics in `retry_after`, and the release build aborts | `src/client.rs:15`: a 429 asking for a longer wait "is reported at once" |
| `SessionPending` | `proof --wait` exits 2 when the anchor is still pending at the timeout | `README.md:122`: "Exits `3` when the anchor is still pending" |
| `VerifyUnsupported` | a token whose imprint names an unsupported hash algorithm is reported valid, as that algorithm is printed but never checked | `README.md:70` to `73` list what is supported, and say that anything unsupported "fails closed" and "is reported as an unsupported token" |
| `VerifyAborts` | a bundle whose hex has a multi-byte character aborts `verify` | `README.md:113`: exit codes 0, 1 and 2 |

Four more differences are not runs of their own; the first three are visible in the
properties that pass:

- `WaitTimeBound` is not `clock <= Timeout`: the deadline is looked at only between
  polls, and a rate-limited poll may itself wait up to two times 60 s.
- `TimeUp` adds the next sleep: `--wait` gives up as soon as the next poll would be too
  late, up to 15 s before the timeout that its message names.
- `SupportedIsValid` and `HonestIsValid` need `OneRsaDigest`: `verify_rsa` takes
  the digest of the SignerInfo and never looks at the signature algorithm, so
  an RSA token whose two slots differ is found invalid, while the slots of ECDSA
  tokens are independent, as `README.md:77` says of all.
- `verify_signer` chooses by the key alone (`rfc3161.rs:345` to `350`), so an
  RSA-PSS signature under an rsaEncryption key is tried as PKCS#1 v1.5 and reported as one that
  does not verify, where `README.md:71` and `73` would have it reported as unsupported. The model does the same
  (`UnsupportedIsReported` fails of it, too), but the trace of the run is of the imprint.

## 7. What is not modelled

- DER decoding, the parsing of JSON text, certificates, and the
  cryptography: `rfc3161.rs` and `client.rs` use external crates for them. A value decodes
  or it does not; what the attributes of `Proof` ask of serde is in `Conversions`.
- The days of `parse_generalized_time` are computed by the `der` crate; `Conversions`
  takes them from the Gregorian calendar.
- What is printed: `report_anchor`, `verify_json`, `print_outcome`, the texts of errors
  (`extract_message`), `short_subject`, colours and marks of `ui.rs`. They read state and
  change none. An exit code depends on them in one case: `println!` panics when standard output
  is closed, and the release build then aborts.
- How a file that is written over in place while it is hashed comes out, beyond the fact that it may
  be no version of it; and what two savers of one bundle that overlap leave, beyond the
  fact that it may be a mixture though both exit 0. The code does not try to prevent
  either, and no document promises anything.
- That the key and the endpoint come from one version of the credentials file, for the same
  reason.
- The release workflow, `.github/workflows/publish.yml`. It describes jobs to
  GitHub's scheduler; what happens after a failed or repeated job is decided there and at
  crates.io, whose rules are not in this repository, so a model would
  be of them and not of the code.
- The proof that `anchor --wait` and `proof` fetch is written with no comparison of its
  `hash` with the one submitted. The service of `Session` answers a poll with the
  job it asked for. That `verify FILE.proof.json FILE` tells such a bundle
  is `ChecksMean` and `ExitCodesApart`.

## 8. Plan

The order is by what matters most to a user: first that the submission and the
verification are right (done), then the small algorithms, then what is around.

Done: `ApiCall`, `SubmitOnce`, `Session`, `Merkle`, `MerkleTree`, `MerkleBinding`,
`TimestampToken`, `TsaTokens`, `VerifyProof`, `VerifyBatch`, `Credentials`, `SharedFiles`,
`Conversions`, with their runs, and the theorems above. What section 7 lists is left
out for good, with the reasons given there.

Every safety property that a run checks has its theorem. What could be added without changing
what is here: a theorem that `CommandEnds` and `SharedEnds` follow from fairness, when the
prover can reason about `ENABLED`; and the DER decoder of `rfc3161.rs`, if its crate were
part of this repository.
