---------------------------- MODULE SharedFiles ----------------------------
(***************************************************************************)
(* The files that commands share: several processes of `anchor --wait      *)
(* FILE`, `verify FILE.proof.json FILE` and `hash FILE` (src/src/main.rs,  *)
(* hash_file of src/src/hashing.rs, write_proof) run at the same time as   *)
(* programs that change FILE and the credentials file.                     *)
(*                                                                         *)
(* A path names an inode, and an open file keeps its inode whatever        *)
(* becomes of the path.  A file is a sequence of blocks; a read returns    *)
(* any number of them up to Chunk, and none at the end.  The hash of a     *)
(* file is the sequence of the blocks that were fed to the hasher.         *)
(***************************************************************************)
EXTENDS Credentials

CONSTANTS
  Anchors,   \* processes of `anchor --wait FILE`
  Verifies,  \* processes of `verify FILE.proof.json FILE`
  Hashes,    \* processes of `hash FILE`
  Size,      \* the length of the bundle of each process of Anchors
  Chunk,     \* how many blocks fit the buffer of hash_file
  Blocks,    \* what FILE is made of
  Contents,  \* what other programs can make of FILE
  Lines,     \* what they can make of a credentials file
  Casts      \* what is tried: [processes, settings, homes, contents, edits] are
             \* the processes that run, their flags and environment, the
             \* directories of credentials files, what FILE is at first, and
             \* bounds on the changes of [file, config] other programs make

Processes == Anchors \union Verifies \union Hashes
Killed == 137

ASSUME FilesAssumption ==
  /\ Chunk \in Nat \ {0}
  /\ Size \in [Anchors -> Nat \ {0}]
  /\ Contents \subseteq Seq(Blocks) \ {<<>>}
  /\ \A cast \in Casts : cast.contents \subseteq Seq(Blocks)
  /\ Unset \notin Processes /\ Unset \notin {0, 1, 2, Killed}
  /\ Anchors \intersect (Verifies \union Hashes) = {} /\ Verifies \intersect Hashes = {}

(* A line that names something gives it a value, be it the empty text.     *)
ASSUME LinesAssumption ==
  /\ Unset \notin {"api_key", "api_url"}
  /\ \A lines \in Lines :
       /\ DOMAIN lines \subseteq Nat
       /\ \A k \in DOMAIN lines : lines[k].name # Unset => lines[k].value # Unset

VARIABLES
  dir,       \* the inode of each path, 0 for none
  data,      \* the content of each inode
  config,    \* the lines of the credentials file in each directory
  edits,     \* how many changes other programs may still make
  pc,        \* where a process is, or "ended"
  setting,   \* its flags and environment
  fd,        \* the inode it has open
  got,       \* the blocks it has read from it, or written to it
  hash,      \* the hash it has computed
  bundle,    \* the proof it has read
  key, url,  \* the credentials it has resolved
  exit,      \* its exit code
  rewritten, \* inodes that were not only appended to (history)
  saver,     \* the last process to open the bundle for writing (history)
  clash,     \* whether a bundle was truncated under another process (history)
  were       \* the lines there have been in each directory (history)

fileVars == <<dir, data>>
processVars == <<pc, setting, fd, got, hash, bundle, key, url, exit>>
historyVars == <<rewritten, saver, clash, were>>
sharedVars == <<fileVars, config, edits, processVars, historyVars>>

Hole == [by |-> Unset, hash |-> <<>>, part |-> 0, last |-> FALSE]

(* A serialized bundle: the hash is in every part so that parts of two     *)
(* bundles can be told apart.                                              *)
BundleOf(p) ==
  [k \in 1 .. Size[p] |-> [by |-> p, hash |-> hash[p], part |-> k, last |-> k = Size[p]]]

(* What serde_json may take for a bundle: a beginning, a middle and an end *)
(* with nothing after it, be they of one bundle or not.                    *)
Parses(s) ==
  /\ s # <<>>
  /\ \A k \in DOMAIN s : s[k].part = k /\ (s[k].last <=> k = Len(s))

(* verify_proof accepts the parts of one bundle (ValidMeansAnchored of     *)
(* module VerifyBatch), for a file of that hash.                           *)
Accepts(s, h) == \A k \in DOMAIN s : s[k].by = s[1].by /\ s[k].hash = h

Memory(v, initial) == v = [p \in Processes |-> initial]

SharedInit ==
  /\ \E cast \in Casts :
       /\ pc = [p \in Processes |-> IF p \in cast.processes THEN "start" ELSE "ended"]
       /\ \E c \in cast.contents : data = <<c>>
       /\ \E s \in cast.settings : setting = [p \in Processes |-> s]
       /\ config \in [cast.homes -> Lines]
       /\ edits = cast.edits
  /\ dir = [file |-> 1, proof |-> 0]
  /\ fd = [p \in Processes |-> 0]
  /\ Memory(got, <<>>) /\ Memory(hash, <<>>) /\ Memory(bundle, <<>>)
  /\ Memory(key, Unset) /\ Memory(url, Unset) /\ Memory(exit, Unset)
  /\ rewritten = {} /\ saver = Unset /\ clash = FALSE
  /\ were = [d \in DOMAIN config |-> {config[d]}]

-----------------------------------------------------------------------------
(* Opening, reading and ending. *)

Goto(p, next) == pc' = [pc EXCEPT ![p] = next]

(* A process ends, and what it had in memory is gone.                     *)
Exit(p, code) ==
  /\ Goto(p, "ended")
  /\ exit' = [exit EXCEPT ![p] = code]
  /\ fd' = [fd EXCEPT ![p] = 0]
  /\ got' = [got EXCEPT ![p] = <<>>]
  /\ hash' = [hash EXCEPT ![p] = <<>>]
  /\ bundle' = [bundle EXCEPT ![p] = <<>>]
  /\ key' = [key EXCEPT ![p] = Unset]
  /\ url' = [url EXCEPT ![p] = Unset]
  /\ UNCHANGED <<fileVars, config, edits, setting, historyVars>>

Open(p, path, next) ==
  /\ dir[path] # 0
  /\ fd' = [fd EXCEPT ![p] = dir[path]]
  /\ got' = [got EXCEPT ![p] = <<>>]
  /\ Goto(p, next)
  /\ UNCHANGED <<fileVars, config, edits, setting, hash, bundle, key, url, exit, historyVars>>

(* verify reads the bundle before it hashes FILE.                          *)
OpenFile(p) ==
  \/ pc[p] = "start" /\ p \notin Verifies /\ Open(p, "file", "hash")
  \/ pc[p] = "parsed" /\ Open(p, "file", "hash")

OpenBundle(p) == pc[p] = "start" /\ p \in Verifies /\ Open(p, "proof", "read")

Reading(p) == pc[p] \in {"hash", "read"}

SourceByPath(p) == data[dir[IF pc[p] = "hash" THEN "file" ELSE "proof"]]
Source(p) == data[fd[p]]

Read(p) ==
  /\ Reading(p)
  /\ \E n \in 1 .. Chunk :
       /\ Len(got[p]) + n <= Len(Source(p))
       /\ got' = [got EXCEPT ![p] = @ \o SubSeq(Source(p), Len(@) + 1, Len(@) + n)]
  /\ UNCHANGED <<fileVars, config, edits, pc, setting, fd, hash, bundle, key, url, exit, historyVars>>

ShortReadEnds(p) == Len(got[p]) % Chunk # 0 \/ Len(got[p]) >= Len(Source(p))
AtSize(p) == Len(got[p]) = Len(Source(p))
AtEnd(p) == Len(got[p]) >= Len(Source(p))

HashEnds(p) ==
  /\ pc[p] = "hash" /\ AtEnd(p)
  /\ hash' = [hash EXCEPT ![p] = got[p]]
  /\ Goto(p, IF p \in Anchors THEN "key" ELSE IF p \in Verifies THEN "judge" ELSE "print")
  /\ UNCHANGED <<fileVars, config, edits, setting, fd, got, bundle, key, url, exit, historyVars>>

PrintHash(p) == pc[p] = "print" /\ Exit(p, 0)

Parse(p) ==
  /\ pc[p] = "read" /\ AtEnd(p) /\ Parses(got[p])
  /\ bundle' = [bundle EXCEPT ![p] = got[p]]
  /\ Goto(p, "parsed")
  /\ UNCHANGED <<fileVars, config, edits, setting, fd, got, hash, key, url, exit, historyVars>>

RejectBundle(p) == pc[p] = "read" /\ AtEnd(p) /\ ~Parses(got[p]) /\ Exit(p, 2)

Judge(p) == pc[p] = "judge" /\ Exit(p, IF Accepts(bundle[p], hash[p]) THEN 0 ELSE 1)

NoBundle(p) == pc[p] = "start" /\ p \in Verifies /\ dir.proof = 0 /\ Exit(p, 2)

(* A file cannot be opened, read, created or written; or the service does  *)
(* not give anchor its proof.                                              *)
Fail(p) == pc[p] \in {"start", "hash", "read", "parsed", "save", "write"} /\ Exit(p, 2)

(* Only then does a killed process leave anything behind.                  *)
Kill(p) == pc[p] = "write" /\ Exit(p, Killed)

-----------------------------------------------------------------------------
(* anchor: the credentials, each looked up in the file as it is then.      *)

ConfigLines(p) ==
  IF config_path(setting[p].env) \in DOMAIN config THEN config[config_path(setting[p].env)] ELSE <<>>

ResolveAnyKey(p) ==
  /\ pc[p] = "key"
  /\ key' = [key EXCEPT ![p] = resolve_api_key(setting[p].flags, setting[p].env, ConfigLines(p))]
  /\ Goto(p, "url")
  /\ UNCHANGED <<fileVars, config, edits, setting, fd, got, hash, bundle, url, exit, historyVars>>

ResolveKey(p) ==
  LET found == resolve_api_key(setting[p].flags, setting[p].env, ConfigLines(p))
  IN  /\ pc[p] = "key" /\ found # Unset
      /\ key' = [key EXCEPT ![p] = found]
      /\ Goto(p, "url")
      /\ UNCHANGED <<fileVars, config, edits, setting, fd, got, hash, bundle, url, exit, historyVars>>

NoKey(p) ==
  /\ pc[p] = "key"
  /\ resolve_api_key(setting[p].flags, setting[p].env, ConfigLines(p)) = Unset
  /\ Exit(p, 2)

ResolveUrl(p) ==
  /\ pc[p] = "url"
  /\ url' = [url EXCEPT ![p] = resolve_api_url(setting[p].flags, setting[p].env, ConfigLines(p))]
  /\ Goto(p, "save")
  /\ UNCHANGED <<fileVars, config, edits, setting, fd, got, hash, bundle, key, exit, historyVars>>

-----------------------------------------------------------------------------
(* anchor: the proof has arrived, and is written with fs::write. *)

(* Create, or truncate what is there.                                      *)
CreateOver(p) ==
  IF dir.proof = 0
  THEN /\ data' = Append(data, <<>>) /\ dir' = [dir EXCEPT !.proof = Len(data')]
  ELSE UNCHANGED <<data, dir>>

Create(p) ==
  IF dir.proof = 0
  THEN /\ data' = Append(data, <<>>) /\ dir' = [dir EXCEPT !.proof = Len(data')]
  ELSE /\ data' = [data EXCEPT ![dir.proof] = <<>>] /\ UNCHANGED dir

Busy(p) == pc[p] \in {"read", "write"}

StartSave(p) ==
  /\ pc[p] = "save"
  /\ Create(p)
  /\ fd' = [fd EXCEPT ![p] = dir'.proof]
  /\ got' = [got EXCEPT ![p] = <<>>]
  /\ saver' = p
  /\ clash' = (clash \/ \E q \in Processes : Busy(q))
  /\ Goto(p, "write")
  /\ UNCHANGED <<config, edits, setting, hash, bundle, key, url, exit, rewritten, were>>

(* A write goes where the last one of its process ended; what a truncation *)
(* has taken away before that reads as zeros.                              *)
WriteAt(s, k, block) ==
  [i \in 1 .. (IF Len(s) < k THEN k ELSE Len(s)) |->
     IF i = k THEN block ELSE IF i <= Len(s) THEN s[i] ELSE Hole]

Write(p) ==
  LET k == Len(got[p]) + 1
  IN  /\ pc[p] = "write" /\ k <= Size[p]
      /\ data' = [data EXCEPT ![fd[p]] = WriteAt(@, k, BundleOf(p)[k])]
      /\ got' = [got EXCEPT ![p] = Append(@, BundleOf(p)[k])]
      /\ UNCHANGED <<dir, config, edits, pc, setting, fd, hash, bundle, key, url, exit, historyVars>>

SaveEnds(p) == pc[p] = "write" /\ Len(got[p]) = Size[p] /\ Exit(p, 0)

-----------------------------------------------------------------------------
(* Other programs (external). *)

Edit(what) == edits[what] > 0 /\ edits' = [edits EXCEPT ![what] = @ - 1]

(* FILE is appended to, replaced by renaming another file over it, or      *)
(* written over.                                                           *)
AppendFile ==
  /\ Edit("file")
  /\ \E c \in Contents : data' = [data EXCEPT ![dir.file] = @ \o <<Head(c)>>]
  /\ UNCHANGED <<dir, config, processVars, historyVars>>

ReplaceFile ==
  /\ Edit("file")
  /\ \E c \in Contents : data' = Append(data, c)
  /\ dir' = [dir EXCEPT !.file = Len(data')]
  /\ UNCHANGED <<config, processVars, historyVars>>

RewriteFile ==
  /\ Edit("file")
  /\ \E c \in Contents : data' = [data EXCEPT ![dir.file] = c]
  /\ rewritten' = rewritten \union {dir.file}
  /\ UNCHANGED <<dir, config, processVars, saver, clash, were>>

(* The credentials file is replaced, or emptied before it is filled again. *)
EditConfig ==
  /\ Edit("config")
  /\ \E d \in DOMAIN config, lines \in Lines :
       /\ config' = [config EXCEPT ![d] = lines]
       /\ were' = [were EXCEPT ![d] = @ \union {lines}]
  /\ UNCHANGED <<fileVars, processVars, rewritten, saver, clash>>

-----------------------------------------------------------------------------

Step(p) ==
  \/ OpenFile(p) \/ OpenBundle(p) \/ NoBundle(p) \/ Read(p) \/ HashEnds(p) \/ PrintHash(p)
  \/ Parse(p) \/ RejectBundle(p) \/ Judge(p)
  \/ ResolveKey(p) \/ NoKey(p) \/ ResolveUrl(p)
  \/ StartSave(p) \/ Write(p) \/ SaveEnds(p)

SharedNext ==
  \/ \E p \in Processes : Step(p) \/ Fail(p) \/ Kill(p)
  \/ AppendFile \/ ReplaceFile \/ RewriteFile \/ EditConfig

(* A process that can go on does, the proof it waits for included (how     *)
(* waiting ends is in module Session).  Nothing has to fail or be edited.  *)
SharedSpec ==
  SharedInit /\ [][SharedNext]_sharedVars /\ \A p \in Processes : WF_sharedVars(Step(p))

-----------------------------------------------------------------------------
(* Properties. *)

(* Types; and a process that has a file open has an inode.                 *)
SharedTypeOK ==
  /\ dir.file \in 1 .. Len(data) /\ dir.proof \in 0 .. Len(data) /\ dir.file # dir.proof
  /\ pc \in [Processes -> {"start", "hash", "read", "parsed", "judge", "print", "key", "url",
                           "save", "write", "ended"}]
  /\ exit \in [Processes -> {Unset, 0, 1, 2, Killed}]
  /\ \A p \in Processes :
       /\ pc[p] \in {"hash", "read", "write"} => fd[p] \in 1 .. Len(data)
       /\ pc[p] = "write" => fd[p] = dir.proof
       /\ pc[p] \in {"url", "save", "write"} => key[p] # Unset

(* A hash is the hash of what FILE, or the file that FILE was when it was  *)
(* opened, holds when the reading ends: appending to it, and putting       *)
(* another file in its place, never give the hash of a file that never     *)
(* was.  Of a file that is written over meanwhile nothing is said.         *)
HashOfAFile ==
  [][\A p \in Processes :
       HashEnds(p) => hash'[p] = data[fd[p]] \/ fd[p] \in rewritten]_sharedVars

(* Exit code 0 of `anchor --wait` means that the bundle in the file is its *)
(* own and whole, until the file is opened for the next one, whatever      *)
(* became of earlier saves, and unless a save ran into another process.    *)
WholeOf(p, s) == Parses(s) /\ \A k \in DOMAIN s : s[k].by = p
SavedIsWhole ==
  \A p \in Anchors :
    saver = p /\ exit[p] = 0 /\ ~clash => WholeOf(p, data[dir.proof])

(* What verify says of a bundle that was saved beside it: "not a valid     *)
(* proof bundle" (2) only while a save is under way or after it was cut    *)
(* short, and "PROOF INVALID" (1) only of a bundle for another content of  *)
(* FILE; anything else takes a save that ran into another process.         *)
VerdictsEarned ==
  [][\A v \in Verifies :
       /\ RejectBundle(v) => clash \/ exit[saver] # 0
       /\ exit'[v] = 1 /\ exit[v] # 1 => clash \/ hash[v] # bundle[v][1].hash]_sharedVars

(* The versions that the file of a command's directory has had, and what   *)
(* their lines have named.                                                 *)
Versions(p) ==
  LET home == config_path(setting[p].env)
  IN  IF home \in DOMAIN were THEN were[home] ELSE {<<>>}
Named(name, lines) == {lines[k].value : k \in {i \in DOMAIN lines : lines[i].name = name}}
Said(p, name) == UNION {Named(name, lines) : lines \in Versions(p)}
Default(p) ==
  IF \E lines \in Versions(p) : Named("api_url", lines) = {} THEN {DefaultUrl} ELSE {}

Meant(flag, variable, others) ==
  IF {flag, variable} \subseteq {Unset, Empty} THEN others
  ELSE {IF flag \in {Unset, Empty} THEN variable ELSE flag}
MeantKeys(p) == Meant(setting[p].flags.key, setting[p].env.key, Said(p, "api_key"))
MeantUrls(p) == Meant(setting[p].flags.url, setting[p].env.url, Said(p, "api_url") \union Default(p))

(* The key and the endpoint a command goes to the service with: those of   *)
(* the command line, or else of the environment, whatever happens to the   *)
(* credentials files; or else what the file of its own directory has said, *)
(* be it empty, while the command ran.  The default endpoint takes a time  *)
(* when that file named none.                                              *)
SentWhereMeant ==
  \A p \in Anchors :
    pc[p] \in {"save", "write"} => key[p] \in MeantKeys(p) /\ url[p] \in MeantUrls(p)

(* Every command ends, as long as FILE does not grow for ever. *)
SharedEnds == \A p \in Processes : <>(pc[p] = "ended")

=============================================================================
