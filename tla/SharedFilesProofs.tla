------------------------- MODULE SharedFilesProofs -------------------------
(***************************************************************************)
(* Proofs about commands on shared files, for any number of processes, any *)
(* contents and any number of edits.                                       *)
(***************************************************************************)
EXTENDS SharedFiles, SequenceTheorems, WellFoundedInduction, TLAPS

Part == [by : Anchors \union {Unset}, hash : Seq(Blocks), part : Nat, last : BOOLEAN]
Block == Blocks \union Part

Places == {"start", "hash", "read", "parsed", "judge", "print", "key", "url", "save", "write", "ended"}
Codes == {Unset, 0, 1, 2, Killed}

(* s is the beginning of t; and of the bundle that p writes. *)
Begins(s, t) == Len(s) <= Len(t) /\ \A k \in 1 .. Len(s) : s[k] = t[k]
OwnParts(p, s) ==
  /\ Len(s) <= Size[p]
  /\ \A k \in 1 .. Len(s) : s[k].by = p /\ s[k].part = k /\ s[k].last = (k = Size[p])

(* The bundle's file stays the same inode, and the only one with parts of *)
(* bundles in it.                                                          *)
FilesInv ==
  /\ dir \in [file : Nat, proof : Nat]
  /\ data \in Seq(Seq(Block))
  /\ dir.file \in 1 .. Len(data) /\ dir.proof \in 0 .. Len(data) /\ dir.file # dir.proof
  /\ \A i \in 1 .. Len(data) : i # dir.proof => data[i] \in Seq(Blocks)
  /\ pc \in [Processes -> Places] /\ exit \in [Processes -> Codes]
  /\ fd \in [Processes -> Nat] /\ got \in [Processes -> Seq(Block)]
  /\ hash \in [Processes -> Seq(Blocks)] /\ key = [p \in Processes |-> key[p]]
  /\ clash \in BOOLEAN

PlaceInv(p) ==
  /\ pc[p] \in {"key", "url", "save", "write"} => p \in Anchors
  /\ pc[p] \in {"judge", "read", "parsed"} => p \in Verifies
  /\ pc[p] = "print" => p \in Hashes
  /\ pc[p] \in {"url", "save", "write"} => key[p] # Unset
  /\ exit[p] # Unset => pc[p] = "ended"

(* What a process has read is the beginning of its file, unless the file   *)
(* was written over.                                                       *)
ReadInv(p) ==
  /\ pc[p] \in {"hash", "read"} => fd[p] \in 1 .. Len(data)
  /\ pc[p] = "hash" => /\ fd[p] # dir.proof /\ got[p] \in Seq(Blocks)
                       /\ fd[p] \in rewritten \/ Begins(got[p], data[fd[p]])

(* A process that writes alone has written what is in the file.            *)
SaveInv(p) ==
  /\ pc[p] = "write" => fd[p] = dir.proof /\ dir.proof # 0
  /\ pc[p] = "write" /\ ~clash => saver = p /\ data[dir.proof] = got[p] /\ OwnParts(p, got[p])
  /\ p \in Anchors /\ exit[p] = 0 => dir.proof # 0
  /\ p \in Anchors /\ saver = p /\ exit[p] = 0 /\ ~clash => WholeOf(p, data[dir.proof])

SharedInv == FilesInv /\ \A p \in Processes : PlaceInv(p) /\ ReadInv(p) /\ SaveInv(p)

-----------------------------------------------------------------------------
(* Sequences. *)

LEMMA FunctionIsSeq ==
  ASSUME NEW S, NEW n \in Nat, NEW f \in [1 .. n -> S]
  PROVE  f \in Seq(S) /\ Len(f) = n
  OBVIOUS

LEMMA EmptyFacts ==
  \A S : <<>> \in Seq(S) /\ Len(<<>>) = 0
  BY EmptySeq

LEMMA BeginsEmpty ==
  ASSUME NEW S, NEW t \in Seq(S)
  PROVE  Begins(<<>>, t)
  BY EmptyFacts, LenProperties DEF Begins

(* Reading on extends a beginning.                                         *)
LEMMA BeginsFurther ==
  ASSUME NEW S, NEW s \in Seq(S), NEW t \in Seq(S), NEW n \in Nat \ {0}, Len(s) + n <= Len(t)
  PROVE  LET u == s \o SubSeq(t, Len(s) + 1, Len(s) + n)
         IN  u \in Seq(S) /\ (Begins(s, t) => Begins(u, t))
<1> DEFINE tail == SubSeq(t, Len(s) + 1, Len(s) + n)
<1>1. Len(s) \in Nat /\ Len(t) \in Nat
  BY LenProperties
<1>2. \A i \in Len(s) + 1 .. Len(s) + n : t[i] \in S
  BY <1>1, ElementOfSeq
<1>3. /\ tail \in Seq(S) /\ Len(tail) = n
      /\ \A i \in 1 .. n : tail[i] = t[Len(s) + i]
  <2>1. /\ tail \in Seq(S)
        /\ Len(tail) = IF Len(s) + 1 <= Len(s) + n THEN Len(s) + n - (Len(s) + 1) + 1 ELSE 0
        /\ \A i \in 1 .. Len(s) + n - (Len(s) + 1) + 1 : tail[i] = t[Len(s) + 1 + i - 1]
    BY <1>1, <1>2, SubSeqProperties
  <2>2. QED
    BY <1>1, <2>1
<1> HIDE DEF tail
<1>4. /\ s \o tail \in Seq(S) /\ Len(s \o tail) = Len(s) + n
      /\ \A i \in 1 .. Len(s) + n : (s \o tail)[i] = IF i <= Len(s) THEN s[i] ELSE tail[i - Len(s)]
  BY <1>3, ConcatProperties
<1>5. Begins(s, t) => Begins(s \o tail, t)
  BY <1>1, <1>3, <1>4 DEF Begins
<1>6. QED
  BY <1>4, <1>5 DEF tail

(* A beginning that is no shorter is the whole.                            *)
LEMMA BeginsWhole ==
  ASSUME NEW S, NEW s \in Seq(S), NEW t \in Seq(S), Begins(s, t), Len(s) >= Len(t)
  PROVE  s = t
<1>1. Len(s) \in Nat /\ Len(t) \in Nat
  BY LenProperties
<1>2. Len(s) = Len(t) /\ \A k \in 1 .. Len(s) : s[k] = t[k]
  BY <1>1 DEF Begins
<1>3. QED
  BY <1>2, SeqEqual

LEMMA AppendFacts ==
  ASSUME NEW S, NEW s \in Seq(S), NEW x \in S
  PROVE  /\ Append(s, x) \in Seq(S) /\ Len(s) \in Nat /\ Len(Append(s, x)) = Len(s) + 1
         /\ \A i \in 1 .. Len(s) : Append(s, x)[i] = s[i]
         /\ Append(s, x)[Len(s) + 1] = x
  OBVIOUS

(* Appending to a file keeps its beginnings.                               *)
LEMMA BeginsLonger ==
  ASSUME NEW S, NEW s \in Seq(S), NEW t \in Seq(S), NEW x \in S, Begins(s, t)
  PROVE  t \o <<x>> \in Seq(S) /\ Begins(s, t \o <<x>>)
<1>1. Append(t, x) = t \o <<x>>
  OBVIOUS
<1>2. Len(s) \in Nat /\ Len(t) \in Nat
  BY LenProperties
<1>3. QED
  BY <1>1, <1>2, AppendFacts DEF Begins

LEMMA PlainIsBlock ==
  ASSUME NEW s \in Seq(Blocks)
  PROVE  s \in Seq(Block)
  BY SeqMonotonic DEF Block

LEMMA OwnPart ==
  ASSUME FilesInv, NEW p \in Anchors, NEW k \in 1 .. Size[p]
  PROVE  /\ BundleOf(p)[k] \in Block
         /\ BundleOf(p)[k].by = p /\ BundleOf(p)[k].part = k
         /\ BundleOf(p)[k].last = (k = Size[p])
<1>1. BundleOf(p)[k] = [by |-> p, hash |-> hash[p], part |-> k, last |-> k = Size[p]]
  BY DEF BundleOf
<1>2. hash[p] \in Seq(Blocks) /\ Size[p] \in Nat /\ k \in Nat
  BY FilesAssumption DEF FilesInv, Processes
<1>3. [by |-> p, hash |-> hash[p], part |-> k, last |-> k = Size[p]] \in Part
  BY <1>2 DEF Part
<1>4. BundleOf(p)[k] \in Block
  BY <1>1, <1>3 DEF Block
<1>5. QED
  BY <1>1, <1>4

LEMMA HoleIsBlock == Hole \in Block
  BY EmptyFacts DEF Hole, Block, Part

(* A write at the end appends, and one elsewhere makes a file of blocks.   *)
LEMMA WriteAtFacts ==
  ASSUME NEW s \in Seq(Block), NEW k \in Nat \ {0}, NEW b \in Block
  PROVE  /\ WriteAt(s, k, b) \in Seq(Block)
         /\ k = Len(s) + 1 => WriteAt(s, k, b) = Append(s, b)
<1> DEFINE n == IF Len(s) < k THEN k ELSE Len(s)
           w == WriteAt(s, k, b)
<1>1. Len(s) \in Nat /\ n \in Nat
  BY LenProperties
<1>2. \A i \in 1 .. Len(s) : s[i] \in Block
  BY ElementOfSeq
<1>3. w = [i \in 1 .. n |-> IF i = k THEN b ELSE IF i <= Len(s) THEN s[i] ELSE Hole]
  BY DEF WriteAt
<1>4. w \in [1 .. n -> Block]
  BY <1>1, <1>2, <1>3, HoleIsBlock
<1>5. w \in Seq(Block) /\ Len(w) = n
  BY <1>1, <1>4, FunctionIsSeq
<1>6. ASSUME k = Len(s) + 1 PROVE w = Append(s, b)
  <2>1. Len(w) = Len(Append(s, b)) /\ Append(s, b) \in Seq(Block)
    BY <1>1, <1>5, <1>6, AppendFacts
  <2>2. \A i \in 1 .. Len(w) : w[i] = Append(s, b)[i]
    BY <1>1, <1>3, <1>5, <1>6, AppendFacts
  <2>3. QED
    BY <1>5, <2>1, <2>2, SeqEqual
<1>7. QED
  BY <1>5, <1>6

(* A bundle that has been written to its end is whole.                     *)
LEMMA OwnPartsWhole ==
  ASSUME NEW p \in Anchors, NEW s \in Seq(Block), OwnParts(p, s), Len(s) = Size[p]
  PROVE  WholeOf(p, s)
<1>1. Size[p] \in Nat \ {0}
  BY FilesAssumption
<1>2. DOMAIN s = 1 .. Len(s) /\ s # <<>>
  BY <1>1, LenProperties, EmptyFacts
<1>3. QED
  BY <1>1, <1>2 DEF WholeOf, Parses, OwnParts

-----------------------------------------------------------------------------
(* The invariant holds at the start. *)

LEMMA InitInv == SharedInit => SharedInv
<1> SUFFICES ASSUME SharedInit PROVE SharedInv
  OBVIOUS
<1>1. PICK cast \in Casts :
        /\ pc = [p \in Processes |-> IF p \in cast.processes THEN "start" ELSE "ended"]
        /\ \E c \in cast.contents : data = <<c>>
  BY DEF SharedInit
<1>2. PICK c \in Seq(Blocks) : data = <<c>>
  BY <1>1, FilesAssumption
<1>3. /\ dir = [file |-> 1, proof |-> 0] /\ fd = [p \in Processes |-> 0]
      /\ got = [p \in Processes |-> <<>>] /\ hash = [p \in Processes |-> <<>>]
      /\ key = [p \in Processes |-> Unset] /\ exit = [p \in Processes |-> Unset]
      /\ clash = FALSE
  BY DEF SharedInit, Memory
<1>4. data \in Seq(Seq(Block)) /\ Len(data) = 1 /\ data[1] = c
  BY <1>2, PlainIsBlock
<1>5. FilesInv
  <2>1. /\ dir \in [file : Nat, proof : Nat] /\ dir.file = 1 /\ dir.proof = 0
        /\ \A i \in 1 .. Len(data) : data[i] \in Seq(Blocks)
    BY <1>3, <1>4
  <2>2. pc \in [Processes -> Places] /\ exit \in [Processes -> Codes]
    BY <1>1, <1>3 DEF Places, Codes
  <2>3. /\ fd \in [Processes -> Nat] /\ got \in [Processes -> Seq(Block)]
        /\ hash \in [Processes -> Seq(Blocks)]
    BY <1>3, EmptyFacts
  <2>4. key = [p \in Processes |-> key[p]] /\ clash \in BOOLEAN
    BY <1>3
  <2>5. QED
    BY <1>4, <2>1, <2>2, <2>3, <2>4 DEF FilesInv
<1>6. ASSUME NEW p \in Processes PROVE PlaceInv(p) /\ ReadInv(p) /\ SaveInv(p)
  <2>1. pc[p] \in {"start", "ended"} /\ exit[p] = Unset /\ Unset # 0
    BY <1>1, <1>3, FilesAssumption
  <2>2. QED
    BY <2>1 DEF PlaceInv, ReadInv, SaveInv
<1>7. QED
  BY <1>5, <1>6 DEF SharedInv

-----------------------------------------------------------------------------
(* Steps that leave the files alone. *)

FilesStay == UNCHANGED <<dir, data, rewritten, saver, clash>>
OthersStay(p) ==
  \A q \in Processes \ {p} :
    pc'[q] = pc[q] /\ fd'[q] = fd[q] /\ got'[q] = got[q] /\ exit'[q] = exit[q] /\ key'[q] = key[q]
ProcessTypes ==
  /\ pc \in [Processes -> Places] /\ exit \in [Processes -> Codes]
  /\ fd \in [Processes -> Nat] /\ got \in [Processes -> Seq(Block)]
  /\ hash \in [Processes -> Seq(Blocks)] /\ key = [p \in Processes |-> key[p]]

LEMMA OneProcess ==
  ASSUME SharedInv, NEW p \in Processes, FilesStay, OthersStay(p), ProcessTypes',
         PlaceInv(p)', ReadInv(p)', SaveInv(p)'
  PROVE  SharedInv'
<1>1. FilesInv'
  BY DEF SharedInv, FilesInv, FilesStay, ProcessTypes
<1>2. ASSUME NEW q \in Processes \ {p} PROVE PlaceInv(q)' /\ ReadInv(q)' /\ SaveInv(q)'
  <2>1. PlaceInv(q) /\ ReadInv(q) /\ SaveInv(q)
    BY DEF SharedInv
  <2>2. PlaceInv(q)'
    BY <2>1 DEF PlaceInv, OthersStay
  <2>3. ReadInv(q)'
    BY <2>1 DEF ReadInv, OthersStay, FilesStay
  <2>4. SaveInv(q)'
    BY <2>1 DEF SaveInv, OthersStay, FilesStay
  <2>5. QED
    BY <2>2, <2>3, <2>4
<1>3. QED
  BY <1>1, <1>2 DEF SharedInv

(* A process that ends owes nothing, but for a saved bundle.               *)
LEMMA ExitKeeps ==
  ASSUME SharedInv, NEW p \in Processes, NEW code \in {0, 1, 2, Killed}, Exit(p, code),
         code = 0 /\ p \in Anchors =>
           dir.proof # 0 /\ (saver = p /\ ~clash => WholeOf(p, data[dir.proof]))
  PROVE  SharedInv'
<1>1. FilesInv /\ PlaceInv(p)
  BY DEF SharedInv
<1>2. /\ pc' = [pc EXCEPT ![p] = "ended"] /\ exit' = [exit EXCEPT ![p] = code]
      /\ fd' = [fd EXCEPT ![p] = 0] /\ got' = [got EXCEPT ![p] = <<>>]
      /\ hash' = [hash EXCEPT ![p] = <<>>] /\ key' = [key EXCEPT ![p] = Unset]
      /\ UNCHANGED <<dir, data, rewritten, saver, clash>>
  BY DEF Exit, Goto, fileVars, historyVars
<1>3. FilesStay /\ OthersStay(p)
  BY <1>1, <1>2 DEF FilesStay, OthersStay, FilesInv
<1>4. ProcessTypes'
  BY <1>1, <1>2, EmptyFacts DEF ProcessTypes, FilesInv, Places, Codes
<1>5. pc'[p] = "ended" /\ exit'[p] = code
  BY <1>1, <1>2 DEF FilesInv
<1>6. PlaceInv(p)' /\ ReadInv(p)'
  BY <1>5 DEF PlaceInv, ReadInv
<1>7. SaveInv(p)'
  BY <1>2, <1>5 DEF SaveInv
<1>8. QED
  BY <1>3, <1>4, <1>6, <1>7, OneProcess

(* The ends of commands.  Only a writer may have saved a bundle.           *)
LEMMA EndsKeep ==
  ASSUME SharedInv, NEW p \in Processes,
         \/ PrintHash(p) \/ RejectBundle(p) \/ Judge(p) \/ NoBundle(p) \/ NoKey(p)
         \/ SaveEnds(p) \/ Fail(p) \/ Kill(p)
  PROVE  SharedInv'
<1>1. PlaceInv(p) /\ SaveInv(p) /\ FilesInv
  BY DEF SharedInv
<1>2. CASE RejectBundle(p) \/ NoBundle(p) \/ NoKey(p) \/ Fail(p)
  <2>1. Exit(p, 2)
    BY <1>2 DEF RejectBundle, NoBundle, NoKey, Fail
  <2>2. QED
    BY <2>1, ExitKeeps
<1>3. CASE Kill(p)
  <2>1. Exit(p, Killed) /\ Killed # 0
    BY <1>3 DEF Kill, Killed
  <2>2. QED
    BY <2>1, ExitKeeps
<1>4. CASE PrintHash(p)
  <2>1. Exit(p, 0) /\ p \notin Anchors
    BY <1>1, <1>4, FilesAssumption DEF PrintHash, PlaceInv
  <2>2. QED
    BY <2>1, ExitKeeps
<1>5. CASE Judge(p)
  <2>1. p \notin Anchors
    BY <1>1, <1>5, FilesAssumption DEF Judge, PlaceInv
  <2>2. PICK code \in {0, 1} : Exit(p, code)
    BY <1>5 DEF Judge
  <2>3. QED
    BY <2>1, <2>2, ExitKeeps
<1>6. CASE SaveEnds(p)
  <2>1. Exit(p, 0) /\ pc[p] = "write" /\ Len(got[p]) = Size[p] /\ p \in Anchors
    BY <1>1, <1>6 DEF SaveEnds, PlaceInv
  <2>2. dir.proof # 0
    BY <1>1, <2>1 DEF SaveInv
  <2>3. ASSUME saver = p, ~clash PROVE WholeOf(p, data[dir.proof])
    <3>1. data[dir.proof] = got[p] /\ OwnParts(p, got[p])
      BY <1>1, <2>1, <2>3 DEF SaveInv
    <3>2. got[p] \in Seq(Block)
      BY <1>1 DEF FilesInv
    <3>3. WholeOf(p, got[p])
      BY <2>1, <3>1, <3>2, OwnPartsWhole
    <3>4. QED
      BY <3>1, <3>3
  <2>4. QED
    BY <2>1, <2>2, <2>3, ExitKeeps
<1>7. QED
  BY <1>2, <1>3, <1>4, <1>5, <1>6

(* An open file is FILE's inode, or the bundle's for reading only.         *)
LEMMA OpenKeeps ==
  ASSUME SharedInv, NEW p \in Processes, OpenFile(p) \/ OpenBundle(p)
  PROVE  SharedInv'
<1>1. FilesInv /\ PlaceInv(p) /\ SaveInv(p)
  BY DEF SharedInv
<1>2. PICK path \in {"file", "proof"}, next \in {"hash", "read"} :
        /\ Open(p, path, next) /\ pc[p] \in {"start", "parsed"}
        /\ path = "file" <=> next = "hash"
        /\ next = "read" => p \in Verifies
  BY DEF OpenFile, OpenBundle
<1>3. /\ pc' = [pc EXCEPT ![p] = next] /\ fd' = [fd EXCEPT ![p] = dir[path]]
      /\ got' = [got EXCEPT ![p] = <<>>] /\ dir[path] # 0
      /\ UNCHANGED <<dir, data, hash, exit, key, rewritten, saver, clash>>
  BY <1>2 DEF Open, Goto, fileVars, historyVars
<1>4. FilesStay /\ OthersStay(p)
  BY <1>1, <1>3 DEF FilesStay, OthersStay, FilesInv
<1>5. dir[path] \in 1 .. Len(data) /\ dir[path] \in Nat
  BY <1>1, <1>3 DEF FilesInv
<1>6. ProcessTypes'
  <2>1. fd' \in [Processes -> Nat]
    BY <1>1, <1>3, <1>5 DEF FilesInv
  <2>2. QED
    BY <2>1, <1>1, <1>3, EmptyFacts DEF ProcessTypes, FilesInv, Places
<1>7. pc'[p] = next /\ fd'[p] = dir[path] /\ got'[p] = <<>>
  BY <1>1, <1>3, <1>5 DEF FilesInv
<1>8. exit[p] = Unset
  BY <1>1, <1>2 DEF PlaceInv
<1>9. PlaceInv(p)'
  BY <1>2, <1>3, <1>7, <1>8 DEF PlaceInv
<1>10. ReadInv(p)'
  <2>1. next = "hash" => dir[path] # dir.proof /\ data[dir[path]] \in Seq(Blocks)
    BY <1>1, <1>2, <1>5 DEF FilesInv
  <2>2. next = "hash" => Begins(<<>>, data[dir[path]])
    BY <2>1, BeginsEmpty
  <2>3. QED
    BY <1>3, <1>5, <1>7, <2>1, <2>2, EmptyFacts DEF ReadInv
<1>11. SaveInv(p)'
  BY <1>1, <1>3, <1>7, <1>8, FilesAssumption DEF SaveInv
<1>12. QED
  BY <1>4, <1>6, <1>9, <1>10, <1>11, OneProcess

LEMMA ReadKeeps ==
  ASSUME SharedInv, NEW p \in Processes, Read(p)
  PROVE  SharedInv'
<1>1. FilesInv /\ PlaceInv(p) /\ ReadInv(p) /\ SaveInv(p)
  BY DEF SharedInv
<1> DEFINE s == got[p]
           t == data[fd[p]]
<1>2. PICK n \in 1 .. Chunk :
        /\ Len(s) + n <= Len(t)
        /\ got' = [got EXCEPT ![p] = s \o SubSeq(t, Len(s) + 1, Len(s) + n)]
  BY DEF Read, Source
<1>3. /\ pc[p] \in {"hash", "read"}
      /\ UNCHANGED <<dir, data, pc, fd, hash, exit, key, rewritten, saver, clash>>
  BY DEF Read, Reading, fileVars, historyVars
<1>4. fd[p] \in 1 .. Len(data) /\ s \in Seq(Block) /\ t \in Seq(Block) /\ n \in Nat \ {0}
  BY <1>1, <1>3, FilesAssumption, ElementOfSeq DEF FilesInv, ReadInv
<1> DEFINE u == s \o SubSeq(t, Len(s) + 1, Len(s) + n)
<1>5. u \in Seq(Block) /\ (Begins(s, t) => Begins(u, t))
  BY <1>2, <1>4, BeginsFurther
<1>6. ASSUME pc[p] = "hash" PROVE u \in Seq(Blocks)
  <2>1. s \in Seq(Blocks) /\ t \in Seq(Blocks)
    BY <1>1, <1>4, <1>6 DEF ReadInv, FilesInv
  <2>2. QED
    BY <1>2, <1>4, <2>1, BeginsFurther
<1> HIDE DEF s, t, u
<1>7. got' = [got EXCEPT ![p] = u]
  BY <1>2 DEF u
<1>8. got'[p] = u /\ got' \in [Processes -> Seq(Block)]
  BY <1>1, <1>5, <1>7 DEF FilesInv
<1>9. FilesStay /\ OthersStay(p) /\ ProcessTypes'
  BY <1>1, <1>3, <1>7, <1>8 DEF FilesStay, OthersStay, ProcessTypes, FilesInv
<1>10. PlaceInv(p)'
  BY <1>1, <1>3 DEF PlaceInv
<1>11. ReadInv(p)'
  BY <1>1, <1>3, <1>5, <1>6, <1>8 DEF ReadInv, s, t
<1>12. SaveInv(p)'
  BY <1>1, <1>3 DEF SaveInv
<1>13. QED
  BY <1>9, <1>10, <1>11, <1>12, OneProcess

(* The hash of a file is all of it, unless it was written over.            *)
LEMMA HashedWhole ==
  ASSUME SharedInv, NEW p \in Processes, HashEnds(p)
  PROVE  got[p] \in Seq(Blocks) /\ (got[p] = data[fd[p]] \/ fd[p] \in rewritten)
<1>1. FilesInv /\ ReadInv(p) /\ pc[p] = "hash" /\ Len(got[p]) >= Len(data[fd[p]])
  BY DEF SharedInv, HashEnds, AtEnd, Source
<1>2. /\ got[p] \in Seq(Blocks) /\ data[fd[p]] \in Seq(Blocks)
      /\ fd[p] \in rewritten \/ Begins(got[p], data[fd[p]])
  BY <1>1 DEF FilesInv, ReadInv
<1>3. QED
  BY <1>1, <1>2, BeginsWhole

LEMMA MovesKeep ==
  ASSUME SharedInv, NEW p \in Processes,
         HashEnds(p) \/ Parse(p) \/ ResolveKey(p) \/ ResolveUrl(p)
  PROVE  SharedInv'
<1>1. FilesInv /\ PlaceInv(p) /\ SaveInv(p)
  BY DEF SharedInv
<1>2. /\ pc[p] \in {"hash", "read", "key", "url"}
      /\ UNCHANGED <<dir, data, fd, got, exit, rewritten, saver, clash>>
  BY DEF HashEnds, Parse, ResolveKey, ResolveUrl, fileVars, historyVars
<1>3. PICK next \in {"key", "judge", "print", "parsed", "url", "save"} :
        /\ pc' = [pc EXCEPT ![p] = next]
        /\ next \in {"key", "url", "save"} => p \in Anchors
        /\ next \in {"judge", "parsed"} => p \in Verifies
        /\ next = "print" => p \in Hashes
  <2>1. CASE HashEnds(p)
    BY <2>1 DEF HashEnds, Goto, Processes
  <2>2. CASE Parse(p)
    BY <1>1, <2>2 DEF Parse, Goto, PlaceInv
  <2>3. CASE ResolveKey(p)
    BY <1>1, <2>3 DEF ResolveKey, Goto, PlaceInv
  <2>4. CASE ResolveUrl(p)
    BY <1>1, <2>4 DEF ResolveUrl, Goto, PlaceInv
  <2>5. QED
    BY <2>1, <2>2, <2>3, <2>4
<1>4. pc'[p] = next /\ exit[p] = Unset
  BY <1>1, <1>2, <1>3 DEF FilesInv, PlaceInv
<1>5. hash' \in [Processes -> Seq(Blocks)]
  <2>1. CASE HashEnds(p)
    BY <1>1, <2>1, HashedWhole DEF HashEnds, FilesInv
  <2>2. CASE ~HashEnds(p)
    BY <1>1, <2>2 DEF Parse, ResolveKey, ResolveUrl, FilesInv
  <2>3. QED
    BY <2>1, <2>2
<1>6. /\ key' = [q \in Processes |-> key'[q]]
      /\ \A q \in Processes \ {p} : key'[q] = key[q]
      /\ next \in {"url", "save"} => key'[p] # Unset
  <2>1. CASE ResolveKey(p)
    BY <1>1, <2>1 DEF ResolveKey, FilesInv
  <2>2. CASE ResolveUrl(p)
    BY <1>1, <2>2 DEF ResolveUrl, FilesInv, PlaceInv
  <2>3. CASE HashEnds(p) \/ Parse(p)
    <3>1. key' = key /\ next \notin {"url", "save"}
      BY <1>1, <1>4, <2>3 DEF HashEnds, Parse, Goto, FilesInv
    <3>2. QED
      BY <1>1, <3>1 DEF FilesInv
  <2>4. QED
    BY <2>1, <2>2, <2>3
<1>7. FilesStay /\ OthersStay(p)
  BY <1>1, <1>2, <1>3, <1>6 DEF FilesStay, OthersStay, FilesInv
<1>8. ProcessTypes'
  BY <1>1, <1>2, <1>3, <1>5, <1>6 DEF ProcessTypes, FilesInv, Places
<1>9. PlaceInv(p)'
  BY <1>2, <1>3, <1>4, <1>6 DEF PlaceInv
<1>10. ReadInv(p)' /\ SaveInv(p)'
  BY <1>1, <1>2, <1>4, FilesAssumption DEF ReadInv, SaveInv
<1>11. QED
  BY <1>7, <1>8, <1>9, <1>10, OneProcess

-----------------------------------------------------------------------------
(* Saving a bundle. *)

(* The bundle's inode is emptied, or made; nothing else is touched.        *)
LEMMA CreateFacts ==
  ASSUME FilesInv, NEW p \in Processes, Create(p)
  PROVE  /\ dir' \in [file : Nat, proof : Nat] /\ dir'.file = dir.file
         /\ data' \in Seq(Seq(Block)) /\ Len(data) <= Len(data')
         /\ dir'.proof \in 1 .. Len(data') /\ data'[dir'.proof] = <<>>
         /\ dir'.proof # dir.file
         /\ \A i \in 1 .. Len(data') : i # dir'.proof =>
              i \in 1 .. Len(data) /\ i # dir.proof /\ data'[i] = data[i]
         /\ \A i \in 1 .. Len(data) : i # dir.proof => i # dir'.proof
<1>1. Len(data) \in Nat /\ <<>> \in Seq(Block)
  BY EmptyFacts DEF FilesInv
<1>2. CASE dir.proof = 0
  <2>1. data' = Append(data, <<>>) /\ dir' = [dir EXCEPT !.proof = Len(data')]
    BY <1>2 DEF Create
  <2>2. /\ data' \in Seq(Seq(Block)) /\ Len(data') = Len(data) + 1
        /\ \A i \in 1 .. Len(data) : data'[i] = data[i]
        /\ data'[Len(data) + 1] = <<>>
    BY <1>1, <2>1, AppendFacts DEF FilesInv
  <2>3. /\ dir' \in [file : Nat, proof : Nat] /\ dir'.file = dir.file
        /\ dir'.proof = Len(data) + 1
    <3>1. dir \in [file : Nat, proof : Nat] /\ Len(data) + 1 \in Nat
      BY <1>1 DEF FilesInv
    <3>2. dir' = [dir EXCEPT !.proof = Len(data) + 1]
      BY <2>1, <2>2
    <3>3. QED
      BY <3>1, <3>2
  <2>4. dir.file \in 1 .. Len(data) /\ \A i \in 1 .. Len(data') : i \in 1 .. Len(data) \/ i = Len(data) + 1
    <3>1. dir.file \in 1 .. Len(data)
      BY DEF FilesInv
    <3>2. ASSUME NEW i \in 1 .. Len(data') PROVE i \in 1 .. Len(data) \/ i = Len(data) + 1
      BY <1>1, <2>2
    <3>3. QED
      BY <3>1, <3>2
  <2>5. data'[dir'.proof] = <<>> /\ dir'.proof \in 1 .. Len(data') /\ Len(data) <= Len(data')
    BY <1>1, <2>2, <2>3
  <2>6. \A i \in 1 .. Len(data) : i # dir'.proof /\ i # dir.proof /\ data'[i] = data[i]
    BY <1>1, <1>2, <2>2, <2>3
  <2>7. QED
    BY <2>2, <2>3, <2>4, <2>5, <2>6
<1>3. CASE dir.proof # 0
  <2>1. data' = [data EXCEPT ![dir.proof] = <<>>] /\ dir' = dir
    BY <1>3 DEF Create
  <2>2. dir.proof \in 1 .. Len(data)
    BY <1>1, <1>3 DEF FilesInv
  <2>3. /\ data' \in Seq(Seq(Block)) /\ Len(data') = Len(data)
        /\ \A i \in 1 .. Len(data) : data'[i] = IF i = dir.proof THEN <<>> ELSE data[i]
    BY <1>1, <2>1, <2>2, ExceptSeq DEF FilesInv
  <2>4. QED
    BY <1>1, <2>1, <2>2, <2>3 DEF FilesInv
<1>4. QED
  BY <1>2, <1>3

LEMMA StartSaveKeeps ==
  ASSUME SharedInv, NEW p \in Processes, StartSave(p)
  PROVE  SharedInv'
<1>1. FilesInv /\ PlaceInv(p) /\ pc[p] = "save" /\ Create(p)
  BY DEF SharedInv, StartSave
<1>2. /\ pc' = [pc EXCEPT ![p] = "write"] /\ fd' = [fd EXCEPT ![p] = dir'.proof]
      /\ got' = [got EXCEPT ![p] = <<>>] /\ saver' = p
      /\ clash' = (clash \/ \E q \in Processes : Busy(q))
      /\ UNCHANGED <<hash, exit, key, rewritten>>
  BY DEF StartSave, Goto
<1>3. p \in Anchors /\ key[p] # Unset /\ exit[p] = Unset
  BY <1>1 DEF PlaceInv
<1>4. FilesInv'
  <2>1. ProcessTypes'
    BY <1>1, <1>2, CreateFacts, EmptyFacts DEF ProcessTypes, FilesInv, Places
  <2>2. clash' \in BOOLEAN
    BY <1>1, <1>2 DEF FilesInv
  <2>3. \A i \in 1 .. Len(data') : i # dir'.proof => data'[i] \in Seq(Blocks)
    BY <1>1, CreateFacts DEF FilesInv
  <2>5. Len(data) \in Nat /\ Len(data') \in Nat
    BY <1>1, CreateFacts, LenProperties DEF FilesInv
  <2>6. dir'.file \in 1 .. Len(data') /\ dir'.proof \in 0 .. Len(data')
    <3>1. /\ dir.file \in 1 .. Len(data) /\ dir'.file = dir.file
          /\ dir'.proof \in 1 .. Len(data') /\ Len(data) <= Len(data')
      BY <1>1, CreateFacts DEF FilesInv
    <3>2. QED
      BY <2>5, <3>1
  <2>4. QED
    BY <1>1, CreateFacts, <2>1, <2>2, <2>3, <2>6 DEF ProcessTypes, FilesInv
<1>5. ASSUME NEW q \in Processes PROVE PlaceInv(q)' /\ ReadInv(q)' /\ SaveInv(q)'
  <2>1. PlaceInv(q) /\ ReadInv(q) /\ SaveInv(q)
    BY DEF SharedInv
  <2>2. CASE q = p
    <3>1. pc'[q] = "write" /\ fd'[q] = dir'.proof /\ got'[q] = <<>>
      BY <1>1, <1>2, <2>2 DEF FilesInv
    <3>2. OwnParts(q, <<>>)
      BY <1>3, <2>2, EmptyFacts, FilesAssumption DEF OwnParts
    <3>3. dir'.proof # 0 /\ data'[dir'.proof] = <<>>
      BY <1>1, CreateFacts
    <3>4. exit'[q] # 0
      BY <1>2, <1>3, <2>2, FilesAssumption
    <3>5. QED
      BY <1>2, <1>3, <2>2, <3>1, <3>2, <3>3, <3>4 DEF PlaceInv, ReadInv, SaveInv
  <2>3. CASE q # p
    <3>1. pc'[q] = pc[q] /\ fd'[q] = fd[q] /\ got'[q] = got[q] /\ exit'[q] = exit[q] /\ key'[q] = key[q]
      BY <1>1, <1>2, <2>3 DEF FilesInv
    <3>2. PlaceInv(q)'
      BY <2>1, <3>1 DEF PlaceInv
    <3>3. ReadInv(q)'
      <4>1. ASSUME pc[q] = "hash"
            PROVE  fd[q] # dir'.proof /\ data'[fd[q]] = data[fd[q]]
        <5>1. fd[q] \in 1 .. Len(data) /\ fd[q] # dir.proof
          BY <2>1, <4>1 DEF ReadInv
        <5>2. /\ Len(data) \in Nat /\ Len(data') \in Nat /\ Len(data) <= Len(data')
              /\ fd[q] # dir'.proof
          BY <1>1, <5>1, CreateFacts, LenProperties DEF FilesInv
        <5>3. fd[q] \in 1 .. Len(data')
          BY <5>1, <5>2
        <5>4. QED
          BY <1>1, <5>2, <5>3, CreateFacts
      <4>2. pc[q] \in {"hash", "read"} => fd[q] \in 1 .. Len(data')
        <5>1. Len(data) \in Nat /\ Len(data') \in Nat /\ Len(data) <= Len(data')
          BY <1>1, CreateFacts, LenProperties DEF FilesInv
        <5>2. QED
          BY <2>1, <5>1 DEF ReadInv
      <4>3. QED
        BY <1>2, <2>1, <3>1, <4>1, <4>2 DEF ReadInv
    <3>4. SaveInv(q)'
      <4>1. pc[q] = "write" => clash' /\ fd[q] = dir'.proof
        BY <1>1, <1>2, <2>1 DEF SaveInv, Busy, Create
      <4>2. saver' # q /\ dir'.proof # 0
        BY <1>1, <1>2, <2>3, CreateFacts
      <4>3. QED
        BY <3>1, <4>1, <4>2 DEF SaveInv
    <3>5. QED
      BY <3>2, <3>3, <3>4
  <2>4. QED
    BY <2>2, <2>3
<1>6. QED
  BY <1>4, <1>5 DEF SharedInv

LEMMA WriteKeeps ==
  ASSUME SharedInv, NEW p \in Processes, Write(p)
  PROVE  SharedInv'
<1> DEFINE s == got[p]
           k == Len(s) + 1
           b == BundleOf(p)[k]
           old == data[dir.proof]
           new == WriteAt(old, k, b)
<1>1. FilesInv /\ PlaceInv(p) /\ SaveInv(p) /\ pc[p] = "write" /\ k <= Size[p]
  BY DEF SharedInv, Write
<1>2. p \in Anchors /\ exit[p] = Unset /\ fd[p] = dir.proof /\ dir.proof \in 1 .. Len(data)
  BY <1>1 DEF PlaceInv, SaveInv, FilesInv
<1>3. /\ data' = [data EXCEPT ![dir.proof] = new] /\ got' = [got EXCEPT ![p] = Append(s, b)]
      /\ UNCHANGED <<dir, pc, fd, hash, exit, key, rewritten, saver, clash>>
  BY <1>2 DEF Write, historyVars
<1>4. s \in Seq(Block) /\ old \in Seq(Block) /\ Len(s) \in Nat /\ k \in Nat \ {0}
  BY <1>1, <1>2, ElementOfSeq, LenProperties DEF FilesInv
<1>5. b \in Block /\ b.by = p /\ b.part = k /\ b.last = (k = Size[p])
  <2>1. Size[p] \in Nat /\ k \in 1 .. Size[p]
    BY <1>1, <1>2, <1>4, FilesAssumption
  <2>2. QED
    BY <1>1, <1>2, <2>1, OwnPart
<1> HIDE DEF b
<1>6. new \in Seq(Block) /\ (k = Len(old) + 1 => new = Append(old, b))
  BY <1>4, <1>5, WriteAtFacts
<1>7. /\ Append(s, b) \in Seq(Block) /\ Len(Append(s, b)) = k /\ Append(s, b)[k] = b
      /\ \A i \in 1 .. Len(s) : Append(s, b)[i] = s[i]
  BY <1>4, <1>5, AppendFacts
<1> HIDE DEF new
<1>8. /\ data' \in Seq(Seq(Block)) /\ Len(data') = Len(data)
      /\ \A i \in 1 .. Len(data) : data'[i] = IF i = dir.proof THEN new ELSE data[i]
  BY <1>1, <1>2, <1>3, <1>6, ExceptSeq DEF FilesInv
<1>9. got' \in [Processes -> Seq(Block)] /\ got'[p] = Append(s, b)
  BY <1>1, <1>3, <1>7 DEF FilesInv
<1>10. FilesInv'
  BY <1>1, <1>3, <1>8, <1>9 DEF FilesInv
<1>11. ASSUME ~clash
       PROVE  saver = p /\ data'[dir.proof] = Append(s, b) /\ OwnParts(p, Append(s, b))
  <2>1. saver = p /\ old = s /\ OwnParts(p, s)
    BY <1>1, <1>11 DEF SaveInv
  <2>2. data'[dir.proof] = Append(s, b)
    BY <1>2, <1>6, <1>8, <2>1
  <2>3. ASSUME NEW i \in 1 .. k
        PROVE  /\ Append(s, b)[i].by = p /\ Append(s, b)[i].part = i
               /\ Append(s, b)[i].last = (i = Size[p])
    <3>1. CASE i = k
      BY <1>5, <1>7, <3>1
    <3>2. CASE i # k
      <4>1. i \in 1 .. Len(s)
        BY <1>4, <3>2
      <4>2. QED
        BY <1>7, <2>1, <4>1 DEF OwnParts
    <3>3. QED
      BY <3>1, <3>2
  <2>4. QED
    BY <1>1, <1>7, <2>1, <2>2, <2>3 DEF OwnParts
<1> HIDE DEF s, k, old
<1>12. ASSUME NEW q \in Processes PROVE PlaceInv(q)' /\ ReadInv(q)' /\ SaveInv(q)'
  <2>1. PlaceInv(q) /\ ReadInv(q) /\ SaveInv(q)
    BY DEF SharedInv
  <2>2. PlaceInv(q)'
    BY <1>3, <2>1 DEF PlaceInv
  <2>3. ReadInv(q)'
    <3>1. pc[q] = "hash" => q # p /\ data'[fd[q]] = data[fd[q]]
      BY <1>1, <1>8, <2>1 DEF ReadInv
    <3>2. q # p => got'[q] = got[q]
      BY <1>1, <1>3 DEF FilesInv
    <3>3. QED
      BY <1>3, <1>8, <2>1, <3>1, <3>2 DEF ReadInv
  <2>4. CASE q = p
    <3>1. SaveInv(p)'
      BY <1>1, <1>2, <1>3, <1>9, <1>11, FilesAssumption DEF SaveInv
    <3>2. QED
      BY <2>2, <2>3, <2>4, <3>1
  <2>5. CASE q # p
    <3>1. got'[q] = got[q]
      BY <1>1, <1>3, <2>5 DEF FilesInv
    <3>2. ~clash => saver # q
      BY <1>11, <2>5
    <3>3. SaveInv(q)'
      BY <1>3, <2>1, <3>1, <3>2 DEF SaveInv
    <3>4. QED
      BY <2>2, <2>3, <3>3
  <2>6. QED
    BY <2>4, <2>5
<1>13. QED
  BY <1>10, <1>12 DEF SharedInv

-----------------------------------------------------------------------------
(* Other programs. *)

(* What an edit may do: FILE is another inode, or the same one, longer or  *)
(* marked as rewritten; the bundle and all processes are as they were.     *)
EditedFile ==
  /\ UNCHANGED <<processVars, saver, clash>>
  /\ dir' \in [file : Nat, proof : Nat] /\ dir'.proof = dir.proof
  /\ dir'.file \in 1 .. Len(data') /\ dir'.file # dir.proof
  /\ data' \in Seq(Seq(Block)) /\ Len(data) <= Len(data')
  /\ \A i \in 1 .. Len(data') : i # dir.proof => data'[i] \in Seq(Blocks)
  /\ rewritten \subseteq rewritten'
  /\ dir.proof # 0 => data'[dir.proof] = data[dir.proof]
  /\ \A i \in 1 .. Len(data) :
       \A s \in Seq(Blocks) :
         i # dir.proof /\ Begins(s, data[i]) => i \in rewritten' \/ Begins(s, data'[i])

LEMMA EditedKeeps ==
  ASSUME SharedInv, EditedFile
  PROVE  SharedInv'
<1>1. FilesInv /\ Len(data) \in Nat /\ Len(data') \in Nat
  BY LenProperties DEF SharedInv, FilesInv, EditedFile, processVars
<1>2. FilesInv'
  BY <1>1 DEF FilesInv, EditedFile, processVars
<1>3. ASSUME NEW q \in Processes PROVE PlaceInv(q)' /\ ReadInv(q)' /\ SaveInv(q)'
  <2>1. PlaceInv(q) /\ ReadInv(q) /\ SaveInv(q)
    BY DEF SharedInv
  <2>2. PlaceInv(q)'
    BY <2>1 DEF PlaceInv, EditedFile, processVars
  <2>3. ReadInv(q)'
    <3>1. pc[q] \in {"hash", "read"} => fd[q] \in 1 .. Len(data) /\ fd[q] \in 1 .. Len(data')
      BY <1>1, <2>1 DEF ReadInv, EditedFile, processVars
    <3>2. ASSUME pc[q] = "hash"
          PROVE  fd[q] \in rewritten' \/ Begins(got[q], data'[fd[q]])
      <4>1. /\ fd[q] \in 1 .. Len(data) /\ fd[q] # dir.proof /\ got[q] \in Seq(Blocks)
            /\ fd[q] \in rewritten \/ Begins(got[q], data[fd[q]])
        BY <2>1, <3>2 DEF ReadInv
      <4>2. QED
        BY <4>1 DEF EditedFile, processVars
    <3>3. QED
      BY <2>1, <3>1, <3>2 DEF ReadInv, EditedFile, processVars
  <2>4. SaveInv(q)'
    BY <2>1 DEF SaveInv, EditedFile, processVars
  <2>5. QED
    BY <2>2, <2>3, <2>4
<1>4. QED
  BY <1>2, <1>3 DEF SharedInv

LEMMA EditsAre ==
  ASSUME SharedInv, AppendFile \/ ReplaceFile \/ RewriteFile
  PROVE  EditedFile
<1>1. /\ FilesInv /\ Len(data) \in Nat /\ dir.file \in 1 .. Len(data) /\ data[dir.file] \in Seq(Blocks)
      /\ dir.proof # 0 => dir.proof \in 1 .. Len(data)
  BY LenProperties DEF SharedInv, FilesInv
<1>2. \A c \in Contents : c \in Seq(Blocks) /\ c \in Seq(Block) /\ Head(c) \in Blocks
  <2>1. ASSUME NEW c \in Contents PROVE c \in Seq(Blocks) /\ c # <<>>
    BY FilesAssumption
  <2>2. QED
    BY <2>1, PlainIsBlock, HeadTailProperties
<1>3. UNCHANGED <<processVars, saver, clash>>
  BY DEF AppendFile, ReplaceFile, RewriteFile, processVars, historyVars
<1>4. CASE ReplaceFile
  <2>1. PICK c \in Contents : data' = Append(data, c)
    BY <1>4 DEF ReplaceFile
  <2>2. dir' = [dir EXCEPT !.file = Len(data')] /\ rewritten' = rewritten
    BY <1>4 DEF ReplaceFile, historyVars
  <2>3. /\ data' \in Seq(Seq(Block)) /\ Len(data') = Len(data) + 1
        /\ \A i \in 1 .. Len(data) : data'[i] = data[i]
        /\ data'[Len(data) + 1] = c
    BY <1>1, <1>2, <2>1, AppendFacts DEF FilesInv
  <2>4. /\ dir' \in [file : Nat, proof : Nat] /\ dir'.proof = dir.proof
        /\ dir'.file = Len(data) + 1
    <3>1. dir \in [file : Nat, proof : Nat] /\ Len(data) + 1 \in Nat
      BY <1>1 DEF FilesInv
    <3>2. dir' = [dir EXCEPT !.file = Len(data) + 1]
      BY <2>2, <2>3
    <3>3. QED
      BY <3>1, <3>2
  <2>5. dir'.file \in 1 .. Len(data') /\ dir'.file # dir.proof /\ Len(data) <= Len(data')
    BY <1>1, <2>3, <2>4
  <2>6. ASSUME NEW i \in 1 .. Len(data'), i # dir.proof PROVE data'[i] \in Seq(Blocks)
    <3>1. CASE i = Len(data) + 1
      BY <1>2, <2>3, <3>1
    <3>2. CASE i # Len(data) + 1
      <4>1. i \in 1 .. Len(data)
        BY <1>1, <2>3, <3>2
      <4>2. QED
        BY <1>1, <2>3, <2>6, <4>1 DEF FilesInv
    <3>3. QED
      BY <3>1, <3>2
  <2>7. EditedFile
    BY <1>1, <1>3, <2>2, <2>3, <2>4, <2>5, <2>6 DEF EditedFile
  <2>8. QED
    BY <2>7
<1>5. CASE AppendFile \/ RewriteFile
  <2>1. PICK c \in Contents, new \in Seq(Blocks) :
          /\ data' = [data EXCEPT ![dir.file] = new] /\ dir' = dir
          /\ \/ dir.file \in rewritten'
             \/ new = data[dir.file] \o <<Head(c)>>
          /\ rewritten \subseteq rewritten'
    <3>1. CASE RewriteFile
      BY <1>2, <3>1 DEF RewriteFile
    <3>2. CASE AppendFile
      <4>1. PICK c \in Contents : data' = [data EXCEPT ![dir.file] = @ \o <<Head(c)>>]
        BY <3>2 DEF AppendFile
      <4>2. data[dir.file] \o <<Head(c)>> \in Seq(Blocks)
        BY <1>1, <1>2
      <4>3. QED
        BY <3>2, <4>1, <4>2 DEF AppendFile, historyVars
    <3>3. QED
      BY <1>5, <3>1, <3>2
  <2>2. /\ data' \in Seq(Seq(Block)) /\ Len(data') = Len(data)
        /\ \A i \in 1 .. Len(data) : data'[i] = IF i = dir.file THEN new ELSE data[i]
    BY <1>1, <2>1, PlainIsBlock, ExceptSeq DEF FilesInv
  <2>3. ASSUME NEW i \in 1 .. Len(data), NEW s \in Seq(Blocks), Begins(s, data[i])
        PROVE  i \in rewritten' \/ Begins(s, data'[i])
    <3>1. CASE i = dir.file /\ i \notin rewritten'
      <4>1. data'[i] = data[i] \o <<Head(c)>>
        BY <2>1, <2>2, <3>1
      <4>2. data[i] \in Seq(Blocks) /\ Head(c) \in Blocks
        BY <1>1, <1>2, <3>1
      <4>3. Begins(s, data[i] \o <<Head(c)>>)
        BY <2>3, <4>2, BeginsLonger
      <4>4. QED
        BY <4>1, <4>3
    <3>2. CASE i # dir.file \/ i \in rewritten'
      BY <2>2, <2>3, <3>2
    <3>3. QED
      BY <3>1, <3>2
  <2>4. EditedFile
    BY <1>1, <1>3, <2>1, <2>2, <2>3 DEF EditedFile, FilesInv
  <2>5. QED
    BY <2>4
<1>6. QED
  BY <1>4, <1>5

-----------------------------------------------------------------------------
(* The invariant, and what follows from it. *)

LEMMA NextInv == SharedInv /\ [SharedNext]_sharedVars => SharedInv'
<1> SUFFICES ASSUME SharedInv, [SharedNext]_sharedVars PROVE SharedInv'
  OBVIOUS
<1>1. CASE UNCHANGED sharedVars
  BY <1>1 DEF sharedVars, fileVars, processVars, historyVars, SharedInv, FilesInv, PlaceInv, ReadInv, SaveInv
<1>2. CASE EditConfig
  BY <1>2 DEF EditConfig, fileVars, processVars, SharedInv, FilesInv, PlaceInv, ReadInv, SaveInv
<1>3. CASE AppendFile \/ ReplaceFile \/ RewriteFile
  BY <1>3, EditsAre, EditedKeeps
<1>4. ASSUME NEW p \in Processes, Step(p) \/ Fail(p) \/ Kill(p) PROVE SharedInv'
  BY <1>4, EndsKeep, OpenKeeps, ReadKeeps, MovesKeep, StartSaveKeeps, WriteKeeps DEF Step
<1>5. QED
  BY <1>1, <1>2, <1>3, <1>4 DEF SharedNext

LEMMA AlwaysInv == SharedSpec => []SharedInv
<1>1. QED
  BY InitInv, NextInv, PTL DEF SharedSpec

(* The types of any number of commands on the same files: a process reads  *)
(* and writes an inode that is there, the bundle's when it saves, and goes *)
(* to the service with a key.                                              *)
THEOREM SharedTypes == SharedSpec => []SharedTypeOK
<1>1. SharedInv => SharedTypeOK
  BY DEF SharedInv, FilesInv, PlaceInv, ReadInv, SaveInv, SharedTypeOK, Places, Codes
<1>2. QED
  BY <1>1, AlwaysInv, PTL

(* However often FILE is appended to or replaced while it is read, and in  *)
(* reads of whatever size, the hash is that of the whole of a file that    *)
(* was there.                                                              *)
THEOREM HashesAreOfFiles == SharedSpec => HashOfAFile
<1>1. SharedInv /\ [SharedNext]_sharedVars =>
        [\A p \in Processes :
           HashEnds(p) => hash'[p] = data[fd[p]] \/ fd[p] \in rewritten]_sharedVars
  <2> SUFFICES ASSUME SharedInv, NEW p \in Processes, HashEnds(p)
               PROVE  hash'[p] = data[fd[p]] \/ fd[p] \in rewritten
    OBVIOUS
  <2>1. hash' = [hash EXCEPT ![p] = got[p]] /\ FilesInv
    BY DEF HashEnds, SharedInv
  <2>2. hash'[p] = got[p]
    BY <2>1 DEF FilesInv
  <2>3. QED
    BY <2>2, HashedWhole
<1>2. QED
  BY <1>1, AlwaysInv, PTL DEF SharedSpec, HashOfAFile

(* However many commands save, are killed or fail to write, a bundle that  *)
(* was saved last and alone, with exit code 0, is whole.                   *)
THEOREM SavesAreWhole == SharedSpec => []SavedIsWhole
<1>1. SharedInv => SavedIsWhole
  BY DEF SharedInv, SaveInv, SavedIsWhole, Processes
<1>2. QED
  BY <1>1, AlwaysInv, PTL

-----------------------------------------------------------------------------
(* What a reader of the bundle has read.                                   *)

(* The parts of one bundle, the beginning of what one command saves.       *)
OfOne(s) == \A j, k \in 1 .. Len(s) : s[j].by = s[k].by /\ s[j].hash = s[k].hash
By(p, s) == \A k \in 1 .. Len(s) : s[k].by = p /\ s[k].hash = hash[p]

SaverInv ==
  /\ IF dir.proof = 0 THEN saver = Unset ELSE saver \in Anchors
  /\ bundle \in [Processes -> Seq(Block)]
  /\ ~clash /\ dir.proof # 0 => OfOne(data[dir.proof])

BundleInv(p) ==
  /\ pc[p] = "write" /\ ~clash => By(p, data[dir.proof])
  /\ pc[p] = "read" => /\ dir.proof # 0 /\ fd[p] = dir.proof
                       /\ clash \/ Begins(got[p], data[dir.proof])
  /\ p \in Verifies /\ pc[p] \in {"parsed", "hash", "judge"} =>
       bundle[p] # <<>> /\ (clash \/ OfOne(bundle[p]))

BundlesInv == SaverInv /\ \A p \in Processes : BundleInv(p)

Quiet(q) ==
  /\ pc'[q] = pc[q] /\ fd'[q] = fd[q] /\ got'[q] = got[q]
  /\ hash'[q] = hash[q] /\ bundle'[q] = bundle[q]

LEMMA QuietKeeps ==
  ASSUME NEW q, BundleInv(q), Quiet(q), UNCHANGED <<dir, data, clash>>
  PROVE  BundleInv(q)'
  BY DEF BundleInv, Quiet, By, OfOne, Begins

(* A step of one process that leaves the files alone.                      *)
LEMMA OneReader ==
  ASSUME BundlesInv, NEW p \in Processes, FilesStay, \A q \in Processes \ {p} : Quiet(q),
         bundle' \in [Processes -> Seq(Block)], BundleInv(p)'
  PROVE  BundlesInv'
<1>1. SaverInv'
  BY DEF BundlesInv, SaverInv, FilesStay, OfOne
<1>2. \A q \in Processes : BundleInv(q)'
  BY QuietKeeps DEF BundlesInv, FilesStay
<1>3. QED
  BY <1>1, <1>2 DEF BundlesInv

LEMMA ExitReads ==
  ASSUME SharedInv, BundlesInv, NEW p \in Processes, NEW code, Exit(p, code)
  PROVE  BundlesInv'
<1>1. FilesInv /\ bundle \in [Processes -> Seq(Block)]
  BY DEF SharedInv, BundlesInv, SaverInv
<1>2. /\ pc' = [pc EXCEPT ![p] = "ended"] /\ fd' = [fd EXCEPT ![p] = 0]
      /\ got' = [got EXCEPT ![p] = <<>>] /\ hash' = [hash EXCEPT ![p] = <<>>]
      /\ bundle' = [bundle EXCEPT ![p] = <<>>]
      /\ UNCHANGED <<dir, data, rewritten, saver, clash>>
  BY DEF Exit, Goto, fileVars, historyVars
<1>3. FilesStay /\ \A q \in Processes \ {p} : Quiet(q)
  BY <1>1, <1>2 DEF FilesStay, Quiet, FilesInv
<1>4. bundle' \in [Processes -> Seq(Block)]
  BY <1>1, <1>2, EmptyFacts
<1>5. pc'[p] = "ended"
  BY <1>1, <1>2 DEF FilesInv
<1>6. BundleInv(p)'
  BY <1>5 DEF BundleInv
<1>7. QED
  BY <1>3, <1>4, <1>6, OneReader

LEMMA OpenReads ==
  ASSUME SharedInv, BundlesInv, NEW p \in Processes, OpenFile(p) \/ OpenBundle(p)
  PROVE  BundlesInv'
<1>1. FilesInv /\ BundleInv(p) /\ bundle \in [Processes -> Seq(Block)]
  BY DEF SharedInv, BundlesInv, SaverInv
<1>2. PICK path \in {"file", "proof"}, next \in {"hash", "read"} :
        /\ Open(p, path, next)
        /\ next = "read" => path = "proof"
        /\ next = "hash" /\ p \in Verifies => pc[p] = "parsed"
  BY DEF OpenFile, OpenBundle
<1>3. /\ pc' = [pc EXCEPT ![p] = next] /\ fd' = [fd EXCEPT ![p] = dir[path]]
      /\ got' = [got EXCEPT ![p] = <<>>] /\ dir[path] # 0
      /\ UNCHANGED <<dir, data, hash, bundle, rewritten, saver, clash>>
  BY <1>2 DEF Open, Goto, fileVars, historyVars
<1>4. FilesStay /\ \A q \in Processes \ {p} : Quiet(q)
  BY <1>1, <1>3 DEF FilesStay, Quiet, FilesInv
<1>5. pc'[p] = next /\ fd'[p] = dir[path] /\ got'[p] = <<>>
  BY <1>1, <1>3 DEF FilesInv
<1>6. CASE next = "read"
  <2>1. dir.proof # 0 /\ fd'[p] = dir.proof /\ data[dir.proof] \in Seq(Block)
    BY <1>1, <1>2, <1>3, <1>5, <1>6, ElementOfSeq DEF FilesInv
  <2>2. Begins(got'[p], data[dir.proof])
    BY <1>5, <2>1, BeginsEmpty
  <2>3. BundleInv(p)'
    BY <1>3, <1>5, <1>6, <2>1, <2>2 DEF BundleInv, Begins
  <2>4. QED
    BY <1>1, <1>3, <1>4, <2>3, OneReader
<1>7. CASE next = "hash"
  <2>1. BundleInv(p)'
    BY <1>1, <1>2, <1>3, <1>5, <1>7 DEF BundleInv, OfOne
  <2>2. QED
    BY <1>1, <1>3, <1>4, <2>1, OneReader
<1>8. QED
  BY <1>6, <1>7

LEMMA ReadReads ==
  ASSUME SharedInv, BundlesInv, NEW p \in Processes, Read(p)
  PROVE  BundlesInv'
<1>1. FilesInv /\ BundleInv(p) /\ ReadInv(p) /\ bundle \in [Processes -> Seq(Block)]
  BY DEF SharedInv, BundlesInv, SaverInv
<1> DEFINE s == got[p]
           t == data[fd[p]]
<1>2. PICK n \in 1 .. Chunk :
        /\ Len(s) + n <= Len(t)
        /\ got' = [got EXCEPT ![p] = s \o SubSeq(t, Len(s) + 1, Len(s) + n)]
  BY DEF Read, Source
<1>3. /\ pc[p] \in {"hash", "read"}
      /\ UNCHANGED <<dir, data, pc, fd, hash, bundle, rewritten, saver, clash>>
  BY DEF Read, Reading, fileVars, historyVars
<1>4. FilesStay /\ \A q \in Processes \ {p} : Quiet(q)
  BY <1>1, <1>2, <1>3 DEF FilesStay, Quiet, FilesInv
<1>5. s \in Seq(Block) /\ t \in Seq(Block) /\ n \in Nat \ {0}
  BY <1>1, <1>3, FilesAssumption, ElementOfSeq DEF FilesInv, ReadInv
<1> DEFINE u == s \o SubSeq(t, Len(s) + 1, Len(s) + n)
<1>6. Begins(s, t) => Begins(u, t)
  BY <1>2, <1>5, BeginsFurther
<1>7. got'[p] = u
  BY <1>1, <1>2 DEF FilesInv
<1> HIDE DEF s, t, u
<1>8. CASE pc[p] = "read"
  <2>1. dir.proof # 0 /\ fd[p] = dir.proof /\ (clash \/ Begins(s, data[dir.proof]))
    BY <1>1, <1>8 DEF BundleInv, s
  <2>2. clash \/ Begins(u, data[dir.proof])
    BY <1>6, <2>1 DEF t
  <2>3. pc'[p] = "read" /\ fd'[p] = dir'.proof /\ dir'.proof # 0
        /\ (clash' \/ Begins(got'[p], data'[dir'.proof]))
    BY <1>3, <1>7, <1>8, <2>1, <2>2
  <2>4. BundleInv(p)'
    BY <2>3 DEF BundleInv
  <2>5. QED
    BY <1>1, <1>3, <1>4, <2>4, OneReader
<1>9. CASE pc[p] = "hash"
  <2>1. BundleInv(p)'
    BY <1>1, <1>3, <1>9 DEF BundleInv, OfOne
  <2>2. QED
    BY <1>1, <1>3, <1>4, <2>1, OneReader
<1>10. QED
  BY <1>3, <1>8, <1>9

(* A beginning of the parts of one bundle has parts of one bundle.         *)
LEMMA BeginsOfOne ==
  ASSUME NEW s \in Seq(Block), NEW t \in Seq(Block), Begins(s, t), OfOne(t)
  PROVE  OfOne(s)
<1>1. Len(s) \in Nat /\ Len(t) \in Nat
  BY LenProperties
<1>2. QED
  BY <1>1 DEF Begins, OfOne

LEMMA MovesRead ==
  ASSUME SharedInv, BundlesInv, NEW p \in Processes,
         HashEnds(p) \/ Parse(p) \/ ResolveKey(p) \/ ResolveUrl(p)
  PROVE  BundlesInv'
<1>1. FilesInv /\ BundleInv(p) /\ PlaceInv(p) /\ bundle \in [Processes -> Seq(Block)]
  BY DEF SharedInv, BundlesInv, SaverInv
<1>2. UNCHANGED <<dir, data, fd, got, rewritten, saver, clash>>
  BY DEF HashEnds, Parse, ResolveKey, ResolveUrl, fileVars, historyVars
<1>3. CASE Parse(p)
  <2>1. /\ pc[p] = "read" /\ Parses(got[p]) /\ pc' = [pc EXCEPT ![p] = "parsed"]
        /\ bundle' = [bundle EXCEPT ![p] = got[p]] /\ hash' = hash
    BY <1>3 DEF Parse, Goto
  <2>2. FilesStay /\ \A q \in Processes \ {p} : Quiet(q)
    BY <1>1, <1>2, <2>1 DEF FilesStay, Quiet, FilesInv
  <2>3. pc'[p] = "parsed" /\ bundle'[p] = got[p] /\ bundle' \in [Processes -> Seq(Block)]
    BY <1>1, <2>1 DEF FilesInv
  <2>4. got[p] # <<>>
    BY <2>1 DEF Parses
  <2>5. ASSUME ~clash PROVE OfOne(got[p])
    <3>1. dir.proof # 0 /\ Begins(got[p], data[dir.proof]) /\ OfOne(data[dir.proof])
      BY <1>1, <2>1, <2>5 DEF BundlesInv, SaverInv, BundleInv
    <3>2. got[p] \in Seq(Block) /\ data[dir.proof] \in Seq(Block)
      BY <1>1, <3>1, ElementOfSeq DEF FilesInv
    <3>3. QED
      BY <3>1, <3>2, BeginsOfOne
  <2>6. BundleInv(p)'
    BY <1>2, <2>3, <2>4, <2>5 DEF BundleInv, OfOne
  <2>7. QED
    BY <2>2, <2>3, <2>6, OneReader
<1>4. CASE HashEnds(p) \/ ResolveKey(p) \/ ResolveUrl(p)
  <2>1. PICK next \in {"key", "judge", "print", "url", "save"} :
          /\ pc' = [pc EXCEPT ![p] = next]
          /\ next = "judge" => pc[p] = "hash"
    BY <1>4 DEF HashEnds, ResolveKey, ResolveUrl, Goto
  <2>2. bundle' = bundle /\ \A q \in Processes \ {p} : hash'[q] = hash[q]
    BY <1>1, <1>4 DEF HashEnds, ResolveKey, ResolveUrl, FilesInv
  <2>3. FilesStay /\ \A q \in Processes \ {p} : Quiet(q)
    BY <1>1, <1>2, <2>1, <2>2 DEF FilesStay, Quiet, FilesInv
  <2>4. pc'[p] = next
    BY <1>1, <2>1 DEF FilesInv
  <2>5. BundleInv(p)'
    BY <1>1, <1>2, <2>1, <2>2, <2>4 DEF BundleInv, OfOne
  <2>6. QED
    BY <1>1, <2>2, <2>3, <2>5, OneReader
<1>5. QED
  BY <1>3, <1>4

LEMMA StartSaveReads ==
  ASSUME SharedInv, BundlesInv, NEW p \in Processes, StartSave(p)
  PROVE  BundlesInv'
<1>1. FilesInv /\ PlaceInv(p) /\ SaverInv /\ pc[p] = "save" /\ Create(p)
  BY DEF SharedInv, BundlesInv, StartSave
<1>2. /\ pc' = [pc EXCEPT ![p] = "write"] /\ fd' = [fd EXCEPT ![p] = dir'.proof]
      /\ got' = [got EXCEPT ![p] = <<>>] /\ saver' = p
      /\ clash' = (clash \/ \E q \in Processes : Busy(q))
      /\ UNCHANGED <<hash, bundle>>
  BY DEF StartSave, Goto
<1>3. p \in Anchors /\ p \notin Verifies
  BY <1>1, FilesAssumption DEF PlaceInv
<1>4. dir'.proof # 0 /\ data'[dir'.proof] = <<>> /\ Len(<<>>) = 0
  BY <1>1, CreateFacts, EmptyFacts
<1>5. SaverInv'
  BY <1>1, <1>2, <1>3, <1>4 DEF SaverInv, OfOne
<1>6. ASSUME NEW q \in Processes PROVE BundleInv(q)'
  <2>1. BundleInv(q)
    BY DEF BundlesInv
  <2>2. CASE q = p
    <3>1. pc'[p] = "write"
      BY <1>1, <1>2 DEF FilesInv
    <3>2. By(p, data[dir.proof])'
      BY <1>4 DEF By
    <3>3. QED
      BY <1>3, <1>4, <2>2, <3>1 DEF BundleInv, By
  <2>3. CASE q # p
    <3>1. pc'[q] = pc[q] /\ fd'[q] = fd[q] /\ got'[q] = got[q] /\ bundle'[q] = bundle[q]
      BY <1>1, <1>2, <2>3 DEF FilesInv
    <3>2. pc[q] \in {"read", "write"} => clash'
      BY <1>2 DEF Busy
    <3>3. pc[q] = "read" => dir'.proof = fd[q]
      BY <1>1, <2>1 DEF BundleInv, Create
    <3>4. clash => clash'
      BY <1>2
    <3>5. QED
      BY <1>4, <2>1, <3>1, <3>2, <3>3, <3>4 DEF BundleInv, OfOne
  <2>4. QED
    BY <2>2, <2>3
<1>7. QED
  BY <1>5, <1>6 DEF BundlesInv

LEMMA WriteReads ==
  ASSUME SharedInv, BundlesInv, NEW p \in Processes, Write(p)
  PROVE  BundlesInv'
<1> DEFINE old == data[dir.proof]
           b == BundleOf(p)[Len(got[p]) + 1]
<1>1. /\ FilesInv /\ PlaceInv(p) /\ SaveInv(p) /\ SaverInv /\ BundleInv(p)
      /\ pc[p] = "write" /\ Len(got[p]) + 1 <= Size[p]
  BY DEF SharedInv, BundlesInv, Write
<1>2. SharedInv'
  BY WriteKeeps
<1>3. /\ got' = [got EXCEPT ![p] = Append(@, b)]
      /\ UNCHANGED <<dir, pc, fd, hash, bundle, saver, clash>>
  BY DEF Write, historyVars
<1>4. /\ p \in Anchors /\ p \notin Verifies /\ dir.proof \in 1 .. Len(data)
      /\ old \in Seq(Block) /\ got[p] \in Seq(Block)
  BY <1>1, FilesAssumption, ElementOfSeq DEF PlaceInv, SaveInv, FilesInv
<1>5. b \in Block /\ b.by = p /\ b.hash = hash[p]
  <2>1. Len(got[p]) \in Nat /\ Size[p] \in Nat
    BY <1>4, FilesAssumption, LenProperties
  <2>2. Len(got[p]) + 1 \in 1 .. Size[p]
    BY <1>1, <2>1
  <2>3. b \in Block /\ b.by = p
    BY <1>1, <1>4, <2>2, OwnPart
  <2>4. b.hash = hash[p]
    BY <2>2 DEF BundleOf
  <2>5. QED
    BY <2>3, <2>4
<1> HIDE DEF b
<1>6. ASSUME ~clash
      PROVE  saver = p /\ data'[dir.proof] = Append(old, b) /\ By(p, data'[dir.proof])
  <2>1. saver = p /\ old = got[p] /\ By(p, old)
    BY <1>1, <1>6 DEF SaveInv, BundleInv
  <2>2. SaveInv(p)' /\ pc'[p] = "write" /\ ~clash'
    BY <1>1, <1>2, <1>3, <1>6 DEF SharedInv
  <2>3. data'[dir.proof] = got'[p] /\ got'[p] = Append(got[p], b)
    BY <1>1, <1>3, <2>2 DEF SaveInv, FilesInv
  <2>4. data'[dir.proof] = Append(old, b)
    BY <2>1, <2>3
  <2>5. /\ Len(old) \in Nat /\ Len(Append(old, b)) = Len(old) + 1
        /\ \A i \in 1 .. Len(old) : Append(old, b)[i] = old[i]
        /\ Append(old, b)[Len(old) + 1] = b
    BY <1>4, <1>5, AppendFacts
  <2>6. ASSUME NEW k \in 1 .. Len(old) + 1
        PROVE  Append(old, b)[k].by = p /\ Append(old, b)[k].hash = hash[p]
    <3>1. CASE k = Len(old) + 1
      BY <1>5, <2>5, <3>1
    <3>2. CASE k # Len(old) + 1
      <4>1. k \in 1 .. Len(old)
        BY <2>5, <3>2
      <4>2. QED
        BY <2>1, <2>5, <4>1 DEF By
    <3>3. QED
      BY <3>1, <3>2
  <2>7. By(p, data'[dir.proof])
    BY <2>4, <2>5, <2>6 DEF By
  <2>8. QED
    BY <2>1, <2>4, <2>7
<1> HIDE DEF old
<1>7. SaverInv'
  BY <1>1, <1>3, <1>6 DEF SaverInv, By, OfOne
<1>8. ASSUME NEW q \in Processes PROVE BundleInv(q)'
  <2>1. BundleInv(q) /\ SaveInv(q)
    BY DEF BundlesInv, SharedInv
  <2>2. CASE q = p
    BY <1>1, <1>3, <1>4, <1>6, <2>2 DEF BundleInv, By
  <2>3. CASE q # p
    <3>1. got'[q] = got[q]
      BY <1>1, <1>3, <2>3 DEF FilesInv
    <3>2. pc[q] = "write" => clash
      BY <1>6, <2>1, <2>3 DEF SaveInv
    <3>3. ASSUME pc[q] = "read", ~clash PROVE Begins(got[q], data'[dir.proof])
      <4>1. Begins(got[q], old) /\ got[q] \in Seq(Block)
        BY <1>1, <2>1, <3>3 DEF BundleInv, FilesInv, old
      <4>2. Begins(got[q], old \o <<b>>)
        BY <1>4, <1>5, <4>1, BeginsLonger
      <4>3. Append(old, b) = old \o <<b>>
        BY <1>4, <1>5
      <4>4. QED
        BY <1>6, <3>3, <4>2, <4>3
    <3>4. QED
      BY <1>3, <2>1, <3>1, <3>2, <3>3 DEF BundleInv, OfOne
  <2>4. QED
    BY <2>2, <2>3
<1>9. QED
  BY <1>7, <1>8 DEF BundlesInv

LEMMA EditsRead ==
  ASSUME SharedInv, BundlesInv, EditedFile
  PROVE  BundlesInv'
<1>1. dir'.proof = dir.proof /\ (dir.proof # 0 => data'[dir.proof] = data[dir.proof])
      /\ UNCHANGED <<pc, fd, got, hash, bundle, saver, clash>>
  BY DEF EditedFile, processVars
<1>2. SaverInv'
  BY <1>1 DEF BundlesInv, SaverInv, OfOne
<1>3. ASSUME NEW q \in Processes PROVE BundleInv(q)'
  <2>1. BundleInv(q) /\ SaveInv(q)
    BY DEF BundlesInv, SharedInv
  <2>2. pc[q] \in {"write", "read"} => data'[dir.proof] = data[dir.proof]
    BY <1>1, <2>1 DEF BundleInv, SaveInv
  <2>3. QED
    BY <1>1, <2>1, <2>2 DEF BundleInv, By, OfOne, Begins
<1>4. QED
  BY <1>2, <1>3 DEF BundlesInv

LEMMA BundlesNext ==
  ASSUME SharedInv, BundlesInv, [SharedNext]_sharedVars
  PROVE  BundlesInv'
<1>1. ASSUME UNCHANGED <<fileVars, processVars, saver, clash>> PROVE BundlesInv'
  BY <1>1 DEF fileVars, processVars, BundlesInv, SaverInv, BundleInv, By, OfOne, Begins
<1>2. CASE EditConfig \/ UNCHANGED sharedVars
  BY <1>1, <1>2 DEF EditConfig, sharedVars, historyVars
<1>3. CASE AppendFile \/ ReplaceFile \/ RewriteFile
  BY <1>3, EditsAre, EditsRead
<1>4. ASSUME NEW p \in Processes, Step(p) \/ Fail(p) \/ Kill(p) PROVE BundlesInv'
  <2>1. CASE \/ PrintHash(p) \/ RejectBundle(p) \/ Judge(p) \/ NoBundle(p) \/ NoKey(p)
             \/ SaveEnds(p) \/ Fail(p) \/ Kill(p)
    <3>1. \E code : Exit(p, code)
      BY <2>1 DEF PrintHash, RejectBundle, Judge, NoBundle, NoKey, SaveEnds, Fail, Kill
    <3>2. QED
      BY <3>1, ExitReads
  <2>2. CASE OpenFile(p) \/ OpenBundle(p) \/ Read(p)
    BY <2>2, OpenReads, ReadReads
  <2>3. CASE HashEnds(p) \/ Parse(p) \/ ResolveKey(p) \/ ResolveUrl(p)
    BY <2>3, MovesRead
  <2>4. CASE StartSave(p) \/ Write(p)
    BY <2>4, StartSaveReads, WriteReads
  <2>5. QED
    BY <1>4, <2>1, <2>2, <2>3, <2>4 DEF Step
<1>5. QED
  BY <1>2, <1>3, <1>4 DEF SharedNext

LEMMA BundlesInit == ASSUME SharedInit PROVE BundlesInv
<1>1. /\ dir.proof = 0 /\ saver = Unset /\ bundle = [p \in Processes |-> <<>>]
      /\ \A p \in Processes : pc[p] \in {"start", "ended"}
  BY DEF SharedInit, Memory
<1>2. QED
  BY <1>1, EmptyFacts DEF BundlesInv, SaverInv, BundleInv

LEMMA AlwaysBundles == SharedSpec => []BundlesInv
<1>1. SharedInv /\ BundlesInv /\ [SharedNext]_sharedVars => BundlesInv'
  BY BundlesNext
<1>2. SharedInit => BundlesInv
  BY BundlesInit
<1>3. QED
  BY <1>1, <1>2, AlwaysInv, PTL DEF SharedSpec

(* verify only ever calls a bundle broken while it is being saved or after *)
(* a save was cut short, and invalid when it is for another file: for any  *)
(* number of savers, readers and edits, none of which run into each other. *)
THEOREM VerdictsAreEarned == SharedSpec => VerdictsEarned
<1>1. ASSUME SharedInv, BundlesInv, NEW v \in Verifies, RejectBundle(v), ~clash
      PROVE  exit[saver] # 0
  <2>1. SUFFICES ASSUME exit[saver] = 0 PROVE FALSE
    OBVIOUS
  <2>2. v \in Processes /\ FilesInv /\ BundleInv(v)
    BY <1>1 DEF SharedInv, BundlesInv, Processes
  <2>3. pc[v] = "read" /\ Len(got[v]) >= Len(data[fd[v]]) /\ ~Parses(got[v])
    BY <1>1 DEF RejectBundle, AtEnd, Source
  <2>4. dir.proof # 0 /\ fd[v] = dir.proof /\ Begins(got[v], data[dir.proof])
    BY <1>1, <2>2, <2>3 DEF BundleInv
  <2>5. saver \in Anchors /\ saver \in Processes
    BY <1>1, <2>4 DEF BundlesInv, SaverInv, Processes
  <2>6. WholeOf(saver, data[dir.proof])
    BY <1>1, <2>1, <2>5 DEF SharedInv, SaveInv
  <2>7. got[v] \in Seq(Block) /\ data[dir.proof] \in Seq(Block)
    BY <2>2, <2>4, ElementOfSeq DEF FilesInv
  <2>8. got[v] = data[dir.proof]
    BY <2>3, <2>4, <2>7, BeginsWhole
  <2>9. QED
    BY <2>3, <2>6, <2>8 DEF WholeOf
<1>2. ASSUME SharedInv, BundlesInv, [SharedNext]_sharedVars, NEW v \in Verifies,
             exit'[v] = 1, exit[v] # 1, ~clash
      PROVE  hash[v] # bundle[v][1].hash
  <2>1. v \in Processes /\ FilesInv /\ BundleInv(v) /\ bundle[v] \in Seq(Block)
    BY <1>2 DEF SharedInv, BundlesInv, SaverInv, Processes
  <2>2. pc[v] = "judge" /\ ~Accepts(bundle[v], hash[v])
    <3>1. ASSUME NEW p \in Processes, NEW code, Exit(p, code) PROVE p = v /\ code = 1
      BY <1>2, <2>1, <3>1 DEF Exit, FilesInv
    <3>2. CASE AppendFile \/ ReplaceFile \/ RewriteFile \/ EditConfig \/ UNCHANGED sharedVars
      BY <1>2, <3>2 DEF AppendFile, ReplaceFile, RewriteFile, EditConfig, processVars, sharedVars
    <3>3. ASSUME NEW p \in Processes, Step(p) \/ Fail(p) \/ Kill(p)
          PROVE  pc[v] = "judge" /\ ~Accepts(bundle[v], hash[v])
      <4>1. CASE OpenFile(p) \/ OpenBundle(p) \/ Read(p)
        BY <1>2, <4>1 DEF OpenFile, OpenBundle, Open, Read
      <4>2. CASE HashEnds(p) \/ Parse(p) \/ ResolveKey(p) \/ ResolveUrl(p) \/ StartSave(p) \/ Write(p)
        BY <1>2, <4>2 DEF HashEnds, Parse, ResolveKey, ResolveUrl, StartSave, Write
      <4>3. CASE RejectBundle(p) \/ NoBundle(p) \/ NoKey(p) \/ Fail(p)
        BY <3>1, <4>3 DEF RejectBundle, NoBundle, NoKey, Fail
      <4>4. CASE PrintHash(p) \/ SaveEnds(p) \/ Kill(p)
        BY <3>1, <4>4 DEF PrintHash, SaveEnds, Kill, Killed
      <4>5. CASE Judge(p)
        BY <3>1, <4>5 DEF Judge
      <4>6. QED
        BY <3>3, <4>1, <4>2, <4>3, <4>4, <4>5 DEF Step
    <3>4. QED
      BY <1>2, <3>2, <3>3 DEF SharedNext
  <2>3. bundle[v] # <<>> /\ OfOne(bundle[v])
    BY <1>2, <2>1, <2>2 DEF BundleInv
  <2>4. Len(bundle[v]) \in Nat /\ Len(bundle[v]) # 0 /\ DOMAIN bundle[v] = 1 .. Len(bundle[v])
    BY <2>1, <2>3, LenProperties, EmptySeq
  <2>5. PICK k \in 1 .. Len(bundle[v]) :
          bundle[v][k].by # bundle[v][1].by \/ bundle[v][k].hash # hash[v]
    BY <2>2, <2>4 DEF Accepts
  <2>6. 1 \in 1 .. Len(bundle[v])
    BY <2>4
  <2>7. QED
    BY <2>3, <2>5, <2>6 DEF OfOne
<1>3. SharedInv /\ BundlesInv /\ [SharedNext]_sharedVars =>
        [\A v \in Verifies :
           /\ RejectBundle(v) => clash \/ exit[saver] # 0
           /\ exit'[v] = 1 /\ exit[v] # 1 => clash \/ hash[v] # bundle[v][1].hash]_sharedVars
  BY <1>1, <1>2
<1>4. QED
  BY <1>3, AlwaysInv, AlwaysBundles, PTL DEF SharedSpec, VerdictsEarned

-----------------------------------------------------------------------------
(* The credentials.                                                        *)

(* The lines of every file there is have been its lines; and what the      *)
(* commands have resolved was meant for them.                              *)
ConfigInv ==
  /\ DOMAIN were = DOMAIN config
  /\ \A d \in DOMAIN config : config[d] \in were[d] /\ were[d] \subseteq Lines

CredentialsInv ==
  /\ ConfigInv
  /\ url = [p \in Processes |-> url[p]]
  /\ \A p \in Processes :
       /\ pc[p] \in {"url", "save", "write"} => key[p] \in MeantKeys(p)
       /\ pc[p] \in {"save", "write"} => url[p] \in MeantUrls(p)

Less == {ss \in Nat \X Nat : ss[1] < ss[2]}

LEMMA LessIsWellFounded == IsWellFoundedOn(Less, Nat)
  BY NatLessThanWellFounded DEF OpToRel, Less

LEMMA Earliest ==
  ASSUME NEW M, M \subseteq Nat, M # {}
  PROVE  \E k \in M : \A j \in M : k <= j
<1>1. PICK k \in M : \A j \in M : ~(<<j, k>> \in Less)
  BY LessIsWellFounded, WFMin
<1>2. ASSUME NEW j \in M PROVE k <= j
  <2>1. j \in Nat /\ k \in Nat /\ <<j, k>> \notin Less
    BY <1>1
  <2>2. ~(j < k)
    BY <2>1 DEF Less
  <2>3. QED
    BY <2>1, <2>2
<1>3. QED
  BY <1>2

(* read_config_value finds what some line names, or there is no such line. *)
LEMMA ReadValue ==
  ASSUME NEW lines, DOMAIN lines \subseteq Nat, NEW name
  PROVE  \/ Named(name, lines) = {} /\ read_config_value(name, lines) = Unset
         \/ read_config_value(name, lines) \in Named(name, lines)
<1> DEFINE M == {k \in DOMAIN lines : lines[k].name = name}
           first == CHOOSE k \in M : \A j \in M : k <= j
<1>1. CASE M = {}
  BY <1>1 DEF Named, read_config_value
<1>2. CASE M # {}
  <2>1. \E k \in M : \A j \in M : k <= j
    BY <1>2, Earliest
  <2>2. first \in M
    BY <2>1
  <2>3. read_config_value(name, lines) = lines[first].value
    BY <1>2 DEF read_config_value
  <2>4. QED
    BY <2>2, <2>3 DEF Named
<1>3. QED
  BY <1>1, <1>2

(* What a command reads is a version of its file.                          *)
LEMMA LinesAreVersions ==
  ASSUME ConfigInv, NEW p
  PROVE  /\ ConfigLines(p) \in Versions(p)
         /\ DOMAIN ConfigLines(p) \subseteq Nat
         /\ \A name : name # Unset => Unset \notin Named(name, ConfigLines(p))
<1> DEFINE home == config_path(setting[p].env)
<1>1. CASE home \in DOMAIN config
  <2>1. ConfigLines(p) = config[home] /\ config[home] \in were[home] /\ config[home] \in Lines
    BY <1>1 DEF ConfigInv, ConfigLines
  <2>2. ConfigLines(p) \in Versions(p)
    BY <1>1, <2>1 DEF ConfigInv, Versions
  <2>3. QED
    BY <2>1, <2>2, LinesAssumption DEF Named
<1>2. CASE home \notin DOMAIN config
  <2>1. ConfigLines(p) = <<>> /\ Versions(p) = {<<>>}
    BY <1>2 DEF ConfigInv, ConfigLines, Versions
  <2>2. DOMAIN (<<>>) = {}
    OBVIOUS
  <2>3. QED
    BY <2>1, <2>2 DEF Named
<1>3. QED
  BY <1>1, <1>2

LEMMA KeyIsMeant ==
  ASSUME ConfigInv, NEW p,
         resolve_api_key(setting[p].flags, setting[p].env, ConfigLines(p)) # Unset
  PROVE  resolve_api_key(setting[p].flags, setting[p].env, ConfigLines(p)) \in MeantKeys(p)
<1> DEFINE line == read_config_value("api_key", ConfigLines(p))
           flag == setting[p].flags.key
           variable == setting[p].env.key
<1>1. line = Unset \/ line \in Said(p, "api_key")
  BY LinesAreVersions, ReadValue DEF Said
<1>2. resolve_api_key(setting[p].flags, setting[p].env, ConfigLines(p)) =
        FirstGiven(flag, variable, line)
  BY DEF resolve_api_key
<1>3. MeantKeys(p) = Meant(flag, variable, Said(p, "api_key"))
  BY DEF MeantKeys
<1> HIDE DEF line, flag, variable
<1>4. QED
  BY <1>1, <1>2, <1>3 DEF FirstGiven, Meant

LEMMA UrlIsMeant ==
  ASSUME ConfigInv, NEW p
  PROVE  resolve_api_url(setting[p].flags, setting[p].env, ConfigLines(p)) \in MeantUrls(p)
<1> DEFINE line == read_config_value("api_url", ConfigLines(p))
           flag == setting[p].flags.url
           variable == setting[p].env.url
           found == FirstGiven(flag, variable, line)
           others == Said(p, "api_url") \union Default(p)
<1>1. \/ line = Unset /\ DefaultUrl \in others
      \/ line # Unset /\ line \in others
  <2>1. CASE Named("api_url", ConfigLines(p)) = {} /\ line = Unset
    BY <2>1, LinesAreVersions DEF Default
  <2>2. CASE line \in Named("api_url", ConfigLines(p))
    <3>1. line \in Said(p, "api_url")
      BY <2>2, LinesAreVersions DEF Said
    <3>2. QED
      BY <2>2, <3>1, LinesAreVersions, LinesAssumption
  <2>3. QED
    BY <2>1, <2>2, LinesAreVersions, ReadValue
<1>2. resolve_api_url(setting[p].flags, setting[p].env, ConfigLines(p)) =
        IF found = Unset THEN DefaultUrl ELSE found
  BY DEF resolve_api_url
<1>3. MeantUrls(p) = Meant(flag, variable, others)
  BY DEF MeantUrls
<1> HIDE DEF line, flag, variable, others
<1>4. QED
  BY <1>1, <1>2, <1>3 DEF FirstGiven, Meant

(* What is meant is only ever added to.                                    *)
LEMMA MeantStays ==
  ASSUME ConfigInv, NEW p, setting' = setting, DOMAIN were' = DOMAIN were,
         \A d \in DOMAIN were : were[d] \subseteq were'[d]
  PROVE  MeantKeys(p) \subseteq MeantKeys(p)' /\ MeantUrls(p) \subseteq MeantUrls(p)'
<1>1. Versions(p) \subseteq Versions(p)'
  BY DEF Versions
<1>2. /\ \A name : Said(p, name) \subseteq Said(p, name)'
      /\ Default(p) \subseteq Default(p)'
  BY <1>1 DEF Said, Default
<1>3. QED
  BY <1>2 DEF MeantKeys, MeantUrls, Meant

LEMMA ConfigNext ==
  ASSUME ConfigInv, [SharedNext]_sharedVars
  PROVE  /\ ConfigInv' /\ setting' = setting
         /\ DOMAIN were' = DOMAIN were /\ \A d \in DOMAIN were : were[d] \subseteq were'[d]
<1>1. CASE EditConfig
  <2>1. PICK d \in DOMAIN config, lines \in Lines :
          /\ config' = [config EXCEPT ![d] = lines]
          /\ were' = [were EXCEPT ![d] = @ \union {lines}]
    BY <1>1 DEF EditConfig
  <2>2. DOMAIN config' = DOMAIN config /\ DOMAIN were' = DOMAIN were
    BY <2>1
  <2>3. \A e \in DOMAIN config :
          /\ config'[e] = IF e = d THEN lines ELSE config[e]
          /\ were'[e] = IF e = d THEN were[e] \union {lines} ELSE were[e]
    BY <2>1 DEF ConfigInv
  <2>4. setting' = setting
    BY <1>1 DEF EditConfig, processVars
  <2>5. QED
    BY <2>2, <2>3, <2>4 DEF ConfigInv
<1>2. ASSUME UNCHANGED <<config, setting, were>>
      PROVE  /\ ConfigInv' /\ setting' = setting
             /\ DOMAIN were' = DOMAIN were /\ \A d \in DOMAIN were : were[d] \subseteq were'[d]
  BY <1>2 DEF ConfigInv
<1>3. CASE AppendFile \/ ReplaceFile \/ RewriteFile
  BY <1>2, <1>3 DEF AppendFile, ReplaceFile, RewriteFile, processVars, historyVars
<1>4. CASE UNCHANGED sharedVars
  BY <1>2, <1>4 DEF sharedVars, processVars, historyVars
<1>5. ASSUME NEW p \in Processes, Step(p) \/ Fail(p) \/ Kill(p)
      PROVE  UNCHANGED <<config, setting, were>>
  <2>1. CASE OpenFile(p) \/ OpenBundle(p)
    BY <2>1 DEF OpenFile, OpenBundle, Open, historyVars
  <2>2. CASE Read(p) \/ HashEnds(p) \/ Parse(p) \/ ResolveKey(p) \/ ResolveUrl(p)
    BY <2>2 DEF Read, HashEnds, Parse, ResolveKey, ResolveUrl, historyVars
  <2>3. CASE StartSave(p) \/ Write(p)
    BY <2>3 DEF StartSave, Write, historyVars
  <2>4. CASE \/ PrintHash(p) \/ RejectBundle(p) \/ Judge(p) \/ NoBundle(p) \/ NoKey(p)
             \/ SaveEnds(p) \/ Fail(p) \/ Kill(p)
    BY <2>4 DEF PrintHash, RejectBundle, Judge, NoBundle, NoKey, SaveEnds, Fail, Kill,
                Exit, historyVars
  <2>5. QED
    BY <1>5, <2>1, <2>2, <2>3, <2>4 DEF Step
<1>6. QED
  BY <1>1, <1>2, <1>3, <1>4, <1>5 DEF SharedNext

LEMMA CredentialsNext ==
  ASSUME SharedInv, CredentialsInv, [SharedNext]_sharedVars
  PROVE  CredentialsInv'
<1> DEFINE Pair(q) ==
      /\ pc[q] \in {"url", "save", "write"} => key[q] \in MeantKeys(q)
      /\ pc[q] \in {"save", "write"} => url[q] \in MeantUrls(q)
<1>1. /\ ConfigInv /\ ConfigInv' /\ url = [p \in Processes |-> url[p]]
      /\ \A q \in Processes : Pair(q)
      /\ FilesInv
  BY ConfigNext DEF CredentialsInv, SharedInv
<1>2. \A q \in Processes :
        MeantKeys(q) \subseteq MeantKeys(q)' /\ MeantUrls(q) \subseteq MeantUrls(q)'
  BY <1>1, ConfigNext, MeantStays
<1>3. ASSUME NEW q \in Processes, pc'[q] = pc[q], key'[q] = key[q], url'[q] = url[q]
      PROVE  Pair(q)'
  BY <1>1, <1>2, <1>3
<1>4. CASE UNCHANGED <<pc, key, url>>
  BY <1>1, <1>3, <1>4 DEF CredentialsInv
<1>5. ASSUME NEW p \in Processes, Step(p) \/ Fail(p) \/ Kill(p)
      PROVE  CredentialsInv'
  <2>1. /\ \E v : pc' = [pc EXCEPT ![p] = v]
        /\ \E v : key' = [key EXCEPT ![p] = v]
        /\ \E v : url' = [url EXCEPT ![p] = v]
    <3>1. pc = [pc EXCEPT ![p] = pc[p]] /\ key = [key EXCEPT ![p] = key[p]]
          /\ url = [url EXCEPT ![p] = url[p]]
      BY <1>1 DEF FilesInv
    <3>2. CASE OpenFile(p) \/ OpenBundle(p)
      BY <3>1, <3>2 DEF OpenFile, OpenBundle, Open, Goto
    <3>3. CASE Read(p) \/ Write(p)
      BY <3>1, <3>3 DEF Read, Write
    <3>4. CASE HashEnds(p) \/ Parse(p) \/ ResolveKey(p) \/ ResolveUrl(p) \/ StartSave(p)
      BY <3>1, <3>4 DEF HashEnds, Parse, ResolveKey, ResolveUrl, StartSave, Goto
    <3>5. CASE \/ PrintHash(p) \/ RejectBundle(p) \/ Judge(p) \/ NoBundle(p) \/ NoKey(p)
               \/ SaveEnds(p) \/ Fail(p) \/ Kill(p)
      <4>1. \E code : Exit(p, code)
        BY <3>5 DEF PrintHash, RejectBundle, Judge, NoBundle, NoKey, SaveEnds, Fail, Kill
      <4>2. QED
        BY <4>1 DEF Exit, Goto
    <3>6. QED
      BY <1>5, <3>2, <3>3, <3>4, <3>5 DEF Step
  <2>2. /\ url' = [q \in Processes |-> url'[q]]
        /\ \A q \in Processes \ {p} : pc'[q] = pc[q] /\ key'[q] = key[q] /\ url'[q] = url[q]
    BY <1>1, <2>1 DEF FilesInv
  <2>3. Pair(p)'
    <3>1. CASE ResolveKey(p)
      <4>1. pc'[p] = "url" /\ key'[p] \in MeantKeys(p)
        BY <1>1, <3>1, KeyIsMeant DEF ResolveKey, Goto, FilesInv
      <4>2. QED
        BY <1>2, <4>1
    <3>2. CASE ResolveUrl(p)
      <4>1. pc'[p] = "save" /\ key'[p] = key[p] /\ pc[p] = "url" /\ url'[p] \in MeantUrls(p)
        BY <1>1, <3>2, UrlIsMeant DEF ResolveUrl, Goto, FilesInv
      <4>2. QED
        BY <1>1, <1>2, <4>1
    <3>3. CASE StartSave(p)
      <4>1. pc'[p] = "write" /\ pc[p] = "save" /\ key' = key /\ url' = url
        BY <1>1, <3>3 DEF StartSave, Goto, FilesInv
      <4>2. QED
        BY <1>1, <1>2, <4>1
    <3>4. CASE Read(p) \/ Write(p)
      BY <1>3, <3>4 DEF Read, Write
    <3>5. CASE OpenFile(p) \/ OpenBundle(p) \/ HashEnds(p) \/ Parse(p)
      <4>1. pc'[p] \in {"hash", "read", "key", "judge", "print", "parsed"}
        BY <1>1, <3>5 DEF OpenFile, OpenBundle, Open, HashEnds, Parse, Goto, FilesInv
      <4>2. QED
        BY <4>1
    <3>6. CASE \/ PrintHash(p) \/ RejectBundle(p) \/ Judge(p) \/ NoBundle(p) \/ NoKey(p)
               \/ SaveEnds(p) \/ Fail(p) \/ Kill(p)
      <4>1. \E code : Exit(p, code)
        BY <3>6 DEF PrintHash, RejectBundle, Judge, NoBundle, NoKey, SaveEnds, Fail, Kill
      <4>2. pc'[p] = "ended"
        BY <1>1, <4>1 DEF Exit, Goto, FilesInv
      <4>3. QED
        BY <4>2
    <3>7. QED
      BY <1>5, <3>1, <3>2, <3>3, <3>4, <3>5, <3>6 DEF Step
  <2>4. \A q \in Processes : Pair(q)'
    BY <1>3, <2>2, <2>3
  <2>5. QED
    BY <1>1, <2>2, <2>4 DEF CredentialsInv
<1>6. CASE AppendFile \/ ReplaceFile \/ RewriteFile \/ EditConfig \/ UNCHANGED sharedVars
  BY <1>4, <1>6 DEF AppendFile, ReplaceFile, RewriteFile, EditConfig, processVars, sharedVars
<1>7. QED
  BY <1>5, <1>6 DEF SharedNext

(* The key and the endpoint of a request come from the command line, the   *)
(* environment or what the file of its own directory has said meanwhile,   *)
(* in that order, for any number of commands, versions, lines and edits.   *)
THEOREM CredentialsMeant == SharedSpec => []SentWhereMeant
<1>1. SharedInit => CredentialsInv
  <2>1. SUFFICES ASSUME SharedInit PROVE CredentialsInv
    OBVIOUS
  <2>2. PICK homes : config \in [homes -> Lines]
    BY <2>1 DEF SharedInit
  <2>3. were = [d \in DOMAIN config |-> {config[d]}]
    BY <2>1 DEF SharedInit
  <2>4. ConfigInv
    BY <2>2, <2>3 DEF ConfigInv
  <2>5. url = [p \in Processes |-> url[p]]
    BY <2>1 DEF SharedInit, Memory
  <2>6. \A p \in Processes : pc[p] \in {"start", "ended"}
    BY <2>1 DEF SharedInit
  <2>7. QED
    BY <2>4, <2>5, <2>6 DEF CredentialsInv
<1>2. CredentialsInv => SentWhereMeant
  BY DEF CredentialsInv, SentWhereMeant, Processes
<1>3. SharedInv /\ CredentialsInv /\ [SharedNext]_sharedVars => CredentialsInv'
  BY CredentialsNext
<1>4. QED
  BY <1>1, <1>2, <1>3, AlwaysInv, PTL DEF SharedSpec

=============================================================================
