------------------------ MODULE BuildEvidenceProofs ------------------------
(***************************************************************************)
(* A fingerprint is that of a file that did not change, and the build      *)
(* script takes only the steps of hash_stable_file on the files, so that   *)
(* all the fingerprints of its evidence are stable.                        *)
(***************************************************************************)
EXTENDS BuildEvidence, TLAPS, SequenceTheorems

InodeType == [content: Contents, mtime: Nat, ctime: Nat, is_file: BOOLEAN]
HandleType ==
  [pass: {"first", "second", "after"}, ino: DOMAIN Disk,
   before: [len: Nat, modified: Nat, ctime: Nat],
   first: Seq(Nat), second: Seq(Nat),
   seen: SUBSET Contents, blind: BOOLEAN, overwrites: Nat]

FileType ==
  /\ now \in Nat
  /\ paths \in [Paths -> 0..Len(Disk)]
  /\ inodes \in [DOMAIN Disk -> InodeType]
  /\ handle \in HandleType \cup {Idle}

\* The time stamp that tells a change, now and when the file was opened.
stamp(i) == IF unix THEN inodes[i].ctime ELSE inodes[i].mtime
before_stamp == IF unix THEN handle.before.ctime ELSE handle.before.modified

PrefixOf(s, c) == Len(s) <= Len(c) /\ \A k \in 1..Len(s) : s[k] = c[k]

\* The file has the content it was opened with, and what was read is of it.
Untouched ==
  LET c == inodes[handle.ino].content
  IN /\ handle.seen = {c}
     /\ handle.before.len = Len(c)
     /\ PrefixOf(handle.first, c)
     /\ handle.pass # "first" => handle.first = c

\* As long as every change leaves its trace, the file is untouched or newer.
TraceInv ==
  handle.pass # "idle" /\ ~handle.blind =>
    /\ before_stamp <= stamp(handle.ino)
    /\ Untouched \/ before_stamp < stamp(handle.ino)

IInv == FileType /\ TraceInv

\* A prefix that is as long as the whole is the whole.
LEMMA PrefixComplete ==
  ASSUME NEW s \in Seq(Nat), NEW c \in Seq(Nat), PrefixOf(s, c), ~(Len(s) + 1 <= Len(c))
  PROVE  s = c
<1>1. Len(s) = Len(c)
  BY DEF PrefixOf
<1>2. \A k \in 1..Len(s) : s[k] = c[k]
  BY DEF PrefixOf
<1> QED  BY <1>1, <1>2, SeqEqual

\* The next block is a block.
LEMMA BlockRead ==
  ASSUME NEW s \in Seq(Nat), NEW c \in Seq(Nat), Len(s) + 1 <= Len(c)
  PROVE  Append(s, c[Len(s) + 1]) \in Seq(Nat)
<1>1. Len(s) + 1 \in 1..Len(c)
  OBVIOUS
<1>2. c[Len(s) + 1] \in Nat
  BY <1>1
<1> QED  BY <1>2

\* Reading the next block extends a prefix.
LEMMA PrefixExtends ==
  ASSUME NEW s \in Seq(Nat), NEW c \in Seq(Nat), PrefixOf(s, c), Len(s) + 1 <= Len(c)
  PROVE  /\ Append(s, c[Len(s) + 1]) \in Seq(Nat)
         /\ PrefixOf(Append(s, c[Len(s) + 1]), c)
  BY DEF PrefixOf

\* What is known of an open file.
LEMMA OpenFile ==
  ASSUME FileType, handle.pass # "idle"
  PROVE  /\ handle \in HandleType
         /\ handle.ino \in DOMAIN Disk
         /\ inodes[handle.ino] \in InodeType
         /\ inodes[handle.ino].content \in Seq(Nat)
         /\ handle.first \in Seq(Nat) /\ handle.second \in Seq(Nat)
<1>1. handle \in HandleType /\ handle.ino \in DOMAIN Disk
  BY DEF FileType, Idle, HandleType
<1>2. inodes[handle.ino] \in InodeType
  BY <1>1 DEF FileType
<1>3. inodes[handle.ino].content \in Seq(Nat)
  BY <1>2, FileAssumption DEF InodeType
<1> QED  BY <1>1, <1>2, <1>3 DEF HandleType

\* At first no file is open.
LEMMA InitIInv == FileInit => IInv
<1> SUFFICES ASSUME FileInit PROVE IInv
  OBVIOUS
<1>1. handle = Idle /\ handle.pass = "idle"
  BY DEF FileInit, Idle
<1>2. inodes \in [DOMAIN Disk -> InodeType]
  <2>1. \A i \in DOMAIN Disk : Disk[i] \in [content: Contents, is_file: BOOLEAN]
    BY FileAssumption, ElementOfSeq, LenProperties
  <2> QED  BY <2>1 DEF FileInit, InodeType
<1>3. paths \in [Paths -> 0..Len(Disk)]
  BY FileAssumption DEF FileInit
<1> QED  BY <1>1, <1>2, <1>3 DEF IInv, FileType, TraceInv, FileInit

\* Opening starts with nothing read.
LEMMA OpenInv == ASSUME IInv, NEW p \in Paths, Open(p) PROVE IInv'
<1> DEFINE i == paths[p]
           c == inodes[i].content
<1>1. /\ i \in DOMAIN Disk /\ inodes[i] \in InodeType /\ c \in Seq(Nat)
      /\ c \in Contents /\ inodes[i].mtime \in Nat /\ inodes[i].ctime \in Nat
  <2>1. i \in DOMAIN Disk
    BY FileAssumption, LenProperties DEF IInv, FileType, Open
  <2>2. inodes[i] \in InodeType
    BY <2>1 DEF IInv, FileType
  <2> QED  BY <2>1, <2>2, FileAssumption DEF InodeType
<1>2. handle' = [pass |-> "first", ino |-> i,
                 before |-> [len |-> Len(c), modified |-> inodes[i].mtime,
                             ctime |-> inodes[i].ctime],
                 first |-> <<>>, second |-> <<>>,
                 seen |-> {c}, blind |-> FALSE, overwrites |-> 0]
  BY DEF Open, metadata
<1>3. UNCHANGED <<unix, now, paths, inodes>>
  BY DEF Open
<1> HIDE DEF i, c
<1>4. Len(c) \in Nat
  BY <1>1
<1>5. handle' \in HandleType
  BY <1>1, <1>2, <1>4 DEF HandleType
<1>6. FileType'
  BY <1>3, <1>5 DEF IInv, FileType
<1>7. Untouched'
  <2>1. c = inodes'[handle'.ino].content
    BY <1>2, <1>3 DEF c
  <2> QED  BY <1>1, <1>2, <1>4, <2>1 DEF Untouched, PrefixOf
<1>8. before_stamp' <= stamp(handle.ino)'
  <2>1. inodes'[handle'.ino] = inodes[i] /\ UNCHANGED unix
    BY <1>2, <1>3
  <2> QED  BY <1>1, <1>2, <2>1 DEF before_stamp, stamp
<1> QED  BY <1>6, <1>7, <1>8 DEF IInv, TraceInv

\* Reading adds a block of the content, or finds its end.
LEMMA ReadInv == ASSUME IInv, Read PROVE IInv'
<1> DEFINE c == inodes[handle.ino].content
<1>1. handle.pass \in {"first", "second"} /\ handle.pass # "idle"
  BY DEF Read
<1>2. UNCHANGED <<unix, now, paths, inodes>>
  BY DEF Read
<1>3. /\ handle \in HandleType /\ c \in Seq(Nat)
      /\ handle.first \in Seq(Nat) /\ handle.second \in Seq(Nat)
  BY <1>1, OpenFile DEF IInv
<1>4. CASE handle.pass = "first"
  <2>1. CASE Len(handle.first) + 1 <= Len(c)
    <3>1. handle' = [handle EXCEPT !.first = Append(@, c[Len(handle.first) + 1])]
      BY <1>4, <2>1 DEF Read
    <3>2. Append(handle.first, c[Len(handle.first) + 1]) \in Seq(Nat)
      BY <1>3, <2>1, BlockRead
    <3>3. handle' \in HandleType
      BY <1>3, <3>1, <3>2 DEF HandleType
    <3>4. Untouched => Untouched'
      <4> SUFFICES ASSUME Untouched PROVE Untouched'
        OBVIOUS
      <4>1. PrefixOf(handle'.first, c)
        BY <1>3, <2>1, <3>1, PrefixExtends DEF Untouched, HandleType
      <4> QED  BY <1>2, <1>3, <1>4, <3>1, <4>1 DEF Untouched, HandleType
    <3> QED  BY <1>1, <1>2, <1>3, <3>1, <3>3, <3>4
             DEF IInv, FileType, TraceInv, before_stamp, stamp, HandleType
  <2>2. CASE ~(Len(handle.first) + 1 <= Len(c))
    <3>1. handle' = [handle EXCEPT !.pass = "second"]
      BY <1>4, <2>2 DEF Read
    <3>2. handle' \in HandleType
      BY <1>3, <3>1 DEF HandleType
    <3>3. Untouched => Untouched'
      <4> SUFFICES ASSUME Untouched PROVE Untouched'
        OBVIOUS
      <4>1. handle.first = c
        BY <1>3, <2>2, PrefixComplete DEF Untouched
      <4> QED  BY <1>2, <1>3, <3>1, <4>1 DEF Untouched, HandleType
    <3> QED  BY <1>1, <1>2, <1>3, <3>1, <3>2, <3>3
             DEF IInv, FileType, TraceInv, before_stamp, stamp, HandleType
  <2> QED  BY <2>1, <2>2
<1>5. CASE handle.pass = "second"
  <2>1. /\ handle' \in HandleType
        /\ handle'.pass # "first"
        /\ \A f \in {"ino", "before", "first", "seen", "blind"} : handle'[f] = handle[f]
    <3>1. CASE Len(handle.second) + 1 <= Len(c)
      <4>1. handle' = [handle EXCEPT !.second = Append(@, c[Len(handle.second) + 1])]
        BY <1>5, <3>1 DEF Read
      <4>2. Append(handle.second, c[Len(handle.second) + 1]) \in Seq(Nat)
        BY <1>3, <3>1, BlockRead
      <4> QED  BY <1>3, <1>5, <4>1, <4>2 DEF HandleType
    <3>2. CASE ~(Len(handle.second) + 1 <= Len(c))
      <4>1. handle' = [handle EXCEPT !.pass = "after"]
        BY <1>5, <3>2 DEF Read
      <4> QED  BY <1>3, <4>1 DEF HandleType
    <3> QED  BY <3>1, <3>2
  <2>2. Untouched => Untouched'
    BY <1>2, <1>5, <2>1 DEF Untouched
  <2> QED  BY <1>1, <1>2, <2>1, <2>2 DEF IInv, FileType, TraceInv, before_stamp, stamp
<1> QED  BY <1>1, <1>4, <1>5

\* Closing, and a path that cannot be opened.
LEMMA CloseInv ==
  ASSUME IInv, Fail \/ Close \/ \E p \in Paths : CannotOpen(p)
  PROVE  IInv'
<1>1. UNCHANGED <<unix, now, paths, inodes>> /\ handle' \in {handle, Idle}
  BY DEF Fail, Close, CannotOpen, file_vars
<1>2. FileType'
  BY <1>1 DEF IInv, FileType
<1>3. CASE handle' = Idle
  BY <1>2, <1>3 DEF IInv, TraceInv, Idle
<1>4. CASE handle' = handle
  <2>1. TraceInv'
    BY <1>1, <1>4 DEF IInv, TraceInv, Untouched, before_stamp, stamp
  <2> QED  BY <1>2, <2>1 DEF IInv
<1> QED  BY <1>1, <1>3, <1>4

\* A change of the open file is noted; a traced one makes it newer.
LEMMA NotedInv ==
  ASSUME IInv, NEW i \in DOMAIN Disk, NEW changed \in BOOLEAN, NEW traced \in BOOLEAN,
         NEW inode \in InodeType,
         inodes' = [inodes EXCEPT ![i] = inode],
         handle' = noted(i, changed, traced),
         traced => stamp(i)' > stamp(i),
         now' \in Nat, UNCHANGED <<unix, paths>>
  PROVE  IInv'
<1>1. inodes' \in [DOMAIN Disk -> InodeType] /\ inodes'[i] = inode
      /\ \A j \in DOMAIN Disk : j # i => inodes'[j] = inodes[j]
  BY DEF IInv, FileType
<1>2. CASE handle.pass # "idle" /\ handle.ino = i
  <2>1. handle \in HandleType
    BY <1>2, OpenFile DEF IInv
  <2>2. handle' = [handle EXCEPT !.seen = @ \cup {inode.content},
                                 !.blind = @ \/ ~traced,
                                 !.overwrites = IF changed THEN @ + 1 ELSE @]
    BY <1>1, <1>2 DEF noted
  <2>3. /\ handle'.pass = handle.pass /\ handle'.ino = handle.ino
        /\ handle'.before = handle.before
        /\ handle'.blind = (handle.blind \/ ~traced)
    BY <2>1, <2>2 DEF HandleType
  <2>4. handle' \in HandleType
    <3>1. handle.seen \cup {inode.content} \in SUBSET Contents
      BY <2>1 DEF HandleType, InodeType
    <3>2. (handle.blind \/ ~traced) \in BOOLEAN
      BY Zenon
    <3>3. (IF changed THEN handle.overwrites + 1 ELSE handle.overwrites) \in Nat
      BY <2>1 DEF HandleType
    <3> QED  BY <2>1, <2>2, <3>1, <3>2, <3>3 DEF HandleType
  <2>5. FileType'
    BY <1>1, <2>4 DEF IInv, FileType
  <2>6. ASSUME ~handle'.blind PROVE before_stamp' < stamp(i)'
    <3>1. traced /\ ~handle.blind
      BY <2>3, <2>6
    <3>2. stamp(i)' > stamp(i)
      BY <3>1
    <3>3. before_stamp' = before_stamp
      BY <2>3 DEF before_stamp
    <3>4. before_stamp \in Nat /\ stamp(i) \in Nat /\ stamp(i)' \in Nat
      BY <1>1, <2>1 DEF before_stamp, stamp, IInv, FileType, InodeType, HandleType
    <3>5. before_stamp <= stamp(i)
      BY <1>2, <3>1 DEF IInv, TraceInv
    <3> QED  BY <3>2, <3>3, <3>4, <3>5
  <2>7. TraceInv'
    <3>1. before_stamp' \in Nat /\ stamp(i)' \in Nat
      BY <1>1, <2>4 DEF before_stamp, stamp, IInv, FileType, InodeType, HandleType
    <3>2. stamp(handle.ino)' = stamp(i)'
      BY <1>2, <2>3 DEF stamp
    <3> QED  BY <2>3, <2>6, <3>1, <3>2 DEF TraceInv
  <2> QED  BY <2>5, <2>7 DEF IInv
<1>3. CASE ~(handle.pass # "idle" /\ handle.ino = i)
  <2>1. handle' = handle
    BY <1>3 DEF noted
  <2>2. FileType'
    BY <1>1, <2>1 DEF IInv, FileType
  <2>3. ASSUME handle.pass # "idle" PROVE inodes'[handle.ino] = inodes[handle.ino]
    BY <1>1, <1>3, <2>3, OpenFile DEF IInv
  <2>4. TraceInv'
    BY <2>1, <2>3 DEF IInv, TraceInv, Untouched, before_stamp, stamp
  <2> QED  BY <2>2, <2>4 DEF IInv
<1> QED  BY <1>2, <1>3

\* Writes, utimes and renames by others.
LEMMA OthersInv == ASSUME IInv, Others PROVE IInv'
<1>0. DOMAIN inodes = DOMAIN Disk
  BY DEF IInv, FileType
<1>1. ASSUME NEW i \in DOMAIN Disk, NEW c \in Contents, Write(i, c) PROVE IInv'
  <2> DEFINE inode  == [inodes[i] EXCEPT !.content = c, !.mtime = now', !.ctime = now']
             traced == now' > IF unix THEN inodes[i].ctime ELSE inodes[i].mtime
  <2>1. now' \in Nat /\ UNCHANGED <<unix, paths>>
    BY <1>1 DEF Write, Elapse, IInv, FileType
  <2>2. inodes[i] \in InodeType
    BY DEF IInv, FileType
  <2>3. inode \in InodeType /\ inode.mtime = now' /\ inode.ctime = now'
    BY <2>1, <2>2 DEF InodeType
  <2>4. inodes' = [inodes EXCEPT ![i] = inode]
    BY <1>0, <1>1 DEF Write
  <2>5. handle' = noted(i, TRUE, traced)
    BY <1>1 DEF Write
  <2>6. traced => stamp(i)' > stamp(i)
    <3>1. inodes'[i] = inode
      BY <1>0, <2>4
    <3> QED  BY <2>1, <2>3, <3>1 DEF stamp
  <2>7. traced \in BOOLEAN
    OBVIOUS
  <2> HIDE DEF inode, traced
  <2> QED  BY <2>1, <2>3, <2>4, <2>5, <2>6, <2>7, NotedInv
<1>2. ASSUME NEW i \in DOMAIN Disk, NEW t \in 0..now, SetModified(i, t) PROVE IInv'
  <2> DEFINE inode  == [inodes[i] EXCEPT !.mtime = t, !.ctime = now']
             traced == unix /\ now' > inodes[i].ctime
  <2>1. now' \in Nat /\ UNCHANGED <<unix, paths>> /\ t \in Nat
    BY <1>2 DEF SetModified, Elapse, IInv, FileType
  <2>2. inodes[i] \in InodeType
    BY DEF IInv, FileType
  <2>3. inode \in InodeType /\ inode.ctime = now'
    BY <2>1, <2>2 DEF InodeType
  <2>4. inodes' = [inodes EXCEPT ![i] = inode]
    BY <1>0, <1>2 DEF SetModified
  <2>5. handle' = noted(i, FALSE, traced)
    BY <1>2 DEF SetModified
  <2>6. traced => stamp(i)' > stamp(i)
    <3>1. inodes'[i] = inode
      BY <1>0, <2>4
    <3> QED  BY <2>1, <2>3, <3>1 DEF stamp
  <2>7. traced \in BOOLEAN
    BY Zenon
  <2> HIDE DEF inode, traced
  <2> QED  BY <2>1, <2>3, <2>4, <2>5, <2>6, <2>7, NotedInv
<1>3. ASSUME NEW p \in Paths, NEW i \in 0..Len(Disk), Rename(p, i) PROVE IInv'
  <2>1. now' \in Nat /\ paths' \in [Paths -> 0..Len(Disk)]
        /\ UNCHANGED <<unix, inodes, handle>>
    BY <1>3 DEF Rename, Elapse, IInv, FileType
  <2> QED  BY <2>1 DEF IInv, FileType, TraceInv, Untouched, before_stamp, stamp
<1> QED  BY <1>0, <1>1, <1>2, <1>3 DEF Others

\* Every step preserves the invariant.
LEMMA NextInv == IInv /\ [FileNext]_file_vars => IInv'
<1> SUFFICES ASSUME IInv, [FileNext]_file_vars PROVE IInv'
  OBVIOUS
<1>1. CASE UNCHANGED file_vars
  BY <1>1 DEF IInv, FileType, TraceInv, Untouched, before_stamp, stamp, file_vars
<1>2. ASSUME NEW p \in Paths, Open(p) PROVE IInv'
  BY <1>2, OpenInv
<1>3. CASE Read
  BY <1>3, ReadInv
<1>4. CASE Fail \/ Close \/ \E p \in Paths : CannotOpen(p)
  BY <1>4, CloseInv
<1>5. CASE Others
  BY <1>5, OthersInv
<1> QED  BY <1>1, <1>2, <1>3, <1>4, <1>5 DEF FileNext

\* The inductive invariant of the files.
LEMMA FilesInvariant == FileSpec => []IInv
BY InitIInv, NextInv, PTL DEF FileSpec

\* hash_stable_file: a fingerprint is of a file that nobody changed meanwhile, as
\* long as every change had a time stamp of its own.
THEOREM FingerprintsStable == FileSpec => []StableFingerprint
<1>1. IInv => StableFingerprint
  <2> SUFFICES ASSUME IInv, Stable, ~handle.blind
               PROVE  handle.seen = {handle.first} /\ handle.before.len = Len(handle.first)
    BY DEF StableFingerprint
  <2>1. handle.pass = "after"
    BY DEF Stable
  <2>2. before_stamp = stamp(handle.ino)
    BY DEF Stable, is_stable, same_file_snapshot, metadata, before_stamp, stamp
  <2>3. before_stamp \in Nat
    BY <2>1, OpenFile DEF IInv, HandleType, before_stamp
  <2>4. Untouched
    BY <2>1, <2>2, <2>3 DEF IInv, TraceInv
  <2> QED  BY <2>1, <2>4 DEF Untouched
<1> QED  BY <1>1, FilesInvariant, PTL

-----------------------------------------------------------------------------
(* Hashes of a file that changes once                                      *)

\* As long as the file has not changed, what was read is of its content; with one
\* change the first pass or the second is of a single content.
MomentInv ==
  handle.pass # "idle" =>
    LET c == inodes[handle.ino].content
    IN /\ c \in handle.seen
       /\ handle.overwrites = 0 =>
            /\ PrefixOf(handle.first, c)
            /\ handle.pass # "first" => handle.first = c
       /\ handle.overwrites < 2 =>
            \/ handle.pass # "first" /\ handle.first \in handle.seen
            \/ PrefixOf(handle.second, c) /\ (handle.pass = "after" => handle.second = c)
       /\ handle.pass = "first" => handle.second = <<>>

LEMMA ReadMoment == ASSUME IInv, MomentInv, Read PROVE MomentInv'
<1>1. /\ handle.pass \in {"first", "second"} /\ handle.pass # "idle"
      /\ UNCHANGED <<unix, now, paths, inodes>>
  BY DEF Read
<1>2. PICK c : c = inodes[handle.ino].content
  OBVIOUS
<1>3. /\ handle \in HandleType /\ c \in Seq(Nat)
      /\ handle.first \in Seq(Nat) /\ handle.second \in Seq(Nat)
      /\ handle.overwrites \in Nat
  BY <1>1, <1>2, OpenFile DEF IInv, HandleType
<1>4. CASE handle.pass = "first" /\ Len(handle.first) + 1 <= Len(c)
  <2>1. PICK f : f = Append(handle.first, c[Len(handle.first) + 1])
    OBVIOUS
  <2>2. handle' = [handle EXCEPT !.first = f]
    BY <1>2, <1>4, <2>1 DEF Read
  <2>3. PrefixOf(handle.first, c) => PrefixOf(f, c)
    BY <1>3, <1>4, <2>1, PrefixExtends
  <2>4. /\ handle'.first = f /\ handle'.pass = "first"
        /\ \A x \in {"ino", "seen", "second", "overwrites"} : handle'[x] = handle[x]
    BY <1>3, <1>4, <2>2 DEF HandleType
  <2>. QED BY <1>1, <1>2, <1>4, <2>3, <2>4 DEF MomentInv
<1>5. CASE handle.pass = "first" /\ ~(Len(handle.first) + 1 <= Len(c))
  <2>1. handle' = [handle EXCEPT !.pass = "second"]
    BY <1>2, <1>5 DEF Read
  <2>2. /\ handle'.pass = "second"
        /\ \A x \in {"ino", "seen", "first", "second", "overwrites"} : handle'[x] = handle[x]
    BY <1>3, <2>1 DEF HandleType
  <2>3. PrefixOf(handle.first, c) => handle.first = c
    BY <1>3, <1>5, PrefixComplete
  <2>4. PrefixOf(<<>>, c)
    BY <1>3 DEF PrefixOf
  <2>. QED BY <1>1, <1>2, <1>5, <2>2, <2>3, <2>4 DEF MomentInv
<1>6. CASE handle.pass = "second" /\ Len(handle.second) + 1 <= Len(c)
  <2>1. PICK f : f = Append(handle.second, c[Len(handle.second) + 1])
    OBVIOUS
  <2>2. handle' = [handle EXCEPT !.second = f]
    BY <1>2, <1>6, <2>1 DEF Read
  <2>3. PrefixOf(handle.second, c) => PrefixOf(f, c)
    BY <1>3, <1>6, <2>1, PrefixExtends
  <2>4. /\ handle'.second = f /\ handle'.pass = "second"
        /\ \A x \in {"ino", "seen", "first", "overwrites"} : handle'[x] = handle[x]
    BY <1>3, <1>6, <2>2 DEF HandleType
  <2>. QED BY <1>1, <1>2, <1>6, <2>3, <2>4 DEF MomentInv
<1>7. CASE handle.pass = "second" /\ ~(Len(handle.second) + 1 <= Len(c))
  <2>1. handle' = [handle EXCEPT !.pass = "after"]
    BY <1>2, <1>7 DEF Read
  <2>2. /\ handle'.pass = "after"
        /\ \A x \in {"ino", "seen", "first", "second", "overwrites"} : handle'[x] = handle[x]
    BY <1>3, <2>1 DEF HandleType
  <2>3. PrefixOf(handle.second, c) => handle.second = c
    BY <1>3, <1>7, PrefixComplete
  <2>. QED BY <1>1, <1>2, <1>7, <2>2, <2>3 DEF MomentInv
<1> QED  BY <1>1, <1>4, <1>5, <1>6, <1>7

\* A change of the open file counts, unless it leaves the content alone.
LEMMA NotedMoment ==
  ASSUME IInv, MomentInv, NEW i \in DOMAIN Disk, NEW changed \in BOOLEAN,
         NEW traced \in BOOLEAN, NEW inode \in InodeType,
         inodes' = [inodes EXCEPT ![i] = inode],
         handle' = noted(i, changed, traced),
         changed \/ inode.content = inodes[i].content
  PROVE  MomentInv'
<1>1. /\ inodes'[i] = inode
      /\ \A j \in DOMAIN Disk : j # i => inodes'[j] = inodes[j]
  BY DEF IInv, FileType
<1>2. CASE handle.pass # "idle" /\ handle.ino = i
  <2>1. handle \in HandleType /\ handle.overwrites \in Nat
    BY <1>2, OpenFile DEF IInv, HandleType
  <2>2. PICK n : n = IF changed THEN handle.overwrites + 1 ELSE handle.overwrites
    OBVIOUS
  <2>3. handle' = [handle EXCEPT !.seen = @ \cup {inode.content},
                                 !.blind = @ \/ ~traced,
                                 !.overwrites = n]
    BY <1>1, <1>2, <2>2 DEF noted
  <2>4. /\ \A x \in {"pass", "ino", "first", "second"} : handle'[x] = handle[x]
        /\ handle'.seen = handle.seen \cup {inode.content}
        /\ handle'.overwrites = n
    BY <2>1, <2>3 DEF HandleType
  <2>5. CASE changed
    <3>1. n # 0 /\ (n < 2 => handle.overwrites = 0)
      BY <2>1, <2>2, <2>5
    <3>2. PrefixOf(<<>>, inode.content)
      BY FileAssumption DEF InodeType, PrefixOf
    <3>. QED BY <1>1, <1>2, <2>4, <3>1, <3>2 DEF MomentInv
  <2>6. CASE ~changed
    <3>1. n = handle.overwrites /\ inode.content = inodes[handle.ino].content
      BY <1>2, <2>2, <2>6
    <3>. QED BY <1>1, <1>2, <2>4, <3>1 DEF MomentInv
  <2>. QED BY <2>5, <2>6
<1>3. CASE ~(handle.pass # "idle" /\ handle.ino = i)
  <2>1. handle' = handle
    BY <1>3 DEF noted
  <2>2. ASSUME handle.pass # "idle" PROVE inodes'[handle.ino] = inodes[handle.ino]
    BY <1>1, <1>3, <2>2, OpenFile DEF IInv
  <2>. QED BY <2>1, <2>2 DEF MomentInv
<1> QED  BY <1>2, <1>3

LEMMA NextMoment == IInv /\ MomentInv /\ [FileNext]_file_vars => MomentInv'
<1> SUFFICES ASSUME IInv, MomentInv, [FileNext]_file_vars PROVE MomentInv'
  OBVIOUS
<1>0. DOMAIN inodes = DOMAIN Disk
  BY DEF IInv, FileType
<1>1. CASE UNCHANGED file_vars
  BY <1>1 DEF MomentInv, file_vars
<1>2. ASSUME NEW p \in Paths, Open(p) PROVE MomentInv'
  <2>1. /\ UNCHANGED inodes /\ handle'.pass = "first" /\ handle'.ino = paths[p]
        /\ handle'.first = <<>> /\ handle'.second = <<>>
        /\ handle'.seen = {inodes[paths[p]].content}
    BY <1>2 DEF Open
  <2>2. PICK c : c = inodes[paths[p]].content
    OBVIOUS
  <2>3. c \in Seq(Nat)
    <3>1. IInv' /\ handle'.pass # "idle"
      BY <1>2, <2>1, OpenInv
    <3>2. inodes'[handle'.ino] \in InodeType
      BY <3>1 DEF IInv, FileType, HandleType, Idle
    <3>. QED BY <2>1, <2>2, <3>2, FileAssumption DEF InodeType
  <2>4. PrefixOf(<<>>, c)
    BY <2>3 DEF PrefixOf
  <2>. QED BY <2>1, <2>2, <2>4 DEF MomentInv
<1>3. CASE Read
  BY <1>3, ReadMoment
<1>4. CASE Fail \/ Close \/ \E p \in Paths : CannotOpen(p)
  BY <1>4 DEF Fail, Close, CannotOpen, file_vars, MomentInv, Idle
<1>5. ASSUME NEW i \in DOMAIN Disk, NEW c \in Contents, Write(i, c) PROVE MomentInv'
  <2>1. inodes[i] \in InodeType /\ now' \in Nat
    BY <1>5 DEF IInv, FileType, Write, Elapse
  <2>2. PICK inode : inode = [inodes[i] EXCEPT !.content = c, !.mtime = now', !.ctime = now']
    OBVIOUS
  <2>3. inode \in InodeType
    BY <2>1, <2>2 DEF InodeType
  <2>4. inodes' = [inodes EXCEPT ![i] = inode]
    BY <1>0, <1>5, <2>2 DEF Write
  <2>. DEFINE traced == now' > IF unix THEN inodes[i].ctime ELSE inodes[i].mtime
  <2>5. traced \in BOOLEAN
    OBVIOUS
  <2>6. handle' = noted(i, TRUE, traced)
    BY <1>5 DEF Write
  <2>. HIDE DEF traced
  <2>. QED BY <2>5, <2>3, <2>4, <2>6, NotedMoment
<1>6. ASSUME NEW i \in DOMAIN Disk, NEW t \in 0..now, SetModified(i, t) PROVE MomentInv'
  <2>1. inodes[i] \in InodeType /\ now' \in Nat /\ t \in Nat
    BY <1>6 DEF IInv, FileType, SetModified, Elapse
  <2>2. PICK inode : inode = [inodes[i] EXCEPT !.mtime = t, !.ctime = now']
    OBVIOUS
  <2>3. inode \in InodeType /\ inode.content = inodes[i].content
    BY <2>1, <2>2 DEF InodeType
  <2>4. inodes' = [inodes EXCEPT ![i] = inode]
    BY <1>0, <1>6, <2>2 DEF SetModified
  <2>. DEFINE traced == unix /\ now' > inodes[i].ctime
  <2>5. traced \in BOOLEAN
    BY Zenon
  <2>6. handle' = noted(i, FALSE, traced)
    BY <1>6 DEF SetModified
  <2>. HIDE DEF traced
  <2>. QED BY <2>5, <2>3, <2>4, <2>6, NotedMoment
<1>7. ASSUME NEW p \in Paths, NEW i \in 0..Len(Disk), Rename(p, i) PROVE MomentInv'
  BY <1>7 DEF Rename, MomentInv
<1> QED  BY <1>0, <1>1, <1>2, <1>3, <1>4, <1>5, <1>6, <1>7 DEF FileNext, Others

\* What hash_stable_file returns is the hash of a content the file had at one moment,
\* whatever the time stamps say, unless the whole file changed more than once.
THEOREM HashesOneMoment == FileSpec => []HashOfOneMoment
<1>1. FileInit => MomentInv
  BY DEF FileInit, MomentInv, Idle
<1>2. IInv /\ MomentInv => HashOfOneMoment
  BY DEF MomentInv, HashOfOneMoment, Stable, is_stable
<1> QED  BY <1>1, <1>2, FilesInvariant, NextMoment, PTL DEF FileSpec

-----------------------------------------------------------------------------
(* The build script                                                        *)

\* The artifacts are at paths of the disk.
PathsInv ==
  /\ \A a \in produced : a.path \in Paths
  /\ \A k \in DOMAIN cmake_cache : cmake_cache[k].value \in Paths
  /\ \E S : inputs \in Seq(S) /\ \A a \in S : a.path \in Paths

\* The next artifact's path is one of the disk.
LEMMA InputPath ==
  ASSUME PathsInv, inputs # <<>>
  PROVE  /\ input.path \in Paths
         /\ \E S : Tail(inputs) \in Seq(S) /\ \A a \in S : a.path \in Paths
<1>1. PICK S : inputs \in Seq(S) /\ \A a \in S : a.path \in Paths
  BY DEF PathsInv
<1>2. Head(inputs) \in S /\ Tail(inputs) \in Seq(S)
  BY <1>1
<1> QED  BY <1>1, <1>2 DEF input

\* The environment's paths are given.
LEMMA InitPaths == Init => PathsInv
<1> SUFFICES ASSUME Init PROVE PathsInv
  OBVIOUS
<1>1. inputs \in Seq({})
  BY DEF Init
<1>2. PICK build \in Builds : produced = build.produced /\ cmake_cache = build.cmake_cache
  BY DEF Init
<1> QED  BY <1>1, <1>2, EvidenceAssumption DEF PathsInv

\* The inputs of collect are the gathered artifacts.
LEMMA GatherPaths == ASSUME PathsInv, Gather PROVE PathsInv'
<1> DEFINE all == produced \cup IF system_ggml THEN selected_external ELSE {}
<1>1. \A a \in all : a.path \in Paths
  <2>1. \A a \in selected_external : a.path \in Paths
    BY DEF PathsInv, selected_external, ggml_lines
  <2> QED  BY <2>1 DEF PathsInv
<1>2. UNCHANGED env_vars
  BY DEF Gather
<1>3. inputs' = inputs \/ inputs' \in sorted(all)
  BY DEF Gather
<1>4. CASE inputs' = inputs
  BY <1>2, <1>4 DEF PathsInv, env_vars
<1>5. CASE inputs' \in sorted(all)
  <2>1. inputs' \in Seq(all)
    BY <1>5, EvidenceAssumption DEF sorted
  <2> HIDE DEF all
  <2> QED  BY <1>1, <1>2, <2>1 DEF PathsInv, env_vars
<1> QED  BY <1>3, <1>4, <1>5

\* Every other step keeps the paths, and inserting goes on to the next one.
LEMMA NextPaths == PathsInv /\ [Next]_vars => PathsInv'
<1> SUFFICES ASSUME PathsInv, [Next]_vars PROVE PathsInv'
  OBVIOUS
<1>1. CASE Gather
  BY <1>1, GatherPaths
<1>2. CASE Insert
  <2>1. inputs # <<>> /\ inputs' = Tail(inputs) /\ UNCHANGED env_vars
    BY <1>2 DEF Insert, Collecting
  <2> QED  BY <2>1, InputPath DEF PathsInv, env_vars
<1>3. CASE \/ EffectiveFeatures \/ RejectInput \/ OpenInput \/ ReadInput \/ CollectFails
           \/ Emit \/ OthersStep \/ UNCHANGED vars
  <2>1. UNCHANGED <<env_vars, inputs>>
    BY <1>3 DEF EffectiveFeatures, RejectInput, OpenInput, ReadInput, CollectFails, Emit,
                OthersStep, vars
  <2> QED  BY <2>1 DEF PathsInv, env_vars
<1> QED  BY <1>1, <1>2, <1>3 DEF Next

\* A step of the script is a step of hash_stable_file, of another process, or none
\* on files.
LEMMA StepOnFiles == PathsInv /\ [Next]_vars => [FileNext]_file_vars
<1> SUFFICES ASSUME PathsInv, [Next]_vars PROVE [FileNext]_file_vars
  OBVIOUS
<1>1. CASE OpenInput
  <2>1. input.path \in Paths
    BY <1>1, InputPath DEF OpenInput, Collecting
  <2>2. Open(input.path) \/ CannotOpen(input.path)
    BY <1>1 DEF OpenInput
  <2> QED  BY <2>1, <2>2 DEF FileNext
<1>2. CASE ReadInput \/ CollectFails \/ Insert \/ OthersStep
  BY <1>2 DEF ReadInput, CollectFails, Insert, OthersStep, FileNext
<1>3. CASE EffectiveFeatures \/ Gather \/ RejectInput \/ Emit \/ UNCHANGED vars
  BY <1>3 DEF EffectiveFeatures, Gather, RejectInput, Emit, vars
<1> QED  BY <1>1, <1>2, <1>3 DEF Next

\* The build script implements the protocol of hash_stable_file on the disk.
THEOREM ScriptUsesFiles == Spec => FileSpec
<1>1. Init => FileInit
  BY DEF Init
<1> QED  BY <1>1, InitPaths, NextPaths, StepOnFiles, PTL DEF Spec, FileSpec

\* collect: every fingerprint in the evidence is of a file that nobody changed
\* meanwhile, as long as every change had a time stamp of its own.
THEOREM EvidenceIsStable == Spec => []StableFingerprint
  BY ScriptUsesFiles, FingerprintsStable, PTL

\* collect: every fingerprint in the evidence is the hash of a content its file had at
\* one moment, unless the file changed more than once meanwhile.
THEOREM EvidenceOfOneMoment == Spec => []HashOfOneMoment
  BY ScriptUsesFiles, HashesOneMoment, PTL

-----------------------------------------------------------------------------
(* What the evidence accounts for                                          *)

NamesOf(s) == {s[k].logical_name : k \in DOMAIN s}
InOrder(s) == \A j, k \in DOMAIN s : j < k => s[j].logical_name < s[k].logical_name
GatheredNames == {a.logical_name : a \in gathered}

\* Between gathering and emitting, the entries and the inputs left over are the
\* artifacts gathered, in the order of the names.
CollectInv ==
  /\ inputs \in Seq(gathered)
  /\ NamesOf(by_name) \cup NamesOf(inputs) = GatheredNames
  /\ InOrder(by_name) /\ InOrder(inputs)
  /\ \A j \in DOMAIN by_name, k \in DOMAIN inputs :
       by_name[j].logical_name < inputs[k].logical_name
  /\ \A a \in gathered : a.external => a.path \in rerun \/ \E k \in DOMAIN inputs : inputs[k] = a
  /\ system_ggml => Required \subseteq GatheredNames

\* The file that is open is that of the next input.
OpenInputInv ==
  handle.pass # "idle" =>
    pc = "collect" /\ inputs # <<>> /\ (input.external => input.path \in rerun)

EvidenceInv ==
  /\ \E S : by_name \in Seq(S)
  /\ pc \in {"features", "gather"} => by_name = <<>>
  /\ pc \in {"gather", "collect", "emitted"} => features = active
  /\ pc \in {"collect", "emitted"} => CollectInv
  /\ pc = "emitted" => inputs = <<>> /\ metadata_entries = by_name
  /\ OpenInputInv

\* The entries are a sequence also with one more.
LEMMA OneMoreEntry ==
  ASSUME NEW S, NEW s \in Seq(S), NEW e
  PROVE  /\ \E T : Append(s, e) \in Seq(T)
         /\ DOMAIN s = 1..Len(s) /\ Len(s) \in Nat
         /\ DOMAIN Append(s, e) = 1..(Len(s) + 1)
         /\ \A k \in DOMAIN s : Append(s, e)[k] = s[k]
         /\ Append(s, e)[Len(s) + 1] = e
<1>1. s \in Seq(S \cup {e}) /\ e \in S \cup {e}
  OBVIOUS
<1>2. Append(s, e) \in Seq(S \cup {e})
  BY <1>1
<1> QED  BY <1>1, <1>2

\* The input that comes first, and those that follow it.
LEMMA NextInput ==
  ASSUME NEW S, NEW s \in Seq(S), s # <<>>
  PROVE  /\ Tail(s) \in Seq(S) /\ 1 \in DOMAIN s /\ Head(s) = s[1]
         /\ DOMAIN s = 1..Len(s) /\ Len(s) \in Nat /\ DOMAIN Tail(s) = 1..(Len(s) - 1)
         /\ \A k \in DOMAIN Tail(s) : k + 1 \in DOMAIN s /\ Tail(s)[k] = s[k + 1]
         /\ \A k \in DOMAIN s : k = 1 \/ (k - 1 \in DOMAIN Tail(s) /\ Tail(s)[k - 1] = s[k])
<1>1. /\ Tail(s) \in Seq(S) /\ Len(s) \in Nat /\ Len(s) >= 1 /\ DOMAIN s = 1..Len(s)
      /\ Head(s) = s[1] /\ Len(Tail(s)) = Len(s) - 1 /\ DOMAIN Tail(s) = 1..(Len(s) - 1)
      /\ \A k \in 1..(Len(s) - 1) : Tail(s)[k] = s[k + 1]
  OBVIOUS
<1>2. ASSUME NEW k \in DOMAIN s, k # 1 PROVE k - 1 \in DOMAIN Tail(s) /\ Tail(s)[k - 1] = s[k]
  <2>1. k - 1 \in 1..(Len(s) - 1) /\ (k - 1) + 1 = k
    BY <1>1, <1>2
  <2>. QED BY <1>1, <2>1
<1> QED  BY <1>1, <1>2

LEMMA GatherEvidence == ASSUME EvidenceInv, Gather PROVE EvidenceInv'
<1> DEFINE all == produced \cup IF system_ggml THEN selected_external ELSE {}
<1>1. /\ pc = "gather" /\ gathered' = all /\ pc' \in {"failed", "collect"}
      /\ UNCHANGED <<handle, active, features, by_name, rerun, metadata_entries>>
  BY DEF Gather, file_vars, env_vars
<1>2. by_name = <<>> /\ features = active /\ handle.pass = "idle"
  BY <1>1 DEF EvidenceInv, OpenInputInv
<1>3. ASSUME pc' = "collect" PROVE CollectInv'
  <2>1. inputs' \in sorted(all) /\ (system_ggml => cache_ok)
    BY <1>3 DEF Gather
  <2>2. PICK n \in 1..MAX_ARTIFACTS : inputs' \in [1..n -> all]
    BY <2>1 DEF sorted
  <2>3. /\ \A a \in all : \E k \in DOMAIN inputs' : inputs'[k] = a
        /\ \A j, k \in DOMAIN inputs' : j < k => inputs'[j].logical_name < inputs'[k].logical_name
    BY <2>1 DEF sorted
  <2>4. system_ggml => Required \subseteq {a.logical_name : a \in all}
    <3>. SUFFICES ASSUME system_ggml, NEW r \in Required
                  PROVE  \E a \in all : a.logical_name = r
      OBVIOUS
    <3>1. PICK k \in ggml_lines : cmake_cache[k].name = r
      BY <2>1 DEF cache_ok
    <3>2. PICK a : a = [logical_name |-> cmake_cache[k].name, path |-> cmake_cache[k].value,
                        external |-> TRUE]
      OBVIOUS
    <3>3. a \in all /\ a.logical_name = r
      BY <3>1, <3>2 DEF selected_external
    <3>. QED BY <3>3
  <2> HIDE DEF all
  <2>5. inputs' \in Seq(all) /\ DOMAIN inputs' = 1..n
    BY <2>2, EvidenceAssumption
  <2>6. NamesOf(inputs') = {a.logical_name : a \in all}
    BY <2>2, <2>3, <2>5 DEF NamesOf
  <2>7. system_ggml' = system_ggml
    BY <1>1 DEF system_ggml
  <2>8. NamesOf(by_name') = {} /\ DOMAIN by_name' = {}
    BY <1>1, <1>2 DEF NamesOf
  <2>9. GatheredNames' = {a.logical_name : a \in all} /\ NamesOf(inputs)' = NamesOf(inputs')
        /\ NamesOf(by_name)' = NamesOf(by_name')
    BY <1>1 DEF GatheredNames, NamesOf
  <2> QED  BY <1>1, <2>3, <2>4, <2>5, <2>6, <2>7, <2>8, <2>9 DEF CollectInv, InOrder
<1>4. (\E S : by_name \in Seq(S))'
  BY <1>1 DEF EvidenceInv
<1> HIDE DEF all
<1> QED  BY <1>1, <1>2, <1>3, <1>4 DEF EvidenceInv, OpenInputInv

LEMMA InsertEvidence == ASSUME EvidenceInv, Insert PROVE EvidenceInv'
<1>1. PICK e : e = [logical_name |-> input.logical_name,
                    artifact     |-> fingerprint(metadata(handle.ino))]
  OBVIOUS
<1>2. /\ pc = "collect" /\ pc' = pc /\ inputs # <<>> /\ handle.pass = "after"
      /\ by_name' = Append(by_name, e) /\ inputs' = Tail(inputs) /\ handle' = Idle
      /\ UNCHANGED <<active, features, gathered, rerun, metadata_entries>>
  BY <1>1 DEF Insert, Collecting, Stable, Close, env_vars
<1>3. e.logical_name = input.logical_name
  BY <1>1
<1>4. CollectInv /\ (input.external => input.path \in rerun)
  BY <1>2 DEF EvidenceInv, OpenInputInv
<1>5. PICK S : by_name \in Seq(S)
  BY DEF EvidenceInv
<1>6. PICK entries : entries = by_name' /\ entries = Append(by_name, e)
  BY <1>2
<1>7. PICK rest : rest = inputs'
  OBVIOUS
<1>8. /\ DOMAIN by_name = 1..Len(by_name) /\ Len(by_name) \in Nat
      /\ DOMAIN entries = 1..(Len(by_name) + 1) /\ (\E T : entries \in Seq(T))
      /\ \A k \in DOMAIN by_name : entries[k] = by_name[k]
      /\ entries[Len(by_name) + 1] = e
  <2>1. /\ \E T : Append(by_name, e) \in Seq(T)
        /\ DOMAIN by_name = 1..Len(by_name) /\ Len(by_name) \in Nat
        /\ DOMAIN Append(by_name, e) = 1..(Len(by_name) + 1)
        /\ \A k \in DOMAIN by_name : Append(by_name, e)[k] = by_name[k]
        /\ Append(by_name, e)[Len(by_name) + 1] = e
    BY <1>5, OneMoreEntry
  <2>. QED BY <1>6, <2>1
<1>9. /\ rest \in Seq(gathered) /\ 1 \in DOMAIN inputs /\ input = inputs[1]
      /\ DOMAIN inputs = 1..Len(inputs) /\ Len(inputs) \in Nat /\ DOMAIN rest = 1..(Len(inputs) - 1)
      /\ \A k \in DOMAIN rest : k + 1 \in DOMAIN inputs /\ rest[k] = inputs[k + 1]
      /\ \A k \in DOMAIN inputs : k = 1 \/ (k - 1 \in DOMAIN rest /\ rest[k - 1] = inputs[k])
  BY <1>2, <1>4, <1>7, NextInput DEF CollectInv, input
<1>10. NamesOf(entries) = NamesOf(by_name) \cup {input.logical_name}
  BY <1>3, <1>8 DEF NamesOf
<1>11. NamesOf(inputs) = NamesOf(rest) \cup {input.logical_name}
  BY <1>9 DEF NamesOf
<1>12. InOrder(entries)
  <2>. SUFFICES ASSUME NEW j \in DOMAIN entries, NEW k \in DOMAIN entries, j < k
                PROVE  entries[j].logical_name < entries[k].logical_name
    BY DEF InOrder
  <2>1. j \in DOMAIN by_name /\ entries[j] = by_name[j]
    BY <1>8
  <2>2. CASE k \in DOMAIN by_name
    BY <1>4, <1>8, <2>1, <2>2 DEF CollectInv, InOrder
  <2>3. CASE k = Len(by_name) + 1
    BY <1>3, <1>4, <1>8, <1>9, <2>1, <2>3 DEF CollectInv
  <2>. QED BY <1>8, <2>2, <2>3
<1>13. InOrder(rest)
  <2>. SUFFICES ASSUME NEW j \in DOMAIN rest, NEW k \in DOMAIN rest, j < k
                PROVE  rest[j].logical_name < rest[k].logical_name
    BY DEF InOrder
  <2>1. j + 1 \in DOMAIN inputs /\ k + 1 \in DOMAIN inputs /\ j + 1 < k + 1
        /\ rest[j] = inputs[j + 1] /\ rest[k] = inputs[k + 1]
    BY <1>9
  <2>. QED BY <1>4, <2>1 DEF CollectInv, InOrder
<1>14. ASSUME NEW j \in DOMAIN entries, NEW k \in DOMAIN rest
       PROVE  entries[j].logical_name < rest[k].logical_name
  <2>1. k + 1 \in DOMAIN inputs /\ 1 < k + 1 /\ rest[k] = inputs[k + 1]
    BY <1>9
  <2>2. CASE j \in DOMAIN by_name
    BY <1>4, <1>8, <2>1, <2>2 DEF CollectInv
  <2>3. CASE j = Len(by_name) + 1
    BY <1>3, <1>4, <1>8, <1>9, <2>1, <2>3 DEF CollectInv, InOrder
  <2>. QED BY <1>8, <2>2, <2>3
<1>15. ASSUME NEW a \in gathered, a.external
       PROVE  a.path \in rerun \/ \E k \in DOMAIN rest : rest[k] = a
  <2>1. CASE a = input
    BY <1>4, <1>15, <2>1
  <2>2. CASE a # input
    BY <1>4, <1>9, <1>15, <2>2 DEF CollectInv
  <2>. QED BY <2>1, <2>2
<1>16. CollectInv'
  <2>1. system_ggml' = system_ggml /\ GatheredNames' = GatheredNames
    BY <1>2 DEF system_ggml, GatheredNames
  <2>2. NamesOf(entries) \cup NamesOf(rest) = GatheredNames
    BY <1>4, <1>10, <1>11 DEF CollectInv
  <2>3. NamesOf(by_name)' = NamesOf(entries) /\ NamesOf(inputs)' = NamesOf(rest)
    BY <1>6, <1>7 DEF NamesOf
  <2>4. InOrder(by_name)' /\ InOrder(inputs)'
    BY <1>6, <1>7, <1>12, <1>13 DEF InOrder
  <2>. QED BY <1>2, <1>4, <1>6, <1>7, <1>9, <1>14, <1>15, <2>1, <2>2, <2>3, <2>4 DEF CollectInv
<1>17. OpenInputInv'
  BY <1>2 DEF OpenInputInv, Idle
<1> QED  BY <1>2, <1>6, <1>8, <1>16, <1>17 DEF EvidenceInv

LEMMA CollectKept ==
  ASSUME CollectInv, UNCHANGED <<active, gathered, inputs, by_name, rerun>>
  PROVE  CollectInv'
BY DEF CollectInv, GatheredNames, NamesOf, InOrder, system_ggml

LEMMA NextEvidence == EvidenceInv /\ [Next]_vars => EvidenceInv'
<1> SUFFICES ASSUME EvidenceInv, [Next]_vars PROVE EvidenceInv'
  OBVIOUS
<1>1. CASE Gather
  BY <1>1, GatherEvidence
<1>2. CASE Insert
  BY <1>2, InsertEvidence
<1>3. CASE EffectiveFeatures
  <2>1. /\ pc = "features" /\ pc' \in {"gather", "failed"}
        /\ UNCHANGED <<handle, active, inputs, gathered, by_name, rerun, metadata_entries>>
        /\ pc' = "gather" => features' = active
    BY <1>3 DEF EffectiveFeatures, features_known, file_vars, env_vars
  <2>. QED BY <2>1 DEF EvidenceInv, OpenInputInv
<1>4. CASE OpenInput
  <2>1. /\ pc = "collect" /\ inputs # <<>> /\ rerun' = rerun_if_changed
        /\ UNCHANGED <<active, features, gathered, inputs, by_name, metadata_entries>>
    BY <1>4 DEF OpenInput, Collecting, env_vars
  <2>2. \/ pc' = pc
        \/ pc' = "failed" /\ handle' = handle /\ handle.pass = "idle"
    BY <1>4 DEF OpenInput, CannotOpen, file_vars
  <2>3. rerun \subseteq rerun' /\ (input.external => input.path \in rerun')
    BY <2>1 DEF rerun_if_changed
  <2>4. CollectInv'
    <3>1. CollectInv
      BY <2>1 DEF EvidenceInv
    <3>2. system_ggml' = system_ggml /\ GatheredNames' = GatheredNames
      BY <2>1 DEF system_ggml, GatheredNames
    <3>. QED BY <2>1, <2>3, <3>1, <3>2 DEF CollectInv, NamesOf, InOrder
  <2>5. input' = input
    BY <2>1 DEF input
  <2>. QED BY <2>1, <2>2, <2>3, <2>4, <2>5 DEF EvidenceInv, OpenInputInv
<1>5. CASE RejectInput \/ CollectFails
  <2>1. /\ pc' = "failed" /\ handle'.pass = "idle" /\ by_name' = by_name
    BY <1>5 DEF RejectInput, CollectFails, Fail, Close, Idle, file_vars
  <2>. QED BY <2>1 DEF EvidenceInv, OpenInputInv
<1>6. CASE Emit
  <2>1. /\ pc = "collect" /\ inputs = <<>> /\ pc' = "emitted" /\ metadata_entries' = by_name
        /\ UNCHANGED <<handle, active, features, gathered, inputs, by_name, rerun>>
    BY <1>6 DEF Emit, file_vars, env_vars
  <2>2. CollectInv' /\ handle'.pass = "idle"
    <3>1. CollectInv /\ handle.pass = "idle"
      BY <2>1 DEF EvidenceInv, OpenInputInv
    <3>2. CollectInv'
      BY <2>1, <3>1, CollectKept
    <3>. QED BY <2>1, <3>1, <3>2
  <2>. QED BY <2>1, <2>2 DEF EvidenceInv, OpenInputInv
<1>7. CASE ReadInput \/ OthersStep \/ UNCHANGED vars
  <2>1. UNCHANGED <<pc, active, features, gathered, inputs, by_name, rerun, metadata_entries>>
    BY <1>7 DEF ReadInput, OthersStep, vars, env_vars
  <2>2. handle'.pass # "idle" => handle.pass # "idle"
    <3>1. CASE ReadInput
      BY <3>1 DEF ReadInput, Read
    <3>2. CASE OthersStep
      <4>1. handle.pass = "idle" => handle' = handle
        BY <3>2 DEF OthersStep, Others, Write, SetModified, Rename, noted
      <4>. QED BY <4>1
    <3>3. CASE UNCHANGED vars
      BY <3>3 DEF vars, file_vars
    <3>. QED BY <1>7, <3>1, <3>2, <3>3
  <2>3. CollectInv => CollectInv'
    BY <2>1, CollectKept
  <2>4. input' = input
    BY <2>1 DEF input
  <2>. QED BY <2>1, <2>2, <2>3, <2>4 DEF EvidenceInv, OpenInputInv
<1> QED  BY <1>1, <1>2, <1>3, <1>4, <1>5, <1>6, <1>7 DEF Next

\* effective_features, insert_artifact, collect: what is emitted accounts for every
\* feature and every artifact once, in the order of the names, and Cargo was told to
\* watch each external file.
THEOREM EvidenceAccounts == Spec => []EvidenceComplete
<1>1. Init => EvidenceInv
  <2>. SUFFICES ASSUME Init PROVE EvidenceInv
    OBVIOUS
  <2>1. by_name = <<>> /\ by_name \in Seq({}) /\ pc = "features" /\ handle.pass = "idle"
    BY DEF Init, FileInit, Idle
  <2>. QED BY <2>1 DEF EvidenceInv, OpenInputInv
<1>2. EvidenceInv => EvidenceComplete
  <2>. SUFFICES ASSUME EvidenceInv, pc = "emitted"
                PROVE  /\ features = active
                       /\ NamesOf(by_name) = GatheredNames /\ InOrder(by_name)
                       /\ \A a \in gathered : a.external => a.path \in rerun
                       /\ system_ggml => Required \subseteq GatheredNames
                       /\ metadata_entries = by_name
    BY DEF EvidenceComplete, NamesOf, InOrder, GatheredNames
  <2>1. CollectInv /\ inputs = <<>> /\ metadata_entries = by_name /\ features = active
    BY DEF EvidenceInv
  <2>2. DOMAIN inputs = {} /\ NamesOf(inputs) = {}
    BY <2>1 DEF NamesOf
  <2>. QED BY <2>1, <2>2 DEF CollectInv
<1> QED  BY <1>1, <1>2, NextEvidence, PTL DEF Spec
=============================================================================
