-------------------------- MODULE FileFingerprint --------------------------
(***************************************************************************)
(* hash_stable_file of llama-cpp-sys-2/build_evidence.rs against other      *)
(* processes that write, replace and touch the file meanwhile: another     *)
(* build, a linker, a package manager.                                     *)
(*                                                                         *)
(* A content is a sequence of blocks, as hash_open_file reads it; a hash is *)
(* the content it was computed from (SHA-256 does not collide).  Each      *)
(* system call is a step.  Time stamps are coarse: two writes may fall     *)
(* into one tick of the clock.                                             *)
(***************************************************************************)
EXTENDS Integers, Sequences, FiniteSets

CONSTANTS
  Paths,      \* the paths of artifacts
  Contents,   \* the contents a file can have
  Disk,       \* the inodes at first: their contents, and whether they are regular files
  Links,      \* how the paths may name inodes at first; 0: nothing
  MaxWrites   \* bound: number of steps of other processes

ASSUME FileAssumption ==
  /\ \A c \in Contents : c \in Seq(Nat)
  /\ Disk \in Seq([content: Contents, is_file: BOOLEAN])
  /\ Links \subseteq [Paths -> 0..Len(Disk)]
  /\ MaxWrites \in Nat

VARIABLES
  unix,       \* cfg(unix)
  now,        \* the clock that stamps files
  paths,      \* which inode a path names; 0: none
  inodes,     \* the inodes, with their time stamps
  handle,     \* the file being fingerprinted
  writes      \* number of steps of other processes so far

file_vars == <<unix, now, paths, inodes, handle, writes>>

Idle == [pass |-> "idle"]

FileInit ==
  /\ unix \in BOOLEAN
  /\ now = 0
  /\ inodes = [i \in DOMAIN Disk |-> [content |-> Disk[i].content, mtime |-> 0, ctime |-> 0,
                                      is_file |-> Disk[i].is_file]]
  /\ paths \in Links
  /\ handle = Idle
  /\ writes = 0

----------------------------------------------------------------------------
\* file.metadata()
metadata(i) == [len   |-> Len(inodes[i].content), modified |-> inodes[i].mtime,
                ctime |-> inodes[i].ctime]

\* Faulty variant: only the lengths are compared.
same_length(before, after) == before.len = after.len

\* The handle stays on one device and inode, so of platform_file_identity only
\* ctime can change; elsewhere than on unix there is no identity.
same_file_snapshot(before, after) ==
  /\ before.len = after.len
  /\ before.modified = after.modified
  /\ unix => before.ctime = after.ctime

\* File::open and the metadata before; what is written between them is written
\* before as far as anyone can tell.  seen, blind and overwrites are history: the
\* contents since then, whether a change left no trace in the time stamps that
\* same_file_snapshot compares, and the number of changes.
Open(p) ==
  /\ handle.pass = "idle"
  /\ paths[p] # 0
  /\ inodes[paths[p]].is_file
  /\ handle' = [pass |-> "first", ino |-> paths[p], before |-> metadata(paths[p]),
                first |-> <<>>, second |-> <<>>,
                seen |-> {inodes[paths[p]].content}, blind |-> FALSE, overwrites |-> 0]
  /\ UNCHANGED <<unix, now, paths, inodes, writes>>

\* The path names nothing, or no regular file.
CannotOpen(p) ==
  /\ handle.pass = "idle"
  /\ paths[p] # 0 => ~inodes[paths[p]].is_file
  /\ UNCHANGED file_vars

\* hash_open_file reads a block, or finds the end of the file: after the first
\* pass the handle is rewound, after the second the metadata is asked for again.
Read ==
  LET content == inodes[handle.ino].content
      pos     == Len(handle[handle.pass]) + 1
  IN /\ handle.pass \in {"first", "second"}
     /\ handle' = IF pos <= Len(content)
                  THEN [handle EXCEPT ![handle.pass] = Append(@, content[pos])]
                  ELSE [handle EXCEPT !.pass = IF @ = "first" THEN "second" ELSE "after"]
     /\ UNCHANGED <<unix, now, paths, inodes, writes>>

\* Any system call on the handle may fail.
Fail ==
  /\ handle.pass \in {"first", "second", "after"}
  /\ handle' = Idle
  /\ UNCHANGED <<unix, now, paths, inodes, writes>>

\* Faulty variant: the passes are not compared.
one_pass(after) == same_file_snapshot(handle.before, after)

\* The file is the same before and after, and was read twice alike.
is_stable(after) == same_file_snapshot(handle.before, after) /\ handle.first = handle.second

\* What hash_stable_file returns.
fingerprint(after) == [byte_len |-> after.len, sha256 |-> handle.first]

\* The last step of hash_stable_file: the metadata again and the comparisons.
Stable   == handle.pass = "after" /\ is_stable(metadata(handle.ino))
Unstable == handle.pass = "after" /\ ~is_stable(metadata(handle.ino))
Close    == handle' = Idle /\ UNCHANGED <<unix, now, paths, inodes, writes>>

----------------------------------------------------------------------------
\* Other processes.  Writing stamps the inode with the time of the clock, which may
\* have advanced or not.
noted(i, changed, traced) ==
  IF handle.pass # "idle" /\ handle.ino = i
  THEN [handle EXCEPT !.seen = @ \cup {inodes'[i].content},
                      !.blind = @ \/ ~traced,
                      !.overwrites = IF changed THEN @ + 1 ELSE @]
  ELSE handle

Elapse ==
  /\ writes < MaxWrites
  /\ writes' = writes + 1
  /\ now' \in {now, now + 1}
  /\ UNCHANGED unix

Write(i, content) ==
  /\ Elapse
  /\ inodes' = [inodes EXCEPT ![i].content = content, ![i].mtime = now', ![i].ctime = now']
  /\ handle' = noted(i, TRUE, now' > IF unix THEN inodes[i].ctime ELSE inodes[i].mtime)
  /\ UNCHANGED paths

\* utimes: any modification time can be set, which stamps ctime.
SetModified(i, mtime) ==
  /\ Elapse
  /\ inodes' = [inodes EXCEPT ![i].mtime = mtime, ![i].ctime = now']
  /\ handle' = noted(i, FALSE, unix /\ now' > inodes[i].ctime)
  /\ UNCHANGED paths

\* rename over the path, or removal: an open handle keeps its inode.
Rename(p, i) ==
  /\ Elapse
  /\ paths' = [paths EXCEPT ![p] = i]
  /\ UNCHANGED <<inodes, handle>>

Others ==
  \/ \E i \in DOMAIN inodes : \/ \E c \in Contents : Write(i, c)
                              \/ \E t \in 0..now : SetModified(i, t)
  \/ \E p \in Paths, i \in 0..Len(Disk) : Rename(p, i)

FileNext ==
  \/ \E p \in Paths : Open(p) \/ CannotOpen(p)
  \/ Read
  \/ Fail
  \/ (Stable \/ Unstable) /\ Close
  \/ Others

FileSpec == FileInit /\ [][FileNext]_file_vars

----------------------------------------------------------------------------
(* Properties *)

\* hash_stable_file returns a length and a hash only of a file that nobody changed:
\* if every change meanwhile had a time stamp of its own, the file had the returned
\* content all the time.
StableFingerprint ==
  Stable /\ ~handle.blind =>
    /\ handle.seen = {handle.first}
    /\ handle.before.len = Len(handle.first)

\* The time stamps apart, reading the file twice makes it hard to get a hash of a
\* mixture: with a single change of the whole file, whenever it falls, the hash is that
\* of a content the file had at one moment.  (With two changes three blocks are enough
\* for both passes to read the same mixture; with three changes, two blocks.)
HashOfOneMoment ==
  Stable /\ handle.overwrites < 2 => handle.first \in handle.seen
=============================================================================
