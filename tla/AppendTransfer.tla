----------------------------- MODULE AppendTransfer -----------------------------
(***************************************************************************)
(* Appending a chunk to a file (appendBinary of apps/desktop/               *)
(* transfer-parity.mjs), one step per system call.  A file is the sequence  *)
(* of the chunks written to it, each wholly or in part (chunks are of one    *)
(* size); a caller expects the contents it knows, by length and hash.  The   *)
(* lock file belongs to a name, and outlives a crash and an unlink that      *)
(* fails; a file may get another name while a call has it open.              *)
(***************************************************************************)
EXTENDS Naturals, Sequences, FiniteSets

CONSTANTS
  Appends,       \* calls, each with a chunk of its own
  Paths,         \* names of files
  MaxFiles       \* bound of the model: files that are put under a name

ASSUME AppendAssumption == MaxFiles \in Nat /\ "none" \notin Appends /\ IsFiniteSet(Paths)

VARIABLES
  target, contents,  \* the file under each name (0: none), and what each file holds
  inodes,            \* how many files there have been
  aLock,             \* <name>.leeway-append.lock: the call that made it, or "none"
  append,            \* a call: its place, its name, the contents it expects and the file it has open
  crossed            \* history: calls that had a file open while another had it under another name

appendVars == <<target, contents, inodes, aLock, append, crossed>>

Pieces == [by : Appends, whole : BOOLEAN]
AppendPlaces == {"new", "lock", "open", "digest", "write", "torn", "sync", "check", "fails", "succeeds",
                 "error", "ok", "dead"}
AppendTypeOK ==
  /\ inodes \in 0 .. MaxFiles /\ target \in [Paths -> 0 .. inodes]
  /\ contents \in [1 .. MaxFiles -> Seq(Pieces)]
  /\ aLock \in [Paths -> Appends \union {"none"}]
  /\ append \in [Appends -> [at : AppendPlaces, path : Paths \union {"none"}, expected : Seq(Pieces),
                             file : 0 .. MaxFiles]]
  /\ crossed \subseteq Appends

AppendInit ==
  /\ inodes = 0 /\ target = [n \in Paths |-> 0]
  /\ contents = [f \in 1 .. MaxFiles |-> <<>>]
  /\ aLock = [n \in Paths |-> "none"]
  /\ append = [c \in Appends |-> [at |-> "new", path |-> "none", expected |-> <<>>, file |-> 0]]
  /\ crossed = {}

-------------------------------------------------------------------------------
Proceeds(c, from, ok, to) ==
  /\ append[c].at = from
  /\ append' = [append EXCEPT ![c].at = IF ok THEN to ELSE "fails"]
BeginAppend(c, n) ==
  /\ append[c].at = "new" /\ target[n] # 0
  /\ append' = [append EXCEPT ![c] = [at |-> "lock", path |-> n, expected |-> contents[target[n]], file |-> 0]]
  /\ UNCHANGED <<target, contents, inodes, aLock, crossed>>
AnyLock(n) == TRUE       \* mutant: the lock file is not opened with 'wx'
LockFree(n) == aLock[n] = "none"
TakeLock(c) ==
  LET n == append[c].path
  IN /\ append[c].at = "lock"
     /\ append' = [append EXCEPT ![c].at = IF LockFree(n) THEN "open" ELSE "error"]
     /\ aLock' = IF LockFree(n) THEN [aLock EXCEPT ![n] = c] ELSE aLock
     /\ UNCHANGED <<target, contents, inodes, crossed>>
HasOpen(c) == append[c].at \in {"digest", "write", "torn", "sync", "check"}
OpenTarget(c) ==
  LET n == append[c].path
      Across(d) == HasOpen(d) /\ append[d].file = target[n] /\ append[d].path # n
  IN /\ append[c].at = "open" /\ target[n] # 0
     /\ append' = [append EXCEPT ![c].at = "digest", ![c].file = target[n]]
     /\ crossed' = crossed \union {d \in Appends : Across(d) \/ (d = c /\ \E e \in Appends : Across(e))}
     /\ UNCHANGED <<target, contents, inodes, aLock>>
(* digestFile refuses a file that has lost its names, and one that has two.    *)
Linked(c) == Cardinality({n \in Paths : target[n] = append[c].file}) = 1
DigestBefore(c) ==
  /\ Proceeds(c, "digest", Linked(c) /\ contents[append[c].file] = append[c].expected, "write")
  /\ UNCHANGED <<target, contents, inodes, aLock, crossed>>
(* A write puts a part of the chunk, or the rest, at the offset of the digest; *)
(* the rest makes it whole, unless its first part has been written over.       *)
Put(c, whole) ==
  LET f == append[c].file
      offset == Len(append[c].expected)
  IN contents' = [contents EXCEPT ![f] = SubSeq(@, 1, offset) \o <<[by |-> c, whole |-> whole]>>
                                         \o SubSeq(@, offset + 2, Len(@))]
FirstPart(c) == contents[append[c].file][Len(append[c].expected) + 1] = [by |-> c, whole |-> FALSE]
WritePart(c) ==
  /\ Proceeds(c, "write", TRUE, "torn") /\ Put(c, FALSE)
  /\ UNCHANGED <<target, inodes, aLock, crossed>>
WriteRest(c) ==
  /\ \/ Proceeds(c, "write", TRUE, "sync") /\ Put(c, TRUE)
     \/ Proceeds(c, "torn", TRUE, "sync") /\ Put(c, FirstPart(c))
  /\ UNCHANGED <<target, inodes, aLock, crossed>>
SyncTarget(c) ==
  /\ Proceeds(c, "sync", TRUE, "check")
  /\ UNCHANGED <<target, contents, inodes, aLock, crossed>>
DigestAfter(c) ==
  /\ Proceeds(c, "check", Linked(c) /\ Len(contents[append[c].file]) = Len(append[c].expected) + 1, "succeeds")
  /\ UNCHANGED <<target, contents, inodes, aLock, crossed>>
AppendFails(c) ==
  /\ \E from \in {"open", "digest", "write", "torn", "sync", "check"} : Proceeds(c, from, FALSE, from)
  /\ UNCHANGED <<target, contents, inodes, aLock, crossed>>
(* The finally block: whatever lock is under the name goes, if it can.          *)
Unlock(c) ==
  /\ append[c].at \in {"fails", "succeeds"}
  /\ append' = [append EXCEPT ![c].at = IF @ = "fails" THEN "error" ELSE "ok"]
  /\ \E left \in {"none", aLock[append[c].path]} : aLock' = [aLock EXCEPT ![append[c].path] = left]
  /\ UNCHANGED <<target, contents, inodes, crossed>>

(* Another file is put under a name (an edit, a move, the owner).  A file gets   *)
(* a second name and loses one: the two system calls of guardedMove, which takes *)
(* no lock of an append.  The adapter dies; the owner removes a lock no living    *)
(* call holds.                                                                *)
ReplaceTarget(n) ==
  /\ inodes < MaxFiles /\ inodes' = inodes + 1
  /\ target' = [target EXCEPT ![n] = inodes + 1]
  /\ UNCHANGED <<contents, aLock, append, crossed>>
LinkTarget(n, m) ==
  /\ target[n] # 0 /\ target[m] = 0
  /\ target' = [target EXCEPT ![m] = target[n]]
  /\ UNCHANGED <<contents, inodes, aLock, append, crossed>>
UnlinkTarget(n) ==
  /\ target[n] # 0
  /\ target' = [target EXCEPT ![n] = 0]
  /\ UNCHANGED <<contents, inodes, aLock, append, crossed>>
Settled == {"new", "error", "ok", "dead"}
AppendsDie ==
  /\ \E c \in Appends : append[c].at \notin Settled
  /\ append' = [c \in Appends |-> IF append[c].at \in Settled THEN append[c] ELSE [append[c] EXCEPT !.at = "dead"]]
  /\ UNCHANGED <<target, contents, inodes, aLock, crossed>>
ClearOrphan(n) ==
  /\ aLock[n] # "none" /\ append[aLock[n]].at \in Settled
  /\ aLock' = [aLock EXCEPT ![n] = "none"]
  /\ UNCHANGED <<target, contents, inodes, append, crossed>>

AppendNext ==
  \/ AppendsDie
  \/ \E n \in Paths : ReplaceTarget(n) \/ UnlinkTarget(n) \/ ClearOrphan(n) \/ \E m \in Paths : LinkTarget(n, m)
  \/ \E c \in Appends, n \in Paths : BeginAppend(c, n)
  \/ \E c \in Appends :
       \/ TakeLock(c) \/ OpenTarget(c) \/ DigestBefore(c) \/ WritePart(c) \/ WriteRest(c)
       \/ SyncTarget(c) \/ DigestAfter(c) \/ AppendFails(c) \/ Unlock(c)

AppendSpec == AppendInit /\ [][AppendNext]_appendVars

-------------------------------------------------------------------------------
(* A call that was told its chunk is appended finds it whole, right after the    *)
(* contents the call expected, for as long as the file is there, also when other *)
(* calls, crashes, moves and replacements of the file come in between; and a      *)
(* chunk that was written in part belongs to a call that is still writing or did  *)
(* not succeed.  Except for calls that had a file open at once under two names:   *)
(* each holds the lock of its own, and they write at the same offset.             *)
AppendedIsThere ==
  \A c \in Appends \ crossed :
    /\ append[c].at = "ok" =>
         LET f == contents[append[c].file]  n == Len(append[c].expected)
         IN Len(f) > n /\ SubSeq(f, 1, n + 1) = Append(append[c].expected, [by |-> c, whole |-> TRUE])
    /\ \A f \in 1 .. MaxFiles : \A k \in DOMAIN contents[f] :
         contents[f][k].by = c /\ ~contents[f][k].whole => append[c].at \in {"torn", "fails", "error", "dead"}
===============================================================================
