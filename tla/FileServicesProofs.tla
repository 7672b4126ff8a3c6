--------------------------- MODULE FileServicesProofs ---------------------------
(***************************************************************************)
(* Theorems about the file operations and the searches, paged and unpaged,  *)
(* of the desktop adapter, for any number of calls, files, searches, trees  *)
(* and limits.                                                              *)
(***************************************************************************)
EXTENDS AppendTransfer, FileMove, SearchSessions, ContentSearch, SequenceTheorems, FunctionTheorems,
        FiniteSetTheorems, TLAPS

(* A call that has the lock file of its name, or is about to give it up. *)
HoldingLock == {"open", "digest", "write", "torn", "sync", "check", "fails", "succeeds"}
LockInv == \A c \in Appends : append[c].at \in HoldingLock => aLock[append[c].path] = c
(* A call that has ended well, or has closed its file and will. *)
Succeeded == {"succeeds", "ok"}
ChunkOpen == {"digest", "write", "torn", "sync", "check"}
ChunkWriting == {"write", "torn"}

(* What a call has found or put in the file it has open, as far as it has come.  A      *)
(* call that did not share its file is the only one to write it while it has it open,   *)
(* and the writers that come later know a longer file.                                *)
Torn(c) == [by |-> c, whole |-> FALSE]
WholePiece(c) == [by |-> c, whole |-> TRUE]
Holds(file, known, piece) ==
  /\ Len(file) >= Len(known) + 1
  /\ \A k \in 1 .. Len(known) : file[k] = known[k]
  /\ file[Len(known) + 1] = piece
OwnInv ==
  \A c \in Appends :
    /\ append[c].at \in HoldingLock \union {"lock"} => append[c].path \in Paths
    /\ append[c].at \in ChunkOpen \union Succeeded => append[c].file \in 1 .. MaxFiles
    /\ append[c].at \in ChunkWriting => Len(contents[append[c].file]) >= Len(append[c].expected)
Progress(c) ==
  LET at == append[c].at  known == append[c].expected  file == contents[append[c].file]
  IN /\ at = "write" => file = known
     /\ at = "torn" => file = Append(known, Torn(c))
     /\ at \in {"sync", "check"} => file = Append(known, WholePiece(c))
     /\ at \in Succeeded => Holds(file, known, WholePiece(c))
ApartInv ==
  \A c, d \in Appends :
    c # d /\ append[c].at \in ChunkOpen /\ append[d].at \in ChunkOpen /\ append[c].file = append[d].file
      => c \in crossed
LaterInv ==
  \A c \in Appends \ crossed, d \in Appends :
    append[c].at \in Succeeded /\ append[d].at \in ChunkWriting /\ append[c].file = append[d].file
      => Len(append[d].expected) >= Len(append[c].expected) + 1
TornInv ==
  \A c \in Appends \ crossed, f \in 1 .. MaxFiles : \A k \in 1 .. Len(contents[f]) :
    contents[f][k] = Torn(c) =>
      /\ append[c].at \in {"torn", "fails", "error", "dead"}
      /\ append[c].at = "torn" => f = append[c].file /\ k = Len(append[c].expected) + 1
AppendInv ==
  /\ AppendTypeOK /\ LockInv /\ OwnInv /\ (\A c \in Appends \ crossed : Progress(c))
  /\ ApartInv /\ LaterInv /\ TornInv

-------------------------------------------------------------------------------
(* What a write at an offset leaves: the elements before it, and those after its own. *)
PutAt(s, n, p) == SubSeq(s, 1, n) \o <<p>> \o SubSeq(s, n + 2, Len(s))
Leaves(S, s, n, p, t) ==
  /\ t \in Seq(S) /\ Len(t) \in Nat /\ Len(t) >= Len(s) /\ Len(t) >= n + 1
  /\ Len(t) > n + 1 => Len(t) = Len(s)
  /\ \A k \in 1 .. n : t[k] = s[k]
  /\ t[n + 1] = p
  /\ \A k \in (n + 2) .. Len(s) : t[k] = s[k]
(* How long what comes behind the element is, and where its elements go. *)
FileFits(n, l, e) ==
  /\ e \in Nat /\ n + 1 + e \in Nat /\ n + 1 + e >= l /\ n + 1 + e >= n + 1
  /\ n + 1 + e > n + 1 => n + 1 + e = l
  /\ \A k \in 1 .. n : k \in 1 .. n + 1 + e /\ k <= n + 1
  /\ n + 1 \in 1 .. n + 1 + e
  /\ \A k \in (n + 2) .. l : /\ k \in 1 .. n + 1 + e /\ ~(k <= n + 1)
                              /\ k - (n + 1) \in 1 .. l - (n + 2) + 1
                              /\ n + 2 + (k - (n + 1)) - 1 = k
LEMMA EndLengths ==
  ASSUME NEW n \in Nat, NEW l \in Nat, n <= l, NEW e, e = IF n + 2 <= l THEN l - (n + 2) + 1 ELSE 0
  PROVE  FileFits(n, l, e)
  BY DEF FileFits
LEMMA PutAtLeaves ==
  ASSUME NEW S, NEW s \in Seq(S), NEW n \in Nat, n <= Len(s), NEW p \in S
  PROVE  Leaves(S, s, n, p, PutAt(s, n, p))
<1> DEFINE front == SubSeq(s, 1, n)  end == SubSeq(s, n + 2, Len(s))  first == front \o <<p>>
<1>1. Len(s) \in Nat /\ \A k \in 1 .. Len(s) : s[k] \in S
  OBVIOUS
<1>2. front \in Seq(S) /\ Len(front) = n /\ \A k \in 1 .. n : front[k] = s[k]
  BY <1>1
<1>3. /\ end \in Seq(S) /\ Len(end) = IF n + 2 <= Len(s) THEN Len(s) - (n + 2) + 1 ELSE 0
      /\ \A k \in 1 .. Len(s) - (n + 2) + 1 : end[k] = s[n + 2 + k - 1]
  <2>1. \A k \in (n + 2) .. Len(s) : s[k] \in S
    BY <1>1
  <2> QED
    BY <1>1, <2>1, SubSeqProperties
<1>4. <<p>> \in Seq(S) /\ Len(<<p>>) = 1 /\ <<p>>[1] = p
  OBVIOUS
<1> HIDE DEF front, end
<1>5. first \in Seq(S) /\ Len(first) = n + 1 /\ first[n + 1] = p /\ \A k \in 1 .. n : first[k] = s[k]
  BY <1>2, <1>4, ConcatProperties
<1> HIDE DEF first
<1>6. PutAt(s, n, p) = first \o end
  BY DEF PutAt, first, front, end
<1> DEFINE all == first \o end
<1>7. /\ all \in Seq(S) /\ Len(all) = n + 1 + Len(end)
      /\ \A k \in 1 .. n + 1 + Len(end) : all[k] = IF k <= n + 1 THEN first[k] ELSE end[k - (n + 1)]
  <2>1. /\ all \in Seq(S) /\ Len(all) = Len(first) + Len(end)
        /\ \A k \in 1 .. Len(first) + Len(end) :
             all[k] = IF k <= Len(first) THEN first[k] ELSE end[k - Len(first)]
    BY <1>3, <1>5, ConcatProperties
  <2>2. Len(first) = n + 1
    BY <1>5
  <2> HIDE DEF all
  <2> QED
    BY <2>1, <2>2
<1> HIDE DEF all
<1>8. Len(end) = IF n + 2 <= Len(s) THEN Len(s) - (n + 2) + 1 ELSE 0
  BY <1>3
<1> DEFINE l == Len(s)  e == Len(end)
<1>9. /\ e \in Nat /\ n + 1 + e \in Nat /\ n + 1 + e >= l /\ n + 1 + e >= n + 1
      /\ n + 1 + e > n + 1 => n + 1 + e = l
      /\ \A k \in 1 .. n : k \in 1 .. n + 1 + e /\ k <= n + 1
      /\ n + 1 \in 1 .. n + 1 + e
      /\ \A k \in (n + 2) .. l : /\ k \in 1 .. n + 1 + e /\ ~(k <= n + 1)
                                  /\ k - (n + 1) \in 1 .. l - (n + 2) + 1
                                  /\ n + 2 + (k - (n + 1)) - 1 = k
  <2>1. FileFits(n, l, e)
    BY <1>1, <1>8, EndLengths
  <2> QED
    BY <2>1 DEF FileFits
<1>10. (\A k \in 1 .. n : all[k] = s[k]) /\ all[n + 1] = p
  <2>1. \A k \in 1 .. n + 1 : k <= n + 1 /\ k \in 1 .. n + 1 + e => all[k] = first[k]
    BY <1>7
  <2> QED
    BY <1>5, <1>9, <2>1
<1>11. ASSUME NEW k \in (n + 2) .. Len(s) PROVE all[k] = s[k]
  <2>1. /\ k \in 1 .. n + 1 + e /\ ~(k <= n + 1) /\ k - (n + 1) \in 1 .. l - (n + 2) + 1
        /\ n + 2 + (k - (n + 1)) - 1 = k
    BY <1>9
  <2>2. all[k] = end[k - (n + 1)]
    BY <1>7, <2>1
  <2> QED
    BY <1>3, <2>1, <2>2
<1> QED
  BY <1>6, <1>7, <1>9, <1>10, <1>11 DEF all, Leaves

(* What an Append leaves. *)
LEMMA AppendHas ==
  ASSUME NEW S, NEW known \in Seq(S), NEW p \in S
  PROVE  /\ Append(known, p) \in Seq(S) /\ Len(Append(known, p)) = Len(known) + 1
         /\ \A k \in 1 .. Len(known) : Append(known, p)[k] = known[k]
         /\ Append(known, p)[Len(known) + 1] = p
  OBVIOUS

(* A write on what the call expected, or on that and the first part of its chunk, leaves *)
(* what the call expected and the chunk.                                            *)
LEMMA PutAppends ==
  ASSUME NEW S, NEW known \in Seq(S), NEW p \in S, NEW q \in S, NEW s \in Seq(S),
         s = known \/ s = Append(known, q)
  PROVE  PutAt(s, Len(known), p) = Append(known, p)
<1> DEFINE new == PutAt(s, Len(known), p)
<1>1. Len(s) \in Nat /\ Len(known) \in Nat /\ Len(known) <= Len(s) /\ Len(s) <= Len(known) + 1
      /\ \A k \in 1 .. Len(known) : s[k] = known[k]
  BY AppendHas
<1>2. /\ new \in Seq(S) /\ Len(new) = Len(known) + 1 /\ new[Len(known) + 1] = p
      /\ \A k \in 1 .. Len(known) : new[k] = s[k]
  <2>1. /\ new \in Seq(S) /\ new[Len(known) + 1] = p /\ \A k \in 1 .. Len(known) : new[k] = s[k]
        /\ Len(new) \in Nat /\ Len(new) >= Len(known) + 1
        /\ Len(new) > Len(known) + 1 => Len(new) = Len(s)
    <3>1. Leaves(S, s, Len(known), p, new)
      BY <1>1, PutAtLeaves
    <3> QED
      BY <3>1 DEF Leaves
  <2> QED
    BY <1>1, <2>1
<1> HIDE DEF new
<1>3. \A k \in 1 .. Len(known) + 1 : new[k] = Append(known, p)[k]
  BY <1>1, <1>2, AppendHas
<1> QED
  BY <1>1, <1>2, <1>3, AppendHas, SeqEqual DEF new

(* A write keeps the invariant: it is behind the chunks of the calls that succeeded, and no *)
(* call that does not share its file has that file open.                              *)
LEMMA WriteStep ==
  ASSUME AppendInv, NEW c \in Appends, append[c].at \in ChunkWriting, NEW whole \in BOOLEAN, NEW to \in {"torn", "sync"},
         to = "torn" => append[c].at = "write" /\ ~whole,
         to = "sync" => whole \/ c \in crossed,
         append' = [append EXCEPT ![c].at = to],
         Put(c, whole), UNCHANGED <<target, inodes, aLock, crossed>>
  PROVE  AppendInv'
<1> DEFINE f == append[c].file  known == append[c].expected  p == [by |-> c, whole |-> whole]
           n == Len(known)  old == contents[f]  new == PutAt(old, n, p)
<1>1. /\ f \in 1 .. MaxFiles /\ known \in Seq(Pieces) /\ p \in Pieces /\ Torn(c) \in Pieces
      /\ old \in Seq(Pieces) /\ contents \in [1 .. MaxFiles -> Seq(Pieces)]
      /\ n \in Nat /\ Len(old) \in Nat /\ n <= Len(old)
  <2>1. f \in 1 .. MaxFiles /\ n <= Len(old)
    BY DEF AppendInv, OwnInv, ChunkWriting, ChunkOpen
  <2> QED
    BY <2>1 DEF AppendInv, AppendTypeOK, Pieces, Torn
<1>2. contents' = [contents EXCEPT ![f] = new]
  BY DEF Put, PutAt
<1>3. /\ new \in Seq(Pieces) /\ Len(new) \in Nat /\ Len(new) >= Len(old) /\ Len(new) >= n + 1
      /\ Len(new) > n + 1 => Len(new) = Len(old)
      /\ \A k \in 1 .. n : new[k] = old[k]
      /\ new[n + 1] = p
      /\ \A k \in (n + 2) .. Len(old) : new[k] = old[k]
  <2>1. Leaves(Pieces, old, n, p, new)
    BY <1>1, PutAtLeaves
  <2> QED
    BY <2>1 DEF Leaves
<1>4. c \notin crossed => new = Append(known, p)
  <2>1. c \notin crossed => old = known \/ old = Append(known, Torn(c))
    BY DEF AppendInv, Progress, ChunkWriting
  <2> QED
    BY <1>1, <2>1, PutAppends
<1> HIDE DEF new
<1>5. /\ contents'[f] = new /\ \A g \in 1 .. MaxFiles \ {f} : contents'[g] = contents[g]
      /\ \A d \in Appends \ {c} : append'[d] = append[d]
      /\ append'[c].at = to /\ append'[c].file = f /\ append'[c].expected = known
      /\ append'[c].path = append[c].path
  BY <1>1, <1>2 DEF AppendInv, AppendTypeOK
<1>6. AppendTypeOK'
  <2>1. contents' \in [1 .. MaxFiles -> Seq(Pieces)]
    BY <1>1, <1>2, <1>3
  <2>2. append' \in [Appends -> [at : AppendPlaces, path : Paths \union {"none"}, expected : Seq(Pieces),
                               file : 0 .. MaxFiles]]
    BY DEF AppendInv, AppendTypeOK, AppendPlaces
  <2> QED
    BY <2>1, <2>2 DEF AppendInv, AppendTypeOK
<1>7. LockInv' /\ ApartInv'
  BY <1>5 DEF AppendInv, LockInv, ApartInv, HoldingLock, ChunkOpen, ChunkWriting
<1>8. LaterInv'
  BY <1>5 DEF AppendInv, LaterInv, ChunkWriting, Succeeded
<1>9. OwnInv'
  <2> SUFFICES ASSUME NEW d \in Appends
               PROVE  /\ append'[d].at \in HoldingLock \union {"lock"} => append'[d].path \in Paths
                      /\ append'[d].at \in ChunkOpen \union Succeeded => append'[d].file \in 1 .. MaxFiles
                      /\ append'[d].at \in ChunkWriting => Len(contents'[append'[d].file]) >= Len(append'[d].expected)
    BY DEF OwnInv
  <2>1. /\ append'[d].at \in HoldingLock \union {"lock"} => append'[d].path \in Paths
        /\ append'[d].at \in ChunkOpen \union Succeeded => append'[d].file \in 1 .. MaxFiles
    BY <1>1, <1>5 DEF AppendInv, OwnInv, HoldingLock, ChunkOpen, ChunkWriting
  <2>2. CASE d = c
    BY <1>1, <1>3, <1>5, <2>1, <2>2
  <2>3. ASSUME d # c, append'[d].at \in ChunkWriting PROVE Len(contents'[append'[d].file]) >= Len(append'[d].expected)
    <3> DEFINE g == append[d].file
    <3>1. g \in 1 .. MaxFiles /\ Len(contents[g]) >= Len(append[d].expected) /\ append'[d] = append[d]
      BY <1>5, <2>3 DEF AppendInv, OwnInv, ChunkOpen, ChunkWriting
    <3>2. CASE g = f
      <4>1. Len(append[d].expected) \in Nat
        BY DEF AppendInv, AppendTypeOK
      <4> QED
        BY <1>1, <1>3, <1>5, <3>1, <3>2, <4>1
    <3>3. CASE g # f
      BY <1>5, <3>1, <3>3
    <3> QED
      BY <3>2, <3>3
  <2> QED
    BY <2>1, <2>2, <2>3
<1>10. ASSUME NEW d \in Appends \ crossed PROVE Progress(d)'
  <2>1. CASE d = c
    <3>1. contents'[append'[c].file] = Append(append'[c].expected, p)
      BY <1>4, <1>5, <2>1
    <3>2. CASE to = "sync"
      <4>1. p = WholePiece(c)
        BY <2>1, <3>2 DEF WholePiece
      <4> QED
        BY <1>5, <2>1, <3>1, <3>2, <4>1 DEF Progress, WholePiece, Succeeded
    <3>3. CASE to = "torn"
      <4>1. p = Torn(c)
        BY <3>3 DEF Torn
      <4> QED
        BY <1>5, <2>1, <3>1, <3>3, <4>1 DEF Progress, Torn, Succeeded
    <3> QED
      BY <3>2, <3>3
  <2>2. CASE d # c /\ append[d].at \in Succeeded
    <3> DEFINE g == append[d].file  e == append[d].expected  m == Len(e)
    <3>1. g \in 1 .. MaxFiles /\ Holds(contents[g], e, WholePiece(d)) /\ m \in Nat
      <4>1. Progress(d) /\ g \in 1 .. MaxFiles
        BY <2>2 DEF AppendInv, OwnInv
      <4> QED
        BY <2>2, <4>1 DEF AppendInv, AppendTypeOK, Progress
    <3>2. CASE g = f
      <4>1. m + 1 <= n
        BY <2>2, <3>2 DEF AppendInv, LaterInv
      <4>2. (\A k \in 1 .. m : old[k] = e[k]) /\ old[m + 1] = WholePiece(d)
        BY <3>1, <3>2 DEF Holds
      <4>3. m + 1 \in 1 .. n /\ \A k \in 1 .. m : k \in 1 .. n
        BY <1>1, <3>1, <4>1
      <4>4. (\A k \in 1 .. m : new[k] = e[k]) /\ new[m + 1] = WholePiece(d)
        BY <1>3, <4>2, <4>3
      <4>5. Len(new) >= m + 1
        BY <1>1, <1>3, <3>1, <4>1
      <4>6. Holds(new, e, WholePiece(d))
        BY <4>4, <4>5 DEF Holds
      <4> QED
        BY <1>5, <2>2, <3>2, <4>6 DEF Progress, WholePiece, Succeeded
    <3>3. CASE g # f
      BY <1>5, <2>2, <3>1, <3>3 DEF Progress, WholePiece, Succeeded
    <3> QED
      BY <3>2, <3>3
  <2>3. CASE d # c /\ append[d].at \in ChunkOpen
    <3>1. append[d].file # f
      BY <2>3 DEF AppendInv, ApartInv, ChunkOpen, ChunkWriting
    <3>2. append[d].file \in 1 .. MaxFiles
      BY <2>3 DEF AppendInv, OwnInv
    <3>3. contents'[append'[d].file] = contents[append[d].file] /\ append'[d] = append[d]
      BY <1>5, <2>3, <3>1, <3>2
    <3>4. Progress(d)
      BY DEF AppendInv
    <3> QED
      BY <2>3, <3>3, <3>4 DEF Progress, Succeeded, ChunkOpen, Torn, WholePiece
  <2>4. CASE d # c /\ append[d].at \notin ChunkOpen \union Succeeded
    BY <1>5, <2>4 DEF Progress, Succeeded, ChunkOpen
  <2> QED
    BY <2>1, <2>2, <2>3, <2>4
<1>11. TornInv'
  <2> SUFFICES ASSUME NEW d \in Appends \ crossed, NEW g \in 1 .. MaxFiles, NEW k \in 1 .. Len(contents'[g]),
                      contents'[g][k] = Torn(d)
               PROVE  /\ append'[d].at \in {"torn", "fails", "error", "dead"}
                      /\ append'[d].at = "torn" => g = append'[d].file /\ k = Len(append'[d].expected) + 1
    BY DEF TornInv, Torn
  <2>1. CASE g = f /\ k = n + 1
    <3>1. p = Torn(d)
      BY <1>3, <1>5, <2>1
    <3>2. d = c /\ ~whole
      BY <3>1 DEF Torn
    <3> QED
      BY <1>5, <2>1, <3>2
  <2>2. CASE ~(g = f /\ k = n + 1)
    <3>1. k \in 1 .. Len(contents[g]) /\ contents[g][k] = Torn(d)
      <4>1. CASE g = f
        <5>1. k \in Nat /\ k >= 1 /\ k <= Len(new) /\ k # n + 1
          BY <1>3, <1>5, <2>2, <4>1
        <5>2. CASE k <= n
          BY <1>1, <1>3, <1>5, <4>1, <5>1, <5>2
        <5>3. CASE k >= n + 2
          <6>1. Len(new) = Len(old) /\ k \in (n + 2) .. Len(old)
            BY <1>1, <1>3, <5>1, <5>3
          <6> QED
            BY <1>1, <1>3, <1>5, <4>1, <5>1, <6>1
        <5>4. k <= n \/ k >= n + 2
          BY ONLY <1>1, <5>1
        <5> QED
          BY <5>2, <5>3, <5>4
      <4>2. CASE g # f
        BY <1>5, <4>2
      <4> QED
        BY <4>1, <4>2
    <3>2. /\ append[d].at \in {"torn", "fails", "error", "dead"}
          /\ append[d].at = "torn" => g = append[d].file /\ k = Len(append[d].expected) + 1
      BY <3>1 DEF AppendInv, TornInv
    <3>3. d # c
      BY <2>2, <3>2 DEF ChunkWriting
    <3> QED
      BY <1>5, <3>2, <3>3
  <2> QED
    BY <2>1, <2>2
<1> QED
  BY <1>6, <1>7, <1>8, <1>9, <1>10, <1>11 DEF AppendInv

(* A step that writes nothing keeps the invariant, when it gives one call another place *)
(* that the call may be at with the file and the contents it knows.                   *)
AppendCalls == [at : AppendPlaces, path : Paths \union {"none"}, expected : Seq(Pieces), file : 0 .. MaxFiles]
LEMMA QuietStep ==
  ASSUME AppendInv, NEW c \in Appends, append[c].at # "ok", NEW e \in AppendCalls,
         append' = [append EXCEPT ![c] = e], UNCHANGED <<target, inodes, contents>>,
         aLock' \in [Paths -> Appends \union {"none"}],
         crossed \subseteq crossed', crossed' \subseteq Appends,
         \A d \in Appends \ {c} : append[d].at \in HoldingLock => aLock'[append[d].path] = d,
         e.at \in HoldingLock => aLock'[e.path] = c,
         e.at \in HoldingLock \union {"lock"} => e.path \in Paths,
         e.at \in ChunkOpen \union Succeeded => e.file \in 1 .. MaxFiles,
         e.at # "torn",
         e.at = "write" => contents[e.file] = e.expected,
         c \notin crossed' /\ e.at \in {"sync", "check"} => contents[e.file] = Append(e.expected, WholePiece(c)),
         c \notin crossed' /\ e.at \in Succeeded => Holds(contents[e.file], e.expected, WholePiece(c)),
         \A d \in Appends \ {c} :
           e.at \in ChunkOpen /\ append[d].at \in ChunkOpen /\ append[d].file = e.file => {c, d} \subseteq crossed',
         \A d \in Appends \ {c} :
           c \notin crossed' /\ e.at \in Succeeded /\ append[d].at \in ChunkWriting /\ append[d].file = e.file
             => Len(append[d].expected) >= Len(e.expected) + 1,
         append[c].at \in {"torn", "fails", "error", "dead"} => e.at \in {"fails", "error", "dead"}
  PROVE  AppendInv'
<1>1. append'[c] = e /\ \A d \in Appends \ {c} : append'[d] = append[d]
  BY DEF AppendInv, AppendTypeOK
<1>2. AppendTypeOK'
  <2>1. append' \in [Appends -> AppendCalls]
    BY DEF AppendInv, AppendTypeOK, AppendCalls
  <2> QED
    BY <2>1 DEF AppendInv, AppendTypeOK, AppendCalls
<1>3. LockInv'
  BY <1>1 DEF AppendInv, LockInv
<1>4. OwnInv'
  <2>1. ASSUME NEW d \in Appends \ {c}
        PROVE  /\ append'[d].at \in HoldingLock \union {"lock"} => append'[d].path \in Paths
               /\ append'[d].at \in ChunkOpen \union Succeeded => append'[d].file \in 1 .. MaxFiles
               /\ append'[d].at \in ChunkWriting => Len(contents'[append'[d].file]) >= Len(append'[d].expected)
    BY <1>1 DEF AppendInv, OwnInv
  <2>2. e.at \in ChunkWriting => Len(contents[e.file]) >= Len(e.expected)
    <3>1. Len(e.expected) \in Nat
      BY DEF AppendCalls
    <3> QED
      BY <3>1 DEF ChunkWriting
  <2> QED
    BY <1>1, <2>1, <2>2 DEF OwnInv
<1>5. ASSUME NEW d \in Appends \ crossed' PROVE Progress(d)'
  <2>1. CASE d # c
    <3>1. Progress(d) /\ append'[d] = append[d]
      BY <1>1, <2>1 DEF AppendInv
    <3> QED
      BY <3>1 DEF Progress
  <2>2. CASE d = c
    BY <1>1, <2>2 DEF Progress, WholePiece
  <2> QED
    BY <2>1, <2>2
<1>6. ApartInv'
  <2> SUFFICES ASSUME NEW a \in Appends, NEW b \in Appends, a # b, append'[a].at \in ChunkOpen, append'[b].at \in ChunkOpen,
                      append'[a].file = append'[b].file
               PROVE  a \in crossed'
    BY DEF ApartInv
  <2>1. CASE a = c
    BY <1>1, <2>1
  <2>2. CASE b = c
    BY <1>1, <2>2
  <2>3. CASE a # c /\ b # c
    BY <1>1, <2>3 DEF AppendInv, ApartInv
  <2> QED
    BY <2>1, <2>2, <2>3
<1>7. LaterInv'
  <2> SUFFICES ASSUME NEW a \in Appends \ crossed', NEW b \in Appends, append'[a].at \in Succeeded,
                      append'[b].at \in ChunkWriting, append'[a].file = append'[b].file
               PROVE  Len(append'[b].expected) >= Len(append'[a].expected) + 1
    BY DEF LaterInv
  <2>1. a # b
    BY DEF Succeeded, ChunkWriting
  <2>2. CASE a = c
    BY <1>1, <2>1, <2>2
  <2>3. CASE b = c
    <3>1. e.at = "write" /\ contents[e.file] = e.expected /\ append'[a] = append[a]
      BY <1>1, <2>1, <2>3 DEF ChunkWriting
    <3>2. Progress(a)
      BY DEF AppendInv
    <3>3. Holds(contents[append[a].file], append[a].expected, WholePiece(a))
      BY <3>1, <3>2 DEF Progress
    <3> QED
      BY <1>1, <2>3, <3>1, <3>3 DEF Holds
  <2>4. CASE a # c /\ b # c
    BY <1>1, <2>4 DEF AppendInv, LaterInv
  <2> QED
    BY <2>2, <2>3, <2>4
<1>8. TornInv'
  BY <1>1 DEF AppendInv, TornInv, Torn
<1> QED
  BY <1>2, <1>3, <1>4, <1>5, <1>6, <1>7, <1>8 DEF AppendInv

(* The death of the adapter keeps it: no lock is held then.                          *)
LEMMA DeathStep == ASSUME AppendInv, AppendsDie PROVE AppendInv'
<1>1. \A d \in Appends : /\ append'[d].at \in Settled
                         /\ append'[d] = append[d] \/ append'[d].at = "dead"
  BY DEF AppendsDie, Settled, AppendInv, AppendTypeOK
<1>2. AppendTypeOK'
  BY DEF AppendsDie, AppendInv, AppendTypeOK, AppendPlaces
<1>3. LockInv' /\ ApartInv' /\ LaterInv'
  BY <1>1 DEF LockInv, ApartInv, LaterInv, HoldingLock, Settled, ChunkOpen, ChunkWriting
<1>4. UNCHANGED <<contents, crossed>>
  BY DEF AppendsDie
<1>5. OwnInv'
  BY <1>1, <1>4 DEF AppendInv, OwnInv, HoldingLock, Settled, ChunkOpen, ChunkWriting, Succeeded
<1>6. ASSUME NEW d \in Appends \ crossed' PROVE Progress(d)'
  <2>1. CASE append'[d] = append[d]
    <3>1. Progress(d)
      BY <1>4 DEF AppendInv
    <3> QED
      BY <1>4, <2>1, <3>1 DEF Progress
  <2>2. CASE append'[d].at = "dead"
    BY <2>2 DEF Progress, Succeeded
  <2> QED
    BY <1>1, <2>1, <2>2
<1>7. TornInv'
  BY <1>1, <1>4 DEF AppendInv, TornInv, Torn
<1> QED
  BY <1>2, <1>3, <1>5, <1>6, <1>7 DEF AppendInv

(* Every initial state satisfies the invariant. *)
LEMMA AppendInitInv == AppendInit => AppendInv
<1> SUFFICES ASSUME AppendInit PROVE AppendInv
  OBVIOUS
<1>1. \A c \in Appends : append[c].at = "new"
  BY DEF AppendInit
<1>2. \A f \in 1 .. MaxFiles : contents[f] = <<>>
  BY DEF AppendInit
<1>3. AppendTypeOK
  BY AppendAssumption DEF AppendInit, AppendTypeOK, AppendPlaces
<1>4. LockInv /\ OwnInv /\ ApartInv /\ LaterInv
  BY <1>1 DEF LockInv, OwnInv, ApartInv, LaterInv, HoldingLock, ChunkOpen, ChunkWriting, Succeeded
<1>5. (\A c \in Appends : Progress(c)) /\ TornInv
  BY <1>1, <1>2 DEF Progress, TornInv, Succeeded
<1> QED
  BY <1>3, <1>4, <1>5 DEF AppendInv

(* Every step keeps the invariant. *)
LEMMA AppendNextInv == AppendInv /\ [AppendNext]_appendVars => AppendInv'
<1> SUFFICES ASSUME AppendInv, [AppendNext]_appendVars PROVE AppendInv'
  OBVIOUS
<1> DEFINE Moved(c, to) == [append[c] EXCEPT !.at = to]
<1>1. /\ append \in [Appends -> AppendCalls] /\ aLock \in [Paths -> Appends \union {"none"}]
      /\ inodes \in 0 .. MaxFiles /\ target \in [Paths -> 0 .. inodes] /\ crossed \subseteq Appends
      /\ contents \in [1 .. MaxFiles -> Seq(Pieces)] /\ LockInv /\ OwnInv /\ ApartInv /\ LaterInv
  BY DEF AppendInv, AppendTypeOK, AppendCalls
<1>2. ASSUME NEW c \in Appends, NEW to \in AppendPlaces
      PROVE  /\ Moved(c, to) \in AppendCalls /\ Moved(c, to).at = to /\ Moved(c, to).path = append[c].path
             /\ Moved(c, to).expected = append[c].expected /\ Moved(c, to).file = append[c].file
             /\ [append EXCEPT ![c].at = to] = [append EXCEPT ![c] = Moved(c, to)]
  BY <1>1 DEF AppendCalls
<1>3. ASSUME NEW c \in Appends, append[c].at \in HoldingLock
      PROVE  \A d \in Appends \ {c} : append[d].at \in HoldingLock => append[d].path # append[c].path
  BY <1>1, <1>3 DEF LockInv
<1>4. ASSUME UNCHANGED <<append, contents, crossed>>, aLock' \in [Paths -> Appends \union {"none"}],
             inodes' \in 0 .. MaxFiles, target' \in [Paths -> 0 .. inodes'],
             \A d \in Appends : append[d].at \in HoldingLock => aLock'[append[d].path] = d
      PROVE  AppendInv'
  BY <1>4 DEF AppendInv, AppendTypeOK, LockInv, OwnInv, ApartInv, LaterInv, Progress, TornInv, Holds, Torn, WholePiece
<1>5. ASSUME NEW n \in Paths, ReplaceTarget(n) PROVE AppendInv'
  <2>1. inodes' \in 0 .. MaxFiles /\ target' \in [Paths -> 0 .. inodes']
    BY <1>1, <1>5, AppendAssumption DEF ReplaceTarget
  <2> QED
    BY <1>1, <1>4, <1>5, <2>1 DEF ReplaceTarget, LockInv
<1>6. ASSUME NEW n \in Paths, UnlinkTarget(n) \/ \E m \in Paths : LinkTarget(n, m) PROVE AppendInv'
  <2>1. UNCHANGED <<inodes, append, contents, crossed, aLock>> /\ target' \in [Paths -> 0 .. inodes']
    <3>1. 0 \in 0 .. inodes /\ target[n] \in 0 .. inodes
      BY <1>1
    <3> QED
      BY <1>1, <1>6, <3>1 DEF UnlinkTarget, LinkTarget
  <2> QED
    BY <1>1, <1>4, <2>1 DEF LockInv
<1>7. ASSUME NEW n \in Paths, ClearOrphan(n) PROVE AppendInv'
  <2>1. \A d \in Appends : append[d].at \in HoldingLock => aLock'[append[d].path] = d
    <3> SUFFICES ASSUME NEW d \in Appends, append[d].at \in HoldingLock PROVE aLock'[append[d].path] = d
      OBVIOUS
    <3>1. aLock[append[d].path] = d /\ append[d].at \notin Settled /\ append[d].path \in Paths
      BY <1>1 DEF LockInv, OwnInv, HoldingLock, Settled
    <3>2. append[d].path # n
      BY <1>7, <3>1 DEF ClearOrphan
    <3> QED
      BY <1>1, <1>7, <3>1, <3>2 DEF ClearOrphan
  <2>2. aLock' \in [Paths -> Appends \union {"none"}]
    BY <1>1, <1>7 DEF ClearOrphan
  <2> QED
    BY <1>1, <1>4, <1>7, <2>1, <2>2 DEF ClearOrphan
<1>8. CASE UNCHANGED appendVars
  BY <1>1, <1>4, <1>8 DEF appendVars, LockInv
<1>9. ASSUME NEW c \in Appends, NEW n \in Paths, BeginAppend(c, n) PROVE AppendInv'
  <2> DEFINE e == [at |-> "lock", path |-> n, expected |-> contents[target[n]], file |-> 0]
  <2>1. /\ append' = [append EXCEPT ![c] = e] /\ append[c].at = "new"
        /\ UNCHANGED <<target, inodes, contents, aLock, crossed>>
    BY <1>9 DEF BeginAppend
  <2>2. e \in AppendCalls /\ e.at = "lock" /\ e.path = n
    <3>1. target[n] \in 1 .. MaxFiles
      BY <1>1, <1>9, AppendAssumption DEF BeginAppend
    <3>2. contents[target[n]] \in Seq(Pieces) /\ 0 \in 0 .. MaxFiles
      BY <1>1, <3>1, AppendAssumption
    <3> QED
      BY <3>2 DEF AppendPlaces, AppendCalls
  <2> HIDE DEF e
  <2> QED
    BY <1>1, <2>1, <2>2, QuietStep DEF LockInv, HoldingLock, ChunkOpen, Succeeded
<1>10. ASSUME NEW c \in Appends, TakeLock(c) PROVE AppendInv'
  <2> DEFINE n == append[c].path
  <2>0. n \in Paths /\ append[c].at = "lock" /\ UNCHANGED <<target, inodes, contents, crossed>>
    BY <1>1, <1>10 DEF TakeLock, OwnInv
  <2>1. CASE LockFree(n)
    <3> DEFINE e == Moved(c, "open")
    <3>1. append' = [append EXCEPT ![c] = e] /\ aLock' = [aLock EXCEPT ![n] = c]
      BY <1>2, <1>10, <2>1 DEF TakeLock, AppendPlaces
    <3>2. e \in AppendCalls /\ e.at = "open" /\ e.path = n
      BY <1>2 DEF AppendPlaces
    <3>3. \A d \in Appends : append[d].at \in HoldingLock => append[d].path # n /\ aLock[append[d].path] = d
      BY <1>1, <2>1, AppendAssumption DEF LockFree, LockInv
    <3>4. /\ \A d \in Appends \ {c} : append[d].at \in HoldingLock => aLock'[append[d].path] = d
          /\ aLock'[n] = c /\ aLock' \in [Paths -> Appends \union {"none"}]
      BY <1>1, <2>0, <3>1, <3>3 DEF OwnInv
    <3> HIDE DEF e
    <3> QED
      BY <1>1, <2>0, <3>1, <3>2, <3>4, QuietStep DEF HoldingLock, ChunkOpen, Succeeded
  <2>2. CASE ~LockFree(n)
    <3> DEFINE e == Moved(c, "error")
    <3>1. append' = [append EXCEPT ![c] = e] /\ UNCHANGED aLock
      BY <1>2, <1>10, <2>2 DEF TakeLock, AppendPlaces
    <3>2. e \in AppendCalls /\ e.at = "error"
      BY <1>2 DEF AppendPlaces
    <3> HIDE DEF e
    <3> QED
      BY <1>1, <2>0, <3>1, <3>2, QuietStep DEF HoldingLock, ChunkOpen, Succeeded, LockInv
  <2> QED
    BY <2>1, <2>2
<1>11. ASSUME NEW c \in Appends, OpenTarget(c) PROVE AppendInv'
  <2> DEFINE n == append[c].path  e == [append[c] EXCEPT !.at = "digest", !.file = target[n]]
  <2>1. /\ append[c].at = "open" /\ target[n] # 0 /\ UNCHANGED <<target, inodes, contents, aLock>>
        /\ append' = [append EXCEPT ![c].at = "digest", ![c].file = target[n]]
    BY <1>11 DEF OpenTarget
  <2>2. append' = [append EXCEPT ![c] = e]
    BY <1>1, <2>1
  <2>3. n \in Paths /\ target[n] \in 1 .. MaxFiles
    <3>1. n \in Paths
      BY <1>1, <2>1 DEF OwnInv, HoldingLock
    <3> QED
      BY <1>1, <2>1, <3>1, AppendAssumption
  <2>4. e \in AppendCalls /\ e.at = "digest" /\ e.file = target[n] /\ e.path = n
    <3>1. "digest" \in AppendPlaces /\ target[n] \in 0 .. MaxFiles
      BY <2>3, AppendAssumption DEF AppendPlaces
    <3>2. append[c] \in AppendCalls
      BY <1>1
    <3> QED
      BY <3>1, <3>2 DEF AppendCalls
  <2>5. crossed \subseteq crossed' /\ crossed' \subseteq Appends
    BY <1>1, <1>11 DEF OpenTarget
  <2>6. ASSUME NEW d \in Appends \ {c}, append[d].at \in ChunkOpen, append[d].file = target[n]
        PROVE  {c, d} \subseteq crossed'
    <3>1. append[d].path # n
      BY <1>3, <2>1, <2>6 DEF HoldingLock, ChunkOpen
    <3>2. HasOpen(d) /\ append[d].file = target[n] /\ append[d].path # n
      BY <2>6, <3>1 DEF HasOpen, ChunkOpen
    <3> QED
      BY <1>11, <3>2 DEF OpenTarget
  <2>7. /\ aLock[n] = c /\ append[c].at # "ok" /\ append[c].at \notin {"torn", "fails", "error", "dead"}
        /\ \A d \in Appends \ {c} : append[d].at \in HoldingLock => aLock[append[d].path] = d
    BY <1>1, <2>1 DEF LockInv, HoldingLock
  <2>8. e.at \notin Succeeded \union {"torn", "write", "sync", "check"}
    BY <2>4 DEF Succeeded
  <2> HIDE DEF e, n
  <2>9. /\ aLock \in [Paths -> Appends \union {"none"}] /\ UNCHANGED <<target, inodes, contents, aLock>>
        /\ e.path \in Paths /\ e.file \in 1 .. MaxFiles /\ aLock[e.path] = c
    BY <1>1, <2>1, <2>3, <2>4, <2>7
  <2>10. \A d \in Appends \ {c} :
           e.at \in ChunkOpen /\ append[d].at \in ChunkOpen /\ append[d].file = e.file => {c, d} \subseteq crossed'
    BY <2>4, <2>6
  <2> QED
    BY <2>2, <2>4, <2>5, <2>7, <2>8, <2>9, <2>10, QuietStep
<1>12. ASSUME NEW c \in Appends, NEW from \in {"digest", "sync", "check"}, append[c].at = from,
             NEW to \in {"write", "check", "succeeds", "fails"},
             <<from, to>> \in {<<"digest", "write">>, <<"sync", "check">>, <<"check", "succeeds">>} \/ to = "fails",
             to = "write" => contents[append[c].file] = append[c].expected,
             append' = [append EXCEPT ![c].at = to], UNCHANGED <<target, contents, inodes, aLock, crossed>>
      PROVE  AppendInv'
  <2> DEFINE e == Moved(c, to)
  <2>1. append' = [append EXCEPT ![c] = e] /\ to \in AppendPlaces
    BY <1>2, <1>12 DEF AppendPlaces
  <2>2. c \notin crossed => Progress(c)
    BY DEF AppendInv
  <2>3. /\ e \in AppendCalls /\ e.at = to /\ e.expected = append[c].expected /\ e.file = append[c].file
        /\ e.path = append[c].path
    BY <1>2, <2>1
  <2> HIDE DEF e
  <2>4. append[c].at \in HoldingLock /\ append[c].at \in ChunkOpen /\ aLock[e.path] = c /\ e.path \in Paths
    BY <1>1, <1>12, <2>3 DEF HoldingLock, ChunkOpen, LockInv, OwnInv
  <2>5. e.file \in 1 .. MaxFiles
    BY <1>1, <1>12, <2>3, <2>4 DEF OwnInv
  <2>6. c \notin crossed /\ to \in {"check", "succeeds"} => contents[e.file] = Append(e.expected, WholePiece(c))
    BY <1>12, <2>2, <2>3 DEF Progress
  <2>7. c \notin crossed /\ to = "succeeds" => Holds(contents[e.file], e.expected, WholePiece(c))
    <3>1. e.expected \in Seq(Pieces) /\ WholePiece(c) \in Pieces
      BY <2>3 DEF AppendCalls, WholePiece, Pieces
    <3> QED
      BY <2>6, <3>1, AppendHas DEF Holds
  <2>8. \A d \in Appends \ {c} : append[d].at \in ChunkOpen /\ append[d].file = e.file => {c, d} \subseteq crossed
    BY <1>1, <2>3, <2>4 DEF ApartInv
  <2>9. \A d \in Appends \ {c} : append[d].at \in HoldingLock => aLock[append[d].path] = d
    BY <1>1 DEF LockInv
  <2>10. \A d \in Appends \ {c} : c \notin crossed /\ append[d].at \in ChunkWriting => append[d].file # e.file
    BY <2>8 DEF ChunkWriting, ChunkOpen
  <2>11. to \notin {"torn", "sync", "ok", "lock"} /\ append[c].at \notin {"torn", "fails", "error", "dead", "ok"}
    BY <1>12
  <2>12. /\ e.at \notin {"torn", "sync", "ok"} /\ append[c].at # "ok"
         /\ e.at = "write" => contents[e.file] = e.expected
         /\ c \notin crossed /\ e.at \in {"sync", "check"} => contents[e.file] = Append(e.expected, WholePiece(c))
         /\ c \notin crossed /\ e.at \in Succeeded => Holds(contents[e.file], e.expected, WholePiece(c))
    BY <1>12, <2>3, <2>6, <2>7, <2>11 DEF Succeeded
  <2>13. /\ UNCHANGED <<target, inodes, contents, aLock, crossed>> /\ crossed \subseteq Appends
         /\ aLock \in [Paths -> Appends \union {"none"}]
    BY <1>1, <1>12
  <2>14. \A d \in Appends \ {c} :
           e.at \in ChunkOpen /\ append[d].at \in ChunkOpen /\ append[d].file = e.file => {c, d} \subseteq crossed'
    BY <2>8, <2>13
  <2>15. \A d \in Appends \ {c} :
           c \notin crossed' /\ e.at \in Succeeded /\ append[d].at \in ChunkWriting /\ append[d].file = e.file
             => Len(append[d].expected) >= Len(e.expected) + 1
    BY <2>10, <2>13
  <2>16. append[c].at \in {"torn", "fails", "error", "dead"} => e.at \in {"fails", "error", "dead"}
    BY <2>11
  <2> QED
    BY <2>1, <2>3, <2>4, <2>5, <2>9, <2>12, <2>13, <2>14, <2>15, <2>16, QuietStep
<1>13. ASSUME NEW c \in Appends, DigestBefore(c) \/ SyncTarget(c) \/ DigestAfter(c) PROVE AppendInv'
  <2>1. CASE DigestBefore(c)
    BY <1>12, <2>1 DEF DigestBefore, Proceeds
  <2>2. CASE SyncTarget(c)
    BY <1>12, <2>2 DEF SyncTarget, Proceeds
  <2>3. CASE DigestAfter(c)
    BY <1>12, <2>3 DEF DigestAfter, Proceeds
  <2> QED
    BY <1>13, <2>1, <2>2, <2>3
<1>14. ASSUME NEW c \in Appends, AppendFails(c) PROVE AppendInv'
  <2> DEFINE e == Moved(c, "fails")
  <2>1. /\ append' = [append EXCEPT ![c] = e] /\ append[c].at \in HoldingLock
        /\ append[c].at \notin {"fails", "succeeds", "ok"} /\ UNCHANGED <<target, contents, inodes, aLock, crossed>>
    BY <1>2, <1>14 DEF AppendFails, Proceeds, HoldingLock, AppendPlaces
  <2>2. e \in AppendCalls /\ e.at = "fails" /\ e.path = append[c].path
    BY <1>2 DEF AppendPlaces
  <2>3. aLock[e.path] = c /\ e.path \in Paths
    BY <1>1, <2>1, <2>2 DEF LockInv, OwnInv
  <2> HIDE DEF e
  <2> QED
    BY <1>1, <2>1, <2>2, <2>3, QuietStep DEF LockInv, HoldingLock, ChunkOpen, Succeeded
<1>15. ASSUME NEW c \in Appends, Unlock(c) PROVE AppendInv'
  <2>1. PICK to \in {"error", "ok"} :
          /\ append' = [append EXCEPT ![c].at = to] /\ append[c].at \in {"fails", "succeeds"}
          /\ append[c].at = "fails" <=> to = "error"
    BY <1>15 DEF Unlock
  <2> DEFINE e == Moved(c, to)
  <2>2. append' = [append EXCEPT ![c] = e] /\ to \in AppendPlaces
    BY <1>2, <2>1 DEF AppendPlaces
  <2>3. /\ e \in AppendCalls /\ e.at = to /\ e.expected = append[c].expected /\ e.file = append[c].file
        /\ e.path = append[c].path
    BY <1>2, <2>2
  <2>4. UNCHANGED <<target, contents, inodes, crossed>>
    BY <1>15 DEF Unlock
  <2>5. append[c].path \in Paths /\ append[c].at \in HoldingLock
    BY <1>1, <2>1 DEF OwnInv, HoldingLock
  <2>6. PICK left \in {"none", aLock[append[c].path]} : aLock' = [aLock EXCEPT ![append[c].path] = left]
    BY <1>15 DEF Unlock
  <2>7. aLock' \in [Paths -> Appends \union {"none"}]
    BY <1>1, <2>5, <2>6
  <2>8. \A d \in Appends \ {c} : append[d].at \in HoldingLock => aLock'[append[d].path] = d
    BY <1>1, <1>3, <2>5, <2>6 DEF LockInv, OwnInv
  <2>9. c \notin crossed => Progress(c)
    BY DEF AppendInv
  <2>10. to = "ok" => e.file \in 1 .. MaxFiles /\ (c \notin crossed => Holds(contents[e.file], e.expected, WholePiece(c)))
    BY <1>1, <2>1, <2>3, <2>9 DEF Progress, OwnInv, Succeeded
  <2>11. ASSUME to = "ok", c \notin crossed, NEW d \in Appends \ {c}, append[d].at \in ChunkWriting, append[d].file = e.file
         PROVE  Len(append[d].expected) >= Len(e.expected) + 1
    BY <1>1, <2>1, <2>3, <2>11 DEF LaterInv, Succeeded
  <2> HIDE DEF e
  <2> QED
    BY <1>1, <2>1, <2>2, <2>3, <2>4, <2>7, <2>8, <2>10, <2>11, QuietStep DEF HoldingLock, ChunkOpen, Succeeded
<1>16. ASSUME NEW c \in Appends, WritePart(c) PROVE AppendInv'
  BY <1>16, WriteStep DEF WritePart, Proceeds, ChunkWriting
<1>17. ASSUME NEW c \in Appends, WriteRest(c) PROVE AppendInv'
  <2>1. /\ append[c].at \in ChunkWriting /\ append' = [append EXCEPT ![c].at = "sync"]
        /\ UNCHANGED <<target, inodes, aLock, crossed>>
    BY <1>17 DEF WriteRest, Proceeds, ChunkWriting
  <2>2. CASE append[c].at = "write" /\ Put(c, TRUE)
    BY <2>1, <2>2, WriteStep
  <2>3. CASE append[c].at = "torn" /\ Put(c, FirstPart(c))
    <3> DEFINE whole == FirstPart(c)
    <3>1. whole \in BOOLEAN
      BY DEF FirstPart
    <3>2. c \notin crossed => whole
      <4> SUFFICES ASSUME c \notin crossed PROVE whole
        OBVIOUS
      <4>1. contents[append[c].file] = Append(append[c].expected, Torn(c))
        BY <2>3 DEF AppendInv, Progress
      <4>2. append[c].expected \in Seq(Pieces) /\ Torn(c) \in Pieces
        BY <1>1 DEF AppendCalls, Torn, Pieces
      <4> QED
        BY <4>1, <4>2, AppendHas DEF FirstPart, Torn
    <3>3. Put(c, whole)
      BY <2>3
    <3> HIDE DEF whole
    <3> QED
      BY <2>1, <3>1, <3>2, <3>3, WriteStep
  <2> QED
    BY <1>17, <2>2, <2>3 DEF WriteRest, Proceeds
<1> QED
  BY <1>5, <1>6, <1>7, <1>8, <1>9, <1>10, <1>11, <1>13, <1>14, <1>15, <1>16, <1>17, DeathStep DEF AppendNext

(* A call that was told its chunk is appended finds it whole, right after the contents it *)
(* expected; and what is written in part belongs to a call that is writing or did not    *)
(* succeed: for any number of calls, names, files and crashes, unless the call had its   *)
(* file open while another had it open under another name.                            *)
THEOREM AppendTheorem == AppendSpec => []AppendedIsThere
<1>1. ASSUME AppendInv, NEW c \in Appends \ crossed, append[c].at = "ok"
      PROVE  LET f == contents[append[c].file]  n == Len(append[c].expected)
             IN Len(f) > n /\ SubSeq(f, 1, n + 1) = Append(append[c].expected, WholePiece(c))
  <2> DEFINE f == contents[append[c].file]  known == append[c].expected  n == Len(known)
             part == SubSeq(f, 1, n + 1)
  <2>0. Progress(c) /\ AppendTypeOK
    BY <1>1 DEF AppendInv
  <2>1. /\ Holds(f, known, WholePiece(c)) /\ f \in Seq(Pieces) /\ known \in Seq(Pieces)
        /\ WholePiece(c) \in Pieces /\ Len(f) \in Nat /\ n \in Nat
    <3>1. Holds(f, known, WholePiece(c)) /\ append[c].file \in 1 .. MaxFiles
      BY <1>1, <2>0 DEF Progress, AppendInv, OwnInv, Succeeded
    <3>2. f \in Seq(Pieces) /\ known \in Seq(Pieces)
      BY <2>0, <3>1 DEF AppendTypeOK
    <3> QED
      BY <3>1, <3>2 DEF WholePiece, Pieces
  <2>2. Len(f) >= n + 1 /\ (\A k \in 1 .. n : f[k] = known[k]) /\ f[n + 1] = WholePiece(c)
    BY <2>1 DEF Holds
  <2> HIDE DEF f, known
  <2>3. part \in Seq(Pieces) /\ Len(part) = n + 1 /\ \A k \in 1 .. n + 1 : part[k] = f[k]
    BY <2>1, <2>2
  <2>4. part = Append(known, WholePiece(c))
    <3>1. \A k \in 1 .. n + 1 : part[k] = Append(known, WholePiece(c))[k]
      BY <2>1, <2>2, <2>3, AppendHas
    <3> QED
      BY <2>1, <2>3, <3>1, AppendHas, SeqEqual
  <2> QED
    BY <2>1, <2>2, <2>4 DEF f, known
<1>2. ASSUME AppendInv, NEW c \in Appends \ crossed, NEW f \in 1 .. MaxFiles, NEW k \in DOMAIN contents[f],
             contents[f][k].by = c, ~contents[f][k].whole
      PROVE  append[c].at \in {"torn", "fails", "error", "dead"}
  <2>1. contents[f] \in Seq(Pieces) /\ k \in 1 .. Len(contents[f])
    <3>1. contents[f] \in Seq(Pieces)
      BY <1>2 DEF AppendInv, AppendTypeOK
    <3> QED
      BY <3>1, LenProperties
  <2>2. contents[f][k] = Torn(c)
    <3>1. contents[f][k] \in Pieces
      BY <2>1
    <3> QED
      BY <1>2, <3>1 DEF Torn, Pieces
  <2> QED
    BY <1>2, <2>1, <2>2 DEF AppendInv, TornInv
<1>3. AppendInv => AppendedIsThere
  BY <1>1, <1>2 DEF AppendedIsThere, WholePiece
<1> QED
  BY <1>3, AppendInitInv, AppendNextInv, PTL DEF AppendSpec
-------------------------------------------------------------------------------
(* Moves, edits and creations.  Calls under way have checked a complete file; a *)
(* staging file is under its call's name only, and what is being written has no *)
(* content yet.                                                                *)
Copying == {"copy", "copying", "copied", "place", "placed", "drop", "dropped"}
Moving == {"link", "linked", "looked", "unlink"} \union Copying
Editing == {"staging", "staged", "rename"}
Staging == {"copying", "copied", "place"} \union Editing

FileBounds ==
  /\ \A x \in Names : entry[x] <= made
  /\ \A c \in FileCalls : fcall[c].ino <= made
  /\ \A i \in Inodes : i > made => data[i] = None
SourceChecked(c) ==
  /\ fcall[c].at \in Moving \union Editing => fcall[c].from \in Files /\ fcall[c].ino # None /\ data[fcall[c].ino] # None
  /\ fcall[c].at \in Moving => fcall[c].to \in Files
StagedApart(c) ==
  fcall[c].at \in Staging =>
    /\ entry[c] # None
    /\ \A x \in Names \ {c} : entry[x] # entry[c]
    /\ \A d \in FileCalls : fcall[d].ino # entry[c]
StagedHolds(c) ==
  /\ fcall[c].at \in {"copying", "staging"} => data[entry[c]] = None
  /\ fcall[c].at \in {"copied", "place"} => data[entry[c]] = data[fcall[c].ino]
  /\ fcall[c].at \in {"staged", "rename"} => data[entry[c]] = entry[c]
  /\ fcall[c].at \in {"copying", "copied", "place"} => entry[c] > fcall[c].ino
FillingApart(c) ==
  fcall[c].at = "filling" =>
    /\ fcall[c].ino # None /\ data[fcall[c].ino] = None
    /\ \A d \in FileCalls \ {c} : fcall[d].at = "filling" => fcall[d].ino # fcall[c].ino
ByLink(c) == Device[fcall[c].from] = Device[fcall[c].to]
OnPath(c) ==
  /\ fcall[c].at \in {"linked", "looked"} => ByLink(c)
  /\ fcall[c].at \in Copying => ~ByLink(c)
CallShape(c) == SourceChecked(c) /\ StagedApart(c) /\ StagedHolds(c) /\ FillingApart(c) /\ OnPath(c)
FileShape == FileTypeOK /\ FileBounds /\ \A c \in FileCalls : CallShape(c)

(* A content that was given up, and an inode whose content a later inode holds    *)
(* under a name.  Names are counted: a move that linked the file it had checked    *)
(* added one, and takes one away.                                             *)
GivenUp(v) == v \in superseded \union overtaken
Copied(i) == \E n \in Files : entry[n] > i /\ data[entry[n]] = data[i]
Safe(i) == GivenUp(data[i]) \/ Copied(i)
Holders(i) == {n \in Files : entry[n] = i}
Linking == {"linked", "looked", "unlink"}
Adders(i) == {c \in FileCalls \ misled : fcall[c].at \in Linking /\ fcall[c].ino = i /\ ByLink(c)}
Committed(c) == fcall[c].at \in {"placed", "drop", "dropped"} \/ (fcall[c].at = "unlink" /\ ~ByLink(c))

CopiesSafe == \A c \in FileCalls : Committed(c) => Safe(fcall[c].ino)
LinksSafe ==
  \A i \in Inodes : Adders(i) # {} => Safe(i) \/ Cardinality(Holders(i)) > Cardinality(Adders(i))
Present(v) == \E n \in Files : entry[n] # None /\ data[entry[n]] = v
FileInv ==
  /\ FileShape /\ CopiesSafe /\ LinksSafe
  /\ \A v \in written : GivenUp(v) \/ Present(v)

(* What a step of one call may do to what the others rely on.                    *)
Tame(c) ==
  /\ \A d \in FileCalls \ {c} : fcall'[d] = fcall[d] /\ entry'[d] = entry[d]
  /\ \A x \in Names : \/ entry'[x] \in {None, entry[x], made + 1, entry[c]}
                       \/ \E y \in Files : entry'[x] = entry[y]
  /\ \/ fcall'[c].ino \in {fcall[c].ino, made + 1}
     \/ \E y \in Files : fcall'[c].ino = entry[y]
  /\ fcall'[c].at = "filling" => fcall'[c].ino = made + 1
  /\ \A i \in Inodes : \/ data'[i] = data[i]
                       \/ /\ data[i] = None
                          /\ \/ fcall[c].at \in Staging /\ i = entry[c]
                             \/ fcall[c].at = "filling" /\ i = fcall[c].ino

LEMMA CallsApart ==
  ASSUME FileShape, NEW c \in FileCalls, Tame(c), NEW d \in FileCalls, d # c
  PROVE  CallShape(d)'
<1>1. fcall'[d] = fcall[d] /\ entry'[d] = entry[d] /\ d \in Names /\ c \in Names
  BY DEF Tame, Names
<1>2. fcall[d].ino \in Nat /\ fcall[d].ino <= made /\ entry[d] \in Nat /\ entry[d] <= made /\ made \in Nat
  BY <1>1, FileAssumption DEF FileShape, FileTypeOK, FileBounds, FileCall, Inodes, None
<1>3. \A i \in Inodes : data[i] # None => data'[i] = data[i]
  BY DEF Tame
<1>4. SourceChecked(d)'
  <2>1. fcall[d].ino # None => fcall[d].ino \in Inodes
    BY DEF FileShape, FileTypeOK, FileCall
  <2> QED BY <1>1, <1>3, <2>1 DEF FileShape, CallShape, SourceChecked
<1>5. fcall[d].at \in Staging =>
        /\ entry[d] \in Inodes /\ \A x \in Names \ {d} : entry[x] # entry[d]
        /\ \A e \in FileCalls : fcall[e].ino # entry[d]
  BY <1>1 DEF FileShape, CallShape, StagedApart, FileTypeOK
<1>6. StagedApart(d)'
  <2>1. SUFFICES ASSUME fcall[d].at \in Staging
                 PROVE  /\ entry[d] # None
                        /\ \A x \in Names \ {d} : entry'[x] # entry[d]
                        /\ \A e \in FileCalls : fcall'[e].ino # entry[d]
    BY <1>1 DEF StagedApart
  <2>2. entry[d] \in Inodes /\ \A y \in Files : entry[y] # entry[d]
    BY <1>5, <2>1, FileAssumption DEF Names
  <2>3. entry[d] # made + 1 /\ entry[d] # None
    BY <2>2, <1>2 DEF Inodes, None
  <2>4. entry[c] # entry[d]
    BY <1>1, <1>5, <2>1
  <2>5. ASSUME NEW x \in Names \ {d} PROVE entry'[x] # entry[d]
    <3>1. entry[x] # entry[d]
      BY <1>5, <2>1
    <3> QED BY <2>2, <2>3, <2>4, <3>1 DEF Tame
  <2>6. ASSUME NEW e \in FileCalls PROVE fcall'[e].ino # entry[d]
    <3>1. fcall[e].ino # entry[d]
      BY <1>5, <2>1
    <3>2. CASE e = c
      BY <3>1, <3>2, <2>2, <2>3 DEF Tame
    <3>3. CASE e # c
      BY <3>1, <3>3 DEF Tame
    <3> QED BY <3>2, <3>3
  <2> QED BY <2>3, <2>5, <2>6
<1>7. StagedHolds(d)'
  <2>1. fcall[d].at \in Staging => data'[entry[d]] = data[entry[d]]
    <3>1. fcall[d].at \in Staging => entry[d] \in Inodes /\ entry[d] # entry[c] /\ entry[d] # fcall[c].ino
      BY <1>1, <1>5
    <3> QED BY <3>1 DEF Tame
  <2>2. fcall[d].at \in {"copied", "place"} => fcall[d].ino \in Inodes /\ data[fcall[d].ino] # None
    BY DEF FileShape, CallShape, SourceChecked, FileTypeOK, FileCall, Moving, Copying
  <2>3. fcall[d].at \in {"copied", "place"} => data'[fcall[d].ino] = data[fcall[d].ino]
    BY <2>2, <1>3
  <2>4. StagedHolds(d)
    BY DEF FileShape, CallShape
  <2> QED BY <1>1, <2>1, <2>3, <2>4 DEF StagedHolds, Staging, Editing
<1>8. FillingApart(d)'
  <2>1. SUFFICES ASSUME fcall[d].at = "filling"
                 PROVE  /\ fcall[d].ino # None /\ data'[fcall[d].ino] = None
                        /\ \A e \in FileCalls \ {d} : fcall'[e].at = "filling" => fcall'[e].ino # fcall[d].ino
    BY <1>1 DEF FillingApart
  <2>2. /\ fcall[d].ino \in Inodes /\ fcall[d].ino # None /\ data[fcall[d].ino] = None
        /\ \A e \in FileCalls \ {d} : fcall[e].at = "filling" => fcall[e].ino # fcall[d].ino
    BY <2>1 DEF FileShape, CallShape, FillingApart, FileTypeOK, FileCall
  <2>3. fcall[c].at \in Staging => entry[c] # fcall[d].ino
    BY DEF FileShape, CallShape, StagedApart
  <2>4. data'[fcall[d].ino] = None
    BY <2>2, <2>3 DEF Tame
  <2>5. made + 1 # fcall[d].ino
    BY <1>2
  <2> QED BY <2>2, <2>4, <2>5 DEF Tame
<1>9. OnPath(d)'
  BY <1>1 DEF FileShape, CallShape, OnPath, ByLink
<1> QED BY <1>4, <1>6, <1>7, <1>8, <1>9 DEF CallShape

LEMMA ShapeKept ==
  ASSUME FileShape, NEW c \in FileCalls, Tame(c), FileTypeOK', FileBounds', CallShape(c)'
  PROVE  FileShape'
BY CallsApart DEF FileShape

(* A call goes on to another place; nothing but its files may change.             *)
LEMMA FileCallGoes ==
  ASSUME fcall \in [FileCalls -> FileCall], NEW c \in FileCalls, NEW to \in FilePlaces,
         fcall' = [fcall EXCEPT ![c].at = to]
  PROVE  /\ fcall' \in [FileCalls -> FileCall] /\ fcall'[c].at = to
         /\ \A d \in FileCalls : /\ fcall'[d].from = fcall[d].from /\ fcall'[d].to = fcall[d].to
                                /\ fcall'[d].ino = fcall[d].ino
         /\ \A d \in FileCalls \ {c} : fcall'[d] = fcall[d]
BY DEF FileCall

Follows(from, to) ==
  /\ to \in Moving => from \in Moving
  /\ to \in Editing => from \in Editing
  /\ to \in {"copied", "place"} => from \in {"copied", "place"}
  /\ to \in {"staged", "rename"} => from \in {"staged", "rename"}
  /\ to \in {"linked", "looked"} => from \in {"linked", "looked"}
  /\ to \in Copying => from \in Copying
  /\ to \notin {"copying", "staging", "filling"}

LEMMA QuietShape ==
  ASSUME FileShape, NEW c \in FileCalls, NEW to \in FilePlaces, Follows(fcall[c].at, to),
         fcall' = [fcall EXCEPT ![c].at = to], UNCHANGED <<disk, history>>
  PROVE  FileShape'
<1>1. /\ fcall' \in [FileCalls -> FileCall] /\ fcall'[c].at = to
      /\ \A d \in FileCalls : /\ fcall'[d].from = fcall[d].from /\ fcall'[d].to = fcall[d].to
                             /\ fcall'[d].ino = fcall[d].ino
      /\ \A d \in FileCalls \ {c} : fcall'[d] = fcall[d]
  BY FileCallGoes DEF FileShape, FileTypeOK
<1>2. entry' = entry /\ data' = data /\ made' = made /\ written' = written /\ superseded' = superseded
      /\ overtaken' = overtaken /\ misled' = misled
  BY DEF disk, history
<1>3. Tame(c)
  BY <1>1, <1>2 DEF Tame, Follows
<1>4. FileTypeOK' /\ FileBounds'
  BY <1>1, <1>2 DEF FileShape, FileTypeOK, FileBounds
<1>5. SourceChecked(c) /\ StagedApart(c) /\ StagedHolds(c) /\ OnPath(c)
  BY DEF FileShape, CallShape
<1>6. SourceChecked(c)'
  BY <1>1, <1>2, <1>5 DEF SourceChecked, Follows
<1>7. StagedApart(c)' /\ StagedHolds(c)'
  BY <1>1, <1>2, <1>5 DEF StagedApart, StagedHolds, Follows, Staging, Editing
<1>8. FillingApart(c)' /\ OnPath(c)'
  BY <1>1, <1>2, <1>5 DEF FillingApart, OnPath, ByLink, Follows
<1> QED BY <1>3, <1>4, <1>6, <1>7, <1>8, ShapeKept DEF CallShape

Quiet(c) ==
  \/ LookAtTarget(c) \/ LookAtSource(c) \/ CheckCopied(c) \/ CheckPlaced(c)
  \/ CheckSource(c) \/ CheckEdited(c) \/ CallFails(c)

LEMMA QuietIsLook ==
  ASSUME FileShape, NEW c \in FileCalls, Quiet(c)
  PROVE  /\ UNCHANGED <<disk, history>>
         /\ \E to \in FilePlaces :
              /\ fcall' = [fcall EXCEPT ![c].at = to] /\ Follows(fcall[c].at, to)
              /\ to \in {"drop", "dropped"} => fcall[c].at \in {"placed", "drop"}
              /\ to = "unlink" => fcall[c].at \in {"looked", "dropped"}
              /\ to \notin {"placed", "moved"}
<1>1. CASE LookAtTarget(c)
  BY <1>1 DEF LookAtTarget, Looks, Goes, Follows, FilePlaces, Moving, Copying, Editing
<1>2. CASE LookAtSource(c)
  BY <1>2 DEF LookAtSource, Looks, Goes, Follows, FilePlaces, Moving, Copying, Editing
<1>3. CASE CheckCopied(c)
  BY <1>3 DEF CheckCopied, Looks, Goes, Follows, FilePlaces, Moving, Copying, Editing
<1>4. CASE CheckPlaced(c)
  BY <1>4 DEF CheckPlaced, Looks, Goes, Follows, FilePlaces, Moving, Copying, Editing
<1>5. CASE CheckSource(c)
  BY <1>5 DEF CheckSource, Looks, Goes, Follows, FilePlaces, Moving, Copying, Editing
<1>6. CASE CheckEdited(c)
  BY <1>6 DEF CheckEdited, Looks, Goes, Follows, FilePlaces, Moving, Copying, Editing
<1>7. CASE CallFails(c)
  BY <1>7 DEF CallFails, Looks, Goes, Follows, FilePlaces, Moving, Copying, Editing
<1> QED BY <1>1, <1>2, <1>3, <1>4, <1>5, <1>6, <1>7 DEF Quiet

(* Facts of the shape that every step's proof starts from.                      *)
LEMMA ShapeFacts ==
  ASSUME FileShape, NEW c \in FileCalls
  PROVE  /\ c \in Names /\ c \notin Files /\ Files \subseteq Names
         /\ made \in Nat /\ made <= MaxInodes /\ MaxInodes \in Nat
         /\ entry \in [Names -> Inodes \union {None}] /\ data \in [Inodes -> Inodes \union {None}]
         /\ fcall \in [FileCalls -> FileCall]
         /\ fcall[c].ino \in Inodes \union {None} /\ fcall[c].at \in FilePlaces
         /\ fcall[c].from \in Files \union {"none"} /\ fcall[c].to \in Files \union {"none"}
         /\ SourceChecked(c) /\ StagedApart(c) /\ StagedHolds(c) /\ FillingApart(c) /\ OnPath(c)
BY FileAssumption DEF FileShape, CallShape, FileTypeOK, FileCall, Names, Inodes

LEMMA LinkShape ==
  ASSUME FileShape, NEW c \in FileCalls, LinkSource(c)
  PROVE  FileShape'
<1> DEFINE s == fcall[c].from
           t == fcall[c].to
           linkable == Vacant(t) /\ entry[s] # None
           to == IF linkable THEN IF Device[s] = Device[t] THEN "linked" ELSE "copy" ELSE "failed"
<1>1. /\ fcall[c].at = "link" /\ to \in FilePlaces /\ fcall' = [fcall EXCEPT ![c].at = to]
      /\ entry' = IF linkable /\ Device[s] = Device[t] THEN [entry EXCEPT ![t] = entry[s]] ELSE entry
      /\ data' = data /\ made' = made /\ written' = written /\ superseded' = superseded
      /\ overtaken' = overtaken /\ (misled' = misled \/ misled' = misled \union {c})
  BY DEF LinkSource, Goes, FilePlaces
<1>2. /\ to \in {"linked", "copy", "failed"}
      /\ (to = "linked" => Device[s] = Device[t]) /\ (to = "copy" => Device[s] # Device[t])
  OBVIOUS
<1>3. s \in Files /\ t \in Files /\ fcall[c].ino # None /\ data[fcall[c].ino] # None
  BY <1>1, ShapeFacts DEF SourceChecked, Moving, Copying
<1> HIDE DEF linkable, to
<1>4. /\ fcall' \in [FileCalls -> FileCall] /\ fcall'[c].at = to
      /\ \A d \in FileCalls : /\ fcall'[d].from = fcall[d].from /\ fcall'[d].to = fcall[d].to
                             /\ fcall'[d].ino = fcall[d].ino
      /\ \A d \in FileCalls \ {c} : fcall'[d] = fcall[d]
  BY <1>1, FileCallGoes, ShapeFacts
<1>5. \A x \in Names : entry'[x] = entry[x] \/ (x = t /\ entry'[x] = entry[s])
  BY <1>1, <1>3, ShapeFacts
<1>6. Tame(c)
  <2>1. \A d \in FileCalls : entry'[d] = entry[d]
    BY <1>3, <1>5, ShapeFacts
  <2> QED BY <1>1, <1>2, <1>3, <1>4, <1>5, <2>1 DEF Tame
<1>7. FileTypeOK'
  <2>1. entry' \in [Names -> Inodes \union {None}]
    BY <1>1, <1>3, ShapeFacts
  <2> QED BY <1>1, <1>4, <2>1 DEF FileShape, FileTypeOK
<1>8. FileBounds'
  <2>1. \A x \in Names : entry[x] <= made
    BY DEF FileShape, FileBounds
  <2>2. \A x \in Names : entry'[x] <= made
    BY <1>3, <1>5, <2>1, ShapeFacts
  <2> QED BY <1>1, <1>4, <2>2 DEF FileShape, FileBounds
<1>9. CallShape(c)'
  BY <1>1, <1>2, <1>3, <1>4 DEF CallShape, SourceChecked, StagedApart, StagedHolds, FillingApart, OnPath, ByLink, Moving, Copying, Staging, Editing
<1> QED BY <1>6, <1>7, <1>8, <1>9, ShapeKept

(* Names are taken away, or the staging name is given up for another.             *)
LEMMA TakenShape ==
  ASSUME FileShape, NEW c \in FileCalls, NEW to \in {"moved", "dropped", "reconcile", "placed", "failed", fcall[c].at},
         fcall' = [fcall EXCEPT ![c].at = to], entry' \in [Names -> Inodes \union {None}],
         fcall[c].at \in {"unlink", "drop", "place", "failed", "reconcile"},
         to = "placed" => fcall[c].at = "place",
         to = "dropped" => fcall[c].at = "drop",
         to = fcall[c].at => fcall[c].at \in {"failed", "reconcile"},
         \A d \in FileCalls \ {c} : entry'[d] = entry[d],
         \A x \in Names : entry'[x] \in {None, entry[x], entry[c]},
         data' = data, made' = made, written' = written, superseded' = superseded, misled' = misled,
         overtaken' \subseteq Inodes \union {None}
  PROVE  FileShape'
<1>0. to \in FilePlaces
  BY ShapeFacts DEF FilePlaces
<1>1. /\ fcall' \in [FileCalls -> FileCall] /\ fcall'[c].at = to
      /\ \A d \in FileCalls : /\ fcall'[d].from = fcall[d].from /\ fcall'[d].to = fcall[d].to
                             /\ fcall'[d].ino = fcall[d].ino
      /\ \A d \in FileCalls \ {c} : fcall'[d] = fcall[d]
  BY <1>0, FileCallGoes, ShapeFacts
<1>2. to \in {"moved", "dropped", "reconcile", "placed", "failed"} /\ (to \in {"placed", "dropped"} => fcall[c].at \in Moving)
  BY DEF Moving, Copying
<1>3. Tame(c)
  BY <1>1, <1>2 DEF Tame
<1>4. FileTypeOK'
  BY <1>1 DEF FileShape, FileTypeOK
<1>5. FileBounds'
  <2>1. \A x \in Names : entry'[x] <= made
    BY ShapeFacts DEF FileShape, FileBounds, None
  <2> QED BY <1>1, <2>1 DEF FileShape, FileBounds
<1>6. CallShape(c)'
  <2>1. SourceChecked(c)'
    BY <1>1, <1>2, ShapeFacts DEF SourceChecked, Moving, Copying, Editing
  <2>2. OnPath(c)'
    <3>1. OnPath(c)
      BY ShapeFacts
    <3> QED BY <1>1, <1>2, <3>1 DEF OnPath, ByLink, Copying
  <2> QED BY <1>1, <1>2, <2>1, <2>2 DEF CallShape, StagedApart, StagedHolds, FillingApart, Staging, Editing
<1> QED BY <1>3, <1>4, <1>5, <1>6, ShapeKept

LEMMA UnlinkShape ==
  ASSUME FileShape, NEW c \in FileCalls, UnlinkSource(c)
  PROVE  FileShape'
<1>1. /\ fcall[c].at = "unlink"
      /\ \E to \in {"moved", "reconcile"} : fcall' = [fcall EXCEPT ![c].at = to]
      /\ entry' = [entry EXCEPT ![fcall[c].from] = None]
      /\ data' = data /\ made' = made /\ written' = written /\ superseded' = superseded /\ misled' = misled
      /\ Displaces(c)
  BY DEF UnlinkSource, Goes
<1>2. fcall[c].from \in Files
  BY <1>1, ShapeFacts DEF SourceChecked, Moving, Copying
<1>3. entry' \in [Names -> Inodes \union {None}] /\ (\A x \in Names : entry'[x] \in {None, entry[x], entry[c]})
      /\ \A d \in FileCalls \ {c} : entry'[d] = entry[d]
  BY <1>1, <1>2, ShapeFacts, FileAssumption DEF Names
<1>4. overtaken' \subseteq Inodes \union {None}
  <2>1. entry[fcall[c].from] # None => data[entry[fcall[c].from]] \in Inodes \union {None}
    BY <1>2, ShapeFacts
  <2> QED BY <1>1, <2>1 DEF Displaces, FileShape, FileTypeOK
<1> QED BY <1>1, <1>3, <1>4, TakenShape

LEMMA PlaceShape ==
  ASSUME FileShape, NEW c \in FileCalls, PlaceCopy(c)
  PROVE  FileShape'
<1>1. /\ fcall[c].at = "place"
      /\ \E to \in {"placed", "failed"} : fcall' = [fcall EXCEPT ![c].at = to]
      /\ entry' = entry \/ entry' = [entry EXCEPT ![fcall[c].to] = entry[c]]
      /\ data' = data /\ made' = made /\ written' = written /\ superseded' = superseded /\ misled' = misled
      /\ overtaken' = overtaken
  BY DEF PlaceCopy, Goes, history
<1>2. fcall[c].to \in Files
  BY <1>1, ShapeFacts DEF SourceChecked, Moving, Copying
<1>3. entry' \in [Names -> Inodes \union {None}] /\ (\A x \in Names : entry'[x] \in {None, entry[x], entry[c]})
      /\ \A d \in FileCalls \ {c} : entry'[d] = entry[d]
  <2>1. fcall[c].to \in Names /\ fcall[c].to \notin FileCalls /\ c \in Names /\ FileCalls \subseteq Names
    BY <1>2, ShapeFacts, FileAssumption DEF Names
  <2>2. entry[c] \in Inodes \union {None}
    BY <2>1, ShapeFacts
  <2>3. CASE entry' = entry
    BY <2>1, <2>3, ShapeFacts
  <2>4. CASE entry' = [entry EXCEPT ![fcall[c].to] = entry[c]]
    BY <2>1, <2>2, <2>4, ShapeFacts
  <2> QED BY <1>1, <2>3, <2>4
<1>4. overtaken' \subseteq Inodes \union {None}
  BY <1>1 DEF FileShape, FileTypeOK
<1> QED BY <1>1, <1>3, <1>4, TakenShape

LEMMA StagingGoesShape ==
  ASSUME FileShape, NEW c \in FileCalls, DropStaging(c) \/ RemoveStaging(c)
  PROVE  FileShape'
<1>1. /\ \/ /\ fcall[c].at = "drop"
            /\ \E to \in {"dropped", "reconcile"} : fcall' = [fcall EXCEPT ![c].at = to]
         \/ fcall[c].at \in {"failed", "reconcile"} /\ fcall' = fcall
      /\ entry' = [entry EXCEPT ![c] = None]
      /\ data' = data /\ made' = made /\ written' = written /\ superseded' = superseded /\ misled' = misled
      /\ overtaken' = overtaken
  BY DEF DropStaging, RemoveStaging, Goes, history
<1>2. fcall' = fcall => fcall' = [fcall EXCEPT ![c].at = fcall[c].at]
  BY ShapeFacts DEF FileCall
<1>3. entry' \in [Names -> Inodes \union {None}] /\ (\A x \in Names : entry'[x] \in {None, entry[x], entry[c]})
      /\ \A d \in FileCalls \ {c} : entry'[d] = entry[d]
  BY <1>1, ShapeFacts DEF Names
<1>4. overtaken' \subseteq Inodes \union {None}
  BY <1>1 DEF FileShape, FileTypeOK
<1>5. CASE fcall' = fcall /\ fcall[c].at \in {"failed", "reconcile"}
  BY <1>1, <1>2, <1>3, <1>4, <1>5, TakenShape
<1>6. CASE fcall[c].at = "drop" /\ \E to \in {"dropped", "reconcile"} : fcall' = [fcall EXCEPT ![c].at = to]
  BY <1>1, <1>3, <1>4, <1>6, TakenShape
<1> QED BY <1>1, <1>5, <1>6

LEMMA RenameShape ==
  ASSUME FileShape, NEW c \in FileCalls, RenameEdit(c)
  PROVE  FileShape'
<1> DEFINE n == fcall[c].from
<1>1. /\ fcall[c].at = "rename" /\ fcall' = [fcall EXCEPT ![c].at = "edited"]
      /\ entry' = [entry EXCEPT ![n] = entry[c], ![c] = None]
      /\ data' = data /\ made' = made /\ misled' = misled /\ Displaces(c)
      /\ superseded' = superseded \union {data[fcall[c].ino]}
      /\ written' = written \union {data[entry[c]]}
  BY DEF RenameEdit, Goes
<1>2. /\ n \in Files /\ fcall[c].ino \in Inodes /\ data[fcall[c].ino] \in Inodes
      /\ entry[c] \in Inodes /\ data[entry[c]] = entry[c]
  BY <1>1, ShapeFacts DEF SourceChecked, StagedApart, StagedHolds, Editing, Staging
<1>3. /\ fcall' \in [FileCalls -> FileCall] /\ fcall'[c].at = "edited"
      /\ \A d \in FileCalls : /\ fcall'[d].from = fcall[d].from /\ fcall'[d].to = fcall[d].to
                             /\ fcall'[d].ino = fcall[d].ino
      /\ \A d \in FileCalls \ {c} : fcall'[d] = fcall[d]
  <2>1. "edited" \in FilePlaces
    BY DEF FilePlaces
  <2> QED BY <1>1, <2>1, FileCallGoes, ShapeFacts
<1>4. entry' \in [Names -> Inodes \union {None}] /\ (\A x \in Names : entry'[x] \in {None, entry[x], entry[c]})
      /\ \A d \in FileCalls \ {c} : entry'[d] = entry[d]
  <2>1. n \in Names /\ c \in Names /\ n # c /\ n \notin FileCalls
    BY <1>2, ShapeFacts, FileAssumption
  <2>2. \A x \in Names : entry'[x] = IF x = c THEN None ELSE IF x = n THEN entry[c] ELSE entry[x]
    BY <1>1, <2>1, ShapeFacts
  <2>3. entry' \in [Names -> Inodes \union {None}]
    BY <1>1, <1>2, <2>1, ShapeFacts
  <2> QED BY <2>1, <2>2, <2>3 DEF Names
<1>5. Tame(c)
  BY <1>1, <1>3, <1>4 DEF Tame
<1>6. FileTypeOK'
  <2>1. overtaken' \subseteq Inodes \union {None}
    <3>1. entry[n] # None => data[entry[n]] \in Inodes \union {None}
      BY <1>2, ShapeFacts
    <3> QED BY <1>1, <3>1 DEF Displaces, FileShape, FileTypeOK
  <2> QED BY <1>1, <1>2, <1>3, <1>4, <2>1 DEF FileShape, FileTypeOK
<1>7. FileBounds'
  <2>1. \A x \in Names : entry'[x] <= made
    BY <1>4, ShapeFacts DEF FileShape, FileBounds, None
  <2> QED BY <1>1, <1>3, <2>1 DEF FileShape, FileBounds
<1>8. CallShape(c)'
  BY <1>3 DEF CallShape, SourceChecked, StagedApart, StagedHolds, FillingApart, OnPath, ByLink, Moving, Copying, Staging, Editing
<1> QED BY <1>5, <1>6, <1>7, <1>8, ShapeKept

(* A content is written to an inode that has none.                              *)
LEMMA FillShape ==
  ASSUME FileShape, NEW c \in FileCalls, NEW i \in Inodes, NEW content \in Inodes, NEW to \in {"copied", "staged", "created"},
         fcall' = [fcall EXCEPT ![c].at = to], data' = [data EXCEPT ![i] = content],
         to = "copied" => fcall[c].at = "copying" /\ i = entry[c] /\ content = data[fcall[c].ino],
         to = "staged" => fcall[c].at = "staging" /\ i = entry[c] /\ content = i,
         to = "created" => fcall[c].at = "filling" /\ i = fcall[c].ino,
         entry' = entry, made' = made, written' \subseteq Inodes,
         superseded' = superseded, overtaken' = overtaken, misled' = misled
  PROVE  FileShape' /\ data[i] = None
<1>0. to \in FilePlaces
  BY DEF FilePlaces
<1>1. /\ fcall' \in [FileCalls -> FileCall] /\ fcall'[c].at = to
      /\ \A d \in FileCalls : /\ fcall'[d].from = fcall[d].from /\ fcall'[d].to = fcall[d].to
                             /\ fcall'[d].ino = fcall[d].ino
      /\ \A d \in FileCalls \ {c} : fcall'[d] = fcall[d]
  BY <1>0, FileCallGoes, ShapeFacts
<1>2. data[i] = None /\ i <= made
  BY ShapeFacts DEF StagedHolds, FillingApart, FileShape, FileBounds
<1>3. data' \in [Inodes -> Inodes \union {None}] /\ data'[i] = content /\ \A k \in Inodes \ {i} : data'[k] = data[k]
  BY ShapeFacts
<1>4. Tame(c)
  <2>1. to # "created" => fcall[c].at \in Staging /\ i = entry[c]
    BY DEF Staging, Editing
  <2> QED BY <1>1, <1>2, <1>3, <2>1 DEF Tame
<1>5. FileTypeOK'
  BY <1>1, <1>3 DEF FileShape, FileTypeOK
<1>6. FileBounds'
  BY <1>1, <1>2, <1>3, ShapeFacts DEF FileShape, FileBounds, Inodes
<1>7. CallShape(c)'
  <2>1. CASE to = "created"
    BY <1>1, <2>1 DEF CallShape, SourceChecked, StagedApart, StagedHolds, FillingApart, OnPath, ByLink, Moving, Copying, Staging, Editing
  <2>2. CASE to # "created"
    <3>1. /\ fcall[c].at \in {"copying", "staging"} /\ fcall[c].at \in Staging /\ i = entry[c]
          /\ fcall[c].ino # entry[c] /\ fcall[c].ino \in Inodes /\ data[fcall[c].ino] # None /\ fcall[c].from \in Files
          /\ fcall[c].at = "copying" => fcall[c].to \in Files /\ entry[c] > fcall[c].ino
      BY <2>2, ShapeFacts DEF SourceChecked, StagedApart, StagedHolds, Staging, Editing, Moving, Copying
    <3>2. SourceChecked(c)'
      <4>1. fcall'[c].ino = fcall[c].ino /\ fcall'[c].from \in Files /\ data'[fcall[c].ino] # None
        BY <1>1, <1>3, <3>1
      <4>2. fcall'[c].at \in Moving => fcall'[c].to \in Files
        <5>1. fcall'[c].at \in Moving => fcall[c].at = "copying"
          BY <1>1, <2>2 DEF Moving, Copying
        <5> QED BY <1>1, <3>1, <5>1
      <4>3. fcall[c].ino # None
        BY <3>1 DEF Inodes, None
      <4> QED BY <4>1, <4>2, <4>3 DEF SourceChecked
    <3>3. StagedApart(c)'
      <4>1. StagedApart(c)
        BY ShapeFacts
      <4> QED BY <1>1, <3>1, <4>1 DEF StagedApart
    <3>4. StagedHolds(c)'
      BY <1>1, <1>3, <2>2, <3>1 DEF StagedHolds
    <3>5. OnPath(c)'
      <4>1. OnPath(c)
        BY ShapeFacts
      <4> QED BY <1>1, <2>2, <3>1, <4>1 DEF OnPath, ByLink, Copying
    <3> QED BY <1>1, <2>2, <3>2, <3>3, <3>4, <3>5 DEF CallShape, FillingApart
  <2> QED BY <2>1, <2>2
<1> QED BY <1>2, <1>4, <1>5, <1>6, <1>7, ShapeKept

(* A new inode under a staging name, or under a name of the workspace.            *)
LEMMA OpenShape ==
  ASSUME FileShape, NEW c \in FileCalls, NEW x \in {c} \union Files, Opens(x),
         NEW call \in FileCall, fcall' = [fcall EXCEPT ![c] = call], UNCHANGED history,
         \/ /\ call.at \in {"copying", "staging"} /\ x = c /\ call.ino \in Inodes /\ call.ino <= made
            /\ data[call.ino] # None /\ call.from \in Files /\ (call.at = "copying" => call.to \in Files /\ Device[call.from] # Device[call.to])
            /\ call.ino = fcall[c].ino \/ \E y \in Files : call.ino = entry[y]
         \/ call.at = "filling" /\ call.ino = made + 1 /\ x \in Files
  PROVE  FileShape'
<1>1. /\ fcall' \in [FileCalls -> FileCall] /\ fcall'[c] = call /\ \A d \in FileCalls \ {c} : fcall'[d] = fcall[d]
  BY ShapeFacts
<1>2. x \in Names /\ (x # c => x \notin FileCalls) /\ FileCalls \subseteq Names
  BY FileAssumption DEF Names
<1>3. /\ made' = made + 1 /\ made' \in Nat /\ made' <= MaxInodes /\ made + 1 \in Inodes
      /\ data' = data /\ data[made + 1] = None
  BY ShapeFacts, FileAssumption DEF Opens, FileShape, FileBounds, Inodes
<1>4. entry' \in [Names -> Inodes \union {None}] /\ entry'[x] = made + 1 /\ \A y \in Names \ {x} : entry'[y] = entry[y]
  BY <1>2, <1>3, ShapeFacts DEF Opens
<1>5. written' = written /\ superseded' = superseded /\ overtaken' = overtaken /\ misled' = misled
  BY DEF history
<1>6. Tame(c)
  BY <1>1, <1>2, <1>3, <1>4 DEF Tame
<1>7. FileTypeOK'
  BY <1>1, <1>3, <1>4, <1>5 DEF FileShape, FileTypeOK
<1>8. (\A y \in Names : entry[y] <= made) /\ (\A d \in FileCalls : fcall[d].ino <= made)
  BY DEF FileShape, FileBounds
<1>9. FileBounds'
  <2>1. \A y \in Names : entry'[y] <= made'
    <3>1. \A y \in Names : entry[y] \in Nat
      BY ShapeFacts DEF Inodes, None
    <3> QED BY <1>3, <1>4, <1>8, <3>1, ShapeFacts
  <2>2. \A d \in FileCalls : fcall'[d].ino <= made'
    <3>1. \A d \in FileCalls : fcall[d].ino \in Nat
      BY ShapeFacts DEF Inodes, None
    <3>2. call.ino <= made'
      BY <1>3, ShapeFacts DEF Inodes
    <3> QED BY <1>1, <1>3, <1>8, <3>1, <3>2, ShapeFacts
  <2>3. \A i \in Inodes : i > made' => data'[i] = None
    BY <1>3, ShapeFacts DEF FileShape, FileBounds, Inodes
  <2> QED BY <2>1, <2>2, <2>3 DEF FileBounds
<1>10. CASE call.at \in {"copying", "staging"} /\ x = c /\ call.ino \in Inodes /\ call.ino <= made
            /\ data[call.ino] # None /\ call.from \in Files /\ (call.at = "copying" => call.to \in Files /\ Device[call.from] # Device[call.to])
  <2>1. entry'[c] = made + 1 /\ fcall'[c] = call /\ made + 1 # None
    BY <1>1, <1>4, <1>10, ShapeFacts DEF None
  <2>2. SourceChecked(c)'
    BY <1>3, <1>10, <2>1 DEF SourceChecked, Moving, Copying, Inodes, None
  <2>3. StagedApart(c)'
    <3>1. ASSUME NEW y \in Names \ {c} PROVE entry'[y] # made + 1
      <4>1. entry'[y] = entry[y] /\ entry[y] <= made /\ entry[y] \in Nat
        BY <1>4, <1>8, <1>10, ShapeFacts DEF Inodes, None
      <4> QED BY <4>1, ShapeFacts
    <3>2. ASSUME NEW d \in FileCalls PROVE fcall'[d].ino # made + 1
      <4>1. fcall'[d].ino \in Nat /\ fcall'[d].ino <= made
        BY <1>1, <1>8, <1>10, ShapeFacts DEF Inodes, None
      <4> QED BY <4>1, ShapeFacts
    <3> QED BY <2>1, <3>1, <3>2 DEF StagedApart
  <2>4. StagedHolds(c)'
    BY <1>3, <1>10, <2>1, ShapeFacts DEF StagedHolds, Inodes
  <2>5. fcall'[c].at # "filling" /\ OnPath(c)'
    BY <1>10, <2>1 DEF OnPath, ByLink, Copying
  <2>6. FillingApart(c)'
    BY <2>5 DEF FillingApart
  <2>7. CallShape(c)'
    BY <2>2, <2>3, <2>4, <2>5, <2>6 DEF CallShape
  <2> QED BY <1>6, <1>7, <1>9, <2>7, ShapeKept
<1>11. CASE call.at = "filling" /\ call.ino = made + 1 /\ x \in Files
  <2>1. \A d \in FileCalls \ {c} : fcall'[d].ino # made + 1
    <3>1. \A d \in FileCalls : fcall[d].ino \in Nat
      BY ShapeFacts DEF Inodes, None
    <3> QED BY <1>1, <1>8, <3>1, ShapeFacts
  <2>2. fcall'[c].at = "filling" /\ fcall'[c].ino = made + 1 /\ made + 1 # 0 /\ data'[made + 1] = None
    BY <1>1, <1>3, <1>11, ShapeFacts
  <2>3. SourceChecked(c)' /\ StagedApart(c)' /\ StagedHolds(c)' /\ OnPath(c)'
    BY <2>2 DEF SourceChecked, StagedApart, StagedHolds, OnPath, Moving, Copying, Editing, Staging
  <2>4. FillingApart(c)'
    BY <2>1, <2>2 DEF FillingApart, None
  <2>5. CallShape(c)'
    BY <2>2, <2>3, <2>4 DEF CallShape
  <2> QED BY <1>6, <1>7, <1>9, <2>5, ShapeKept
<1> QED BY <1>10, <1>11

LEMMA OpenCopyShape ==
  ASSUME FileShape, NEW c \in FileCalls, OpenCopy(c)
  PROVE  FileShape'
<1>1. CASE Unchanged(c)
  <2> DEFINE call == [fcall[c] EXCEPT !.at = "copying"]
  <2>1. fcall[c].at = "copy" /\ fcall' = [fcall EXCEPT ![c] = call] /\ Opens(c) /\ UNCHANGED history
    BY <1>1 DEF OpenCopy, Goes
  <2>2. call \in FileCall /\ call.at = "copying" /\ call.from = fcall[c].from /\ call.to = fcall[c].to /\ call.ino = fcall[c].ino
    BY ShapeFacts DEF FileCall, FilePlaces
  <2>3. /\ fcall[c].ino \in Inodes /\ fcall[c].ino <= made /\ data[fcall[c].ino] # None
        /\ fcall[c].from \in Files /\ fcall[c].to \in Files /\ Device[fcall[c].from] # Device[fcall[c].to]
    BY <2>1, ShapeFacts DEF SourceChecked, OnPath, ByLink, Moving, Copying, FileShape, FileBounds
  <2> HIDE DEF call
  <2> QED BY <2>1, <2>2, <2>3, OpenShape
<1>2. CASE ~Unchanged(c)
  <2>1. fcall' = [fcall EXCEPT ![c].at = "failed"] /\ UNCHANGED <<disk, history>>
    BY <1>2 DEF OpenCopy, Goes
  <2>2. Follows(fcall[c].at, "failed") /\ "failed" \in FilePlaces
    BY DEF Follows, FilePlaces, Moving, Copying, Editing
  <2> QED BY <2>1, <2>2, QuietShape
<1> QED BY <1>1, <1>2

LEMMA BeginEditShape ==
  ASSUME FileShape, NEW c \in FileCalls, NEW n \in Files, BeginEdit(c, n)
  PROVE  FileShape'
<1> DEFINE call == [at |-> "staging", from |-> n, to |-> n, ino |-> entry[n]]
<1>1. Ready(n) /\ fcall' = [fcall EXCEPT ![c] = call] /\ Opens(c) /\ UNCHANGED history
  BY DEF BeginEdit
<1>2. entry[n] \in Inodes /\ entry[n] <= made /\ data[entry[n]] # None
  BY <1>1, ShapeFacts DEF Ready, FileShape, FileBounds
<1>3. call \in FileCall /\ call.at = "staging" /\ call.from = n /\ call.ino = entry[n]
  BY <1>2 DEF FileCall, FilePlaces
<1> HIDE DEF call
<1> QED BY <1>1, <1>2, <1>3, OpenShape

LEMMA BeginCreateShape ==
  ASSUME FileShape, NEW c \in FileCalls, NEW n \in Files, BeginCreate(c, n)
  PROVE  FileShape'
<1> DEFINE call == [at |-> "filling", from |-> n, to |-> n, ino |-> made + 1]
<1>1. fcall' = [fcall EXCEPT ![c] = call] /\ Opens(n) /\ UNCHANGED history
  BY DEF BeginCreate
<1>2. made + 1 \in Inodes
  BY <1>1, ShapeFacts, FileAssumption DEF Opens, Inodes
<1>3. call \in FileCall /\ call.at = "filling" /\ call.ino = made + 1
  BY <1>2 DEF FileCall, FilePlaces
<1> HIDE DEF call
<1> QED BY <1>1, <1>3, OpenShape

LEMMA BeginMoveShape ==
  ASSUME FileShape, NEW c \in FileCalls, NEW n \in Files, NEW t \in Files, BeginMove(c, n, t)
  PROVE  FileShape'
<1> DEFINE call == [at |-> "link", from |-> n, to |-> t, ino |-> entry[n]]
<1>1. Ready(n) /\ fcall' = [fcall EXCEPT ![c] = call] /\ UNCHANGED <<disk, history>>
  BY DEF BeginMove
<1>2. entry[n] \in Inodes /\ entry[n] <= made /\ data[entry[n]] # None
  BY <1>1, ShapeFacts DEF Ready, FileShape, FileBounds
<1>3. call \in FileCall /\ call.at = "link" /\ call.from = n /\ call.to = t /\ call.ino = entry[n]
  BY <1>2 DEF FileCall, FilePlaces
<1> HIDE DEF call
<1>4. /\ fcall' \in [FileCalls -> FileCall] /\ fcall'[c] = call /\ \A d \in FileCalls \ {c} : fcall'[d] = fcall[d]
  BY <1>1, <1>3, ShapeFacts
<1>5. entry' = entry /\ data' = data /\ made' = made /\ written' = written /\ superseded' = superseded
      /\ overtaken' = overtaken /\ misled' = misled
  BY <1>1 DEF disk, history
<1>6. Tame(c)
  BY <1>3, <1>4, <1>5 DEF Tame
<1>7. FileTypeOK' /\ FileBounds'
  BY <1>2, <1>3, <1>4, <1>5 DEF FileShape, FileTypeOK, FileBounds
<1>8. CallShape(c)'
  BY <1>2, <1>3, <1>4, <1>5 DEF CallShape, SourceChecked, StagedApart, StagedHolds, FillingApart, OnPath, ByLink, Moving, Copying, Editing, Staging, Inodes, None
<1> QED BY <1>6, <1>7, <1>8, ShapeKept

(* Death of the adapter, and the initial states.                                *)
LEMMA CrashShape == ASSUME FileShape, FilesCrash PROVE FileShape'
<1>1. entry' = entry /\ data' = data /\ made' = made /\ written' = written /\ superseded' = superseded
      /\ overtaken' = overtaken /\ misled' = misled
  BY DEF FilesCrash, disk, history
<1>2. ASSUME NEW c \in FileCalls
      PROVE  /\ fcall'[c] \in FileCall /\ fcall'[c].at \in {"idle", "dead"}
             /\ fcall'[c].ino \in {None, fcall[c].ino}
  <2>1. Unstarted \in FileCall /\ Unstarted.at = "idle" /\ Unstarted.ino = None
    BY DEF Unstarted, FileCall, FilePlaces
  <2>2. [fcall[c] EXCEPT !.at = "dead"] \in FileCall /\ [fcall[c] EXCEPT !.at = "dead"].at = "dead"
        /\ [fcall[c] EXCEPT !.at = "dead"].ino = fcall[c].ino
    <3>1. fcall[c] \in FileCall /\ "dead" \in FilePlaces
      BY ShapeFacts DEF FilePlaces
    <3> QED BY <3>1 DEF FileCall
  <2>3. fcall'[c] \in {Unstarted, [fcall[c] EXCEPT !.at = "dead"]}
    BY DEF FilesCrash
  <2> HIDE DEF Unstarted
  <2> QED BY <2>1, <2>2, <2>3
<1>3. fcall' \in [FileCalls -> FileCall]
  BY <1>2 DEF FilesCrash
<1>4. FileTypeOK'
  BY <1>1, <1>3 DEF FileShape, FileTypeOK
<1>5. FileBounds'
  BY <1>1, <1>2, ShapeFacts DEF FileShape, FileTypeOK, FileBounds, None
<1>6. ASSUME NEW c \in FileCalls PROVE CallShape(c)'
  BY <1>2 DEF CallShape, SourceChecked, StagedApart, StagedHolds, FillingApart, OnPath, ByLink, Moving, Copying, Editing, Staging
<1> QED BY <1>4, <1>5, <1>6 DEF FileShape

LEMMA FillsShape ==
  ASSUME FileShape, NEW c \in FileCalls, FillCopy(c) \/ FillEdit(c) \/ FillCreated(c)
  PROVE  FileShape' /\ \A k \in Inodes : data[k] # None => data'[k] = data[k]
<1>1. CASE FillCopy(c)
  <2>1. fcall[c].at = "copying" /\ fcall' = [fcall EXCEPT ![c].at = "copied"]
        /\ data' = [data EXCEPT ![entry[c]] = data[fcall[c].ino]] /\ entry' = entry /\ made' = made /\ UNCHANGED history
    BY <1>1 DEF FillCopy, Goes, Writes
  <2>2. entry[c] \in Inodes /\ data[fcall[c].ino] \in Inodes
    BY <2>1, ShapeFacts DEF SourceChecked, StagedApart, Staging, Moving, Copying
  <2>3. written' \subseteq Inodes /\ superseded' = superseded /\ overtaken' = overtaken /\ misled' = misled
    BY <2>1 DEF history, FileShape, FileTypeOK
  <2>4. FileShape' /\ data[entry[c]] = None
    BY <2>1, <2>2, <2>3, FillShape
  <2> QED BY <2>1, <2>2, <2>4, ShapeFacts
<1>2. CASE FillEdit(c)
  <2>1. fcall[c].at = "staging" /\ fcall' = [fcall EXCEPT ![c].at = "staged"]
        /\ data' = [data EXCEPT ![entry[c]] = entry[c]] /\ entry' = entry /\ made' = made /\ UNCHANGED history
    BY <1>2 DEF FillEdit, Goes, Writes
  <2>2. entry[c] \in Inodes
    BY <2>1, ShapeFacts DEF StagedApart, Staging, Editing
  <2>3. written' \subseteq Inodes /\ superseded' = superseded /\ overtaken' = overtaken /\ misled' = misled
    BY <2>1 DEF history, FileShape, FileTypeOK
  <2>4. FileShape' /\ data[entry[c]] = None
    BY <2>1, <2>2, <2>3, FillShape
  <2> QED BY <2>1, <2>2, <2>4, ShapeFacts
<1>3. CASE FillCreated(c)
  <2>1. fcall[c].at = "filling" /\ fcall' = [fcall EXCEPT ![c].at = "created"]
        /\ data' = [data EXCEPT ![fcall[c].ino] = fcall[c].ino] /\ entry' = entry /\ made' = made
        /\ written' \in {written, written \union {fcall[c].ino}}
        /\ superseded' = superseded /\ overtaken' = overtaken /\ misled' = misled
    BY <1>3 DEF FillCreated, Goes
  <2>2. fcall[c].ino \in Inodes
    BY <2>1, ShapeFacts DEF FillingApart
  <2>3. written' \subseteq Inodes
    BY <2>1, <2>2 DEF FileShape, FileTypeOK
  <2>4. FileShape' /\ data[fcall[c].ino] = None
    BY <2>1, <2>2, <2>3, FillShape
  <2> QED BY <2>1, <2>2, <2>4, ShapeFacts
<1> QED BY <1>1, <1>2, <1>3

LEMMA ShapeStep == ASSUME FileShape, FileNext PROVE FileShape'
<1>1. CASE FilesCrash
  BY <1>1, CrashShape
<1>2. ASSUME NEW c \in FileCalls, Quiet(c) PROVE FileShape'
  BY <1>2, QuietIsLook, QuietShape
<1>3. ASSUME NEW c \in FileCalls,
             \/ LinkSource(c) \/ UnlinkSource(c) \/ PlaceCopy(c) \/ DropStaging(c) \/ RemoveStaging(c) \/ RenameEdit(c)
      PROVE  FileShape'
  BY <1>3, LinkShape, UnlinkShape, PlaceShape, StagingGoesShape, RenameShape
<1>4. ASSUME NEW c \in FileCalls, FillCopy(c) \/ FillEdit(c) \/ FillCreated(c) \/ OpenCopy(c) PROVE FileShape'
  BY <1>4, FillsShape, OpenCopyShape
<1>5. ASSUME NEW c \in FileCalls, NEW n \in Files, BeginEdit(c, n) \/ BeginCreate(c, n) \/ \E t \in Files : BeginMove(c, n, t)
      PROVE  FileShape'
  BY <1>5, BeginEditShape, BeginCreateShape, BeginMoveShape
<1> QED BY <1>1, <1>2, <1>3, <1>4, <1>5 DEF FileNext, MoveStep, Quiet

-------------------------------------------------------------------------------
(* What a step does to names and contents.                                      *)
Keeps == \A n \in Files : entry[n] # None => entry'[n] = entry[n] \/ data[entry[n]] \in superseded' \union overtaken'
TakesOver(c) ==
  /\ fcall[c].at = "unlink" /\ c \notin misled /\ fcall'[c].at = "moved"
  /\ entry[fcall[c].from] = fcall[c].ino /\ entry' = [entry EXCEPT ![fcall[c].from] = None]
CommitKept(d) == Committed(d)' => Committed(d) /\ fcall'[d].ino = fcall[d].ino
LinkKept(d) ==
  fcall'[d].at \in Linking /\ ByLink(d)' /\ d \notin misled' =>
    fcall[d].at \in Linking /\ ByLink(d) /\ d \notin misled /\ fcall'[d].ino = fcall[d].ino
PathsKept == \A d \in FileCalls : CommitKept(d) /\ LinkKept(d)
(* The two exceptions: a move links the file it has checked, a copy takes its place. *)
NewName(c) ==
  /\ entry[fcall[c].to] = None /\ entry[fcall[c].from] = fcall[c].ino
  /\ fcall[c].to \in Files /\ fcall[c].from \in Files /\ c \notin misled
  /\ fcall[c].at = "link" /\ fcall'[c].ino = fcall[c].ino
  /\ entry' = [entry EXCEPT ![fcall[c].to] = fcall[c].ino]
CopyPlaced(c) ==
  /\ fcall'[c].ino \in Inodes
  /\ \E n \in Files : entry'[n] > fcall'[c].ino /\ data'[entry'[n]] = data'[fcall'[c].ino]
WritesOnce ==
  /\ \A i \in Inodes : data[i] # None => data'[i] = data[i]
  /\ superseded \subseteq superseded' /\ overtaken \subseteq overtaken' /\ misled \subseteq misled'
NewIsPresent == \A v \in written' : v \in written \/ Present(v)'

LEMMA QuietEffect ==
  ASSUME FileShape, NEW c \in FileCalls, Quiet(c)
  PROVE  Keeps /\ PathsKept /\ WritesOnce /\ NewIsPresent
<1>1. PICK to \in FilePlaces :
              /\ fcall' = [fcall EXCEPT ![c].at = to] /\ Follows(fcall[c].at, to)
              /\ to \in {"drop", "dropped"} => fcall[c].at \in {"placed", "drop"}
              /\ to = "unlink" => fcall[c].at \in {"looked", "dropped"}
              /\ to \notin {"placed", "moved"}
  BY QuietIsLook
<1>2. entry' = entry /\ data' = data /\ made' = made /\ written' = written /\ superseded' = superseded
      /\ overtaken' = overtaken /\ misled' = misled
  BY QuietIsLook DEF disk, history
<1>3. /\ fcall'[c].at = to
      /\ \A d \in FileCalls : /\ fcall'[d].from = fcall[d].from /\ fcall'[d].to = fcall[d].to
                             /\ fcall'[d].ino = fcall[d].ino
      /\ \A d \in FileCalls \ {c} : fcall'[d] = fcall[d]
  BY <1>1, FileCallGoes, ShapeFacts
<1>4. \A d \in FileCalls : ByLink(d)' = ByLink(d)
  BY <1>3 DEF ByLink
<1>5. Committed(c)' => Committed(c)
  <2>1. OnPath(c)
    BY ShapeFacts
  <2> QED BY <1>1, <1>3, <1>4, <2>1 DEF Committed, OnPath
<1>6. fcall'[c].at \in Linking /\ ByLink(c) => fcall[c].at \in Linking
  <2>1. OnPath(c)
    BY ShapeFacts
  <2> QED BY <1>1, <1>3, <2>1 DEF Linking, OnPath, Copying, Follows
<1>7. PathsKept
  <2>1. ASSUME NEW d \in FileCalls, d # c PROVE Committed(d)' => Committed(d)
    BY <1>3, <1>4, <2>1 DEF Committed
  <2> QED BY <1>2, <1>3, <1>4, <1>5, <1>6, <2>1 DEF PathsKept, CommitKept, LinkKept
<1>8. Keeps /\ WritesOnce /\ NewIsPresent
  BY <1>2 DEF Keeps, WritesOnce, NewIsPresent
<1> QED BY <1>7, <1>8

LEMMA OthersPaths ==
  ASSUME NEW c \in FileCalls, \A d \in FileCalls \ {c} : fcall'[d] = fcall[d], misled \subseteq misled',
         \/ fcall'[c].at \notin {"placed", "drop", "dropped", "linked", "looked", "unlink"}
         \/ fcall[c].at = "drop" /\ fcall'[c].at = "dropped" /\ fcall'[c].ino = fcall[c].ino
  PROVE  PathsKept
<1>1. ASSUME NEW d \in FileCalls, d # c
      PROVE  /\ Committed(d)' => Committed(d) /\ fcall'[d].ino = fcall[d].ino
             /\ fcall'[d].at \in Linking /\ ByLink(d)' /\ d \notin misled' =>
                  fcall[d].at \in Linking /\ ByLink(d) /\ d \notin misled /\ fcall'[d].ino = fcall[d].ino
  BY <1>1 DEF Committed, ByLink
<1>2. /\ Committed(c)' => Committed(c) /\ fcall'[c].ino = fcall[c].ino
      /\ fcall'[c].at \notin Linking
  BY DEF Committed, Linking
<1> QED BY <1>1, <1>2 DEF PathsKept, CommitKept, LinkKept

LEMMA UnlinkEffect ==
  ASSUME FileShape, NEW c \in FileCalls, UnlinkSource(c)
  PROVE  (Keeps \/ TakesOver(c)) /\ PathsKept /\ WritesOnce /\ NewIsPresent
<1> DEFINE n == fcall[c].from
<1>1. /\ fcall[c].at = "unlink"
      /\ fcall' = [fcall EXCEPT ![c].at = IF entry[n] # None THEN "moved" ELSE "reconcile"]
      /\ entry' = [entry EXCEPT ![n] = None]
      /\ data' = data /\ made' = made /\ written' = written /\ superseded' = superseded /\ misled' = misled
      /\ Displaces(c)
  BY DEF UnlinkSource, Goes
<1>2. n \in Files
  BY <1>1, ShapeFacts DEF SourceChecked, Moving
<1>3. overtaken \subseteq overtaken'
  BY <1>1 DEF Displaces
<1>4. \A x \in Files \ {n} : entry'[x] = entry[x]
  BY <1>1, <1>2, ShapeFacts
<1>5. ASSUME entry[n] = fcall[c].ino /\ entry[n] # None /\ c \notin misled PROVE TakesOver(c)
  <2>1. fcall'[c].at = "moved"
    BY <1>1, <1>5, ShapeFacts
  <2> QED BY <1>1, <1>5, <2>1 DEF TakesOver
<1>6. ASSUME ~(entry[n] = fcall[c].ino /\ entry[n] # None /\ c \notin misled) PROVE Keeps
  <2>1. entry[n] # None => data[entry[n]] \in overtaken'
    BY <1>1, <1>6 DEF Displaces
  <2> QED BY <1>4, <2>1 DEF Keeps
<1>7. PathsKept
  <2>1. fcall'[c].at \in {"moved", "reconcile"} /\ \A d \in FileCalls \ {c} : fcall'[d] = fcall[d]
    BY <1>1, ShapeFacts
  <2> QED BY <1>1, <2>1, OthersPaths
<1>8. WritesOnce /\ NewIsPresent
  BY <1>1, <1>3 DEF WritesOnce, NewIsPresent
<1> QED BY <1>5, <1>6, <1>7, <1>8

LEMMA RenameEffect ==
  ASSUME FileShape, NEW c \in FileCalls, RenameEdit(c)
  PROVE  Keeps /\ PathsKept /\ WritesOnce /\ NewIsPresent
<1> DEFINE n == fcall[c].from
<1>1. /\ fcall[c].at = "rename" /\ fcall' = [fcall EXCEPT ![c].at = "edited"]
      /\ entry' = [entry EXCEPT ![n] = entry[c], ![c] = None]
      /\ data' = data /\ made' = made /\ misled' = misled /\ Displaces(c)
      /\ superseded' = superseded \union {data[fcall[c].ino]}
      /\ written' = written \union {data[entry[c]]}
  BY DEF RenameEdit, Goes
<1>2. n \in Files /\ entry[c] \in Inodes
  BY <1>1, ShapeFacts DEF SourceChecked, StagedApart, Editing, Staging
<1>3. n \in Names /\ n # c /\ c \in Names /\ c \notin Files
  BY <1>2, ShapeFacts
<1>4. \A x \in Names : entry'[x] = IF x = c THEN None ELSE IF x = n THEN entry[c] ELSE entry[x]
  BY <1>1, <1>3, ShapeFacts
<1>5. overtaken \subseteq overtaken'
  BY <1>1 DEF Displaces
<1>6. Keeps
  <2>1. entry[n] # None => data[entry[n]] \in superseded' \union overtaken'
    BY <1>1 DEF Displaces
  <2>2. \A x \in Files \ {n} : entry'[x] = entry[x]
    BY <1>3, <1>4, ShapeFacts
  <2> QED BY <2>1, <2>2 DEF Keeps
<1>7. PathsKept
  <2>1. fcall'[c].at = "edited" /\ \A d \in FileCalls \ {c} : fcall'[d] = fcall[d]
    BY <1>1, ShapeFacts
  <2> QED BY <1>1, <2>1, OthersPaths
<1>8. ASSUME NEW v, v = data[entry[c]] PROVE Present(v)'
  <2>1. entry'[n] = entry[c] /\ entry[c] # None
    BY <1>2, <1>3, <1>4 DEF Inodes, None
  <2> QED BY <1>1, <1>2, <1>8, <2>1 DEF Present
<1>9. WritesOnce /\ NewIsPresent
  BY <1>1, <1>5, <1>8 DEF WritesOnce, NewIsPresent
<1> QED BY <1>6, <1>7, <1>9

(* Steps that change no name of the workspace that leads to a file.               *)
LEMMA PlainEffect ==
  ASSUME FileShape, NEW c \in FileCalls,
         \/ DropStaging(c) \/ RemoveStaging(c) \/ FillCopy(c) \/ FillEdit(c) \/ FillCreated(c) \/ OpenCopy(c)
         \/ \E n \in Files : BeginEdit(c, n) \/ BeginCreate(c, n) \/ \E t \in Files : BeginMove(c, n, t)
  PROVE  Keeps /\ PathsKept /\ WritesOnce /\ NewIsPresent
<1>1. \A x \in Files : entry[x] # None => entry'[x] = entry[x]
  <2>1. c \notin Files /\ entry \in [Names -> Inodes \union {None}] /\ Files \subseteq Names /\ c \in Names
    BY ShapeFacts
  <2> QED BY <2>1 DEF DropStaging, RemoveStaging, FillCopy, FillEdit, FillCreated, OpenCopy, BeginEdit, BeginCreate,
                   BeginMove, Opens, Writes, Vacant, disk
<1>2. superseded' = superseded /\ overtaken' = overtaken /\ misled' = misled
  BY DEF DropStaging, RemoveStaging, FillCopy, FillEdit, FillCreated, OpenCopy, BeginEdit, BeginCreate, BeginMove, history
<1>3. \A k \in Inodes : data[k] # None => data'[k] = data[k]
  <2>1. CASE FillCopy(c) \/ FillEdit(c) \/ FillCreated(c)
    BY <2>1, FillsShape
  <2>2. CASE ~(FillCopy(c) \/ FillEdit(c) \/ FillCreated(c))
    BY <2>2 DEF DropStaging, RemoveStaging, OpenCopy, BeginEdit, BeginCreate, BeginMove, Opens, disk
  <2> QED BY <2>1, <2>2
<1>4. NewIsPresent
  <2>1. CASE FillCreated(c)
    <3> DEFINE i == fcall[c].ino
    <3>1. /\ fcall[c].at = "filling" /\ data' = [data EXCEPT ![i] = i] /\ entry' = entry
          /\ written' = IF \E n \in Files : entry[n] = i THEN written \union {i} ELSE written
      BY <2>1 DEF FillCreated, Goes
    <3>2. i \in Inodes /\ i # None
      BY <3>1, ShapeFacts DEF FillingApart
    <3>3. data'[i] = i
      BY <3>1, <3>2, ShapeFacts
    <3>4. ASSUME NEW v, v = i, \E n \in Files : entry[n] = i PROVE Present(v)'
      BY <3>1, <3>2, <3>3, <3>4 DEF Present
    <3> HIDE DEF i
    <3> QED BY <3>1, <3>4 DEF NewIsPresent
  <2>2. CASE ~FillCreated(c)
    <3>1. written' = written
      BY <2>2 DEF DropStaging, RemoveStaging, FillCopy, FillEdit, OpenCopy, BeginEdit, BeginCreate, BeginMove, history
    <3> QED BY <3>1 DEF NewIsPresent
  <2> QED BY <2>1, <2>2
<1>5. /\ \A d \in FileCalls \ {c} : fcall'[d] = fcall[d]
      /\ \/ fcall'[c].at \notin {"placed", "drop", "dropped", "linked", "looked", "unlink"}
         \/ fcall[c].at = "drop" /\ fcall'[c].at = "dropped" /\ fcall'[c].ino = fcall[c].ino
  <2>1. fcall \in [FileCalls -> FileCall]
    BY ShapeFacts
  <2>2. CASE DropStaging(c)
    BY <2>1, <2>2 DEF DropStaging, Goes, FileCall
  <2>3. CASE RemoveStaging(c)
    BY <2>1, <2>3 DEF RemoveStaging
  <2>4. CASE FillCopy(c) \/ FillEdit(c) \/ FillCreated(c) \/ OpenCopy(c)
    <3>1. \E to \in {"copied", "staged", "created", "copying", "failed"} : fcall' = [fcall EXCEPT ![c].at = to]
      BY <2>4 DEF FillCopy, FillEdit, FillCreated, OpenCopy, Goes
    <3> QED BY <2>1, <3>1 DEF FileCall
  <2>5. CASE \E n \in Files : BeginEdit(c, n) \/ BeginCreate(c, n) \/ \E t \in Files : BeginMove(c, n, t)
    BY <2>1, <2>5 DEF BeginEdit, BeginCreate, BeginMove
  <2> QED BY <2>2, <2>3, <2>4, <2>5
<1>6. PathsKept
  BY <1>2, <1>5, OthersPaths
<1> QED BY <1>1, <1>2, <1>3, <1>4, <1>6 DEF Keeps, WritesOnce

LEMMA CrashEffect == ASSUME FileShape, FilesCrash PROVE Keeps /\ PathsKept /\ WritesOnce /\ NewIsPresent
<1>1. entry' = entry /\ data' = data /\ made' = made /\ written' = written /\ superseded' = superseded
      /\ overtaken' = overtaken /\ misled' = misled
  BY DEF FilesCrash, disk, history
<1>2. \A c \in FileCalls : fcall'[c].at \in {"idle", "dead"}
  <2>1. fcall \in [FileCalls -> FileCall]
    BY DEF FileShape, FileTypeOK
  <2> QED BY <2>1 DEF FilesCrash, Unstarted, FileCall
<1>3. PathsKept
  BY <1>2 DEF PathsKept, CommitKept, LinkKept, Committed, Linking
<1> QED BY <1>1, <1>3 DEF Keeps, WritesOnce, NewIsPresent

LEMMA LinkEffect ==
  ASSUME FileShape, NEW c \in FileCalls, LinkSource(c)
  PROVE  /\ Keeps /\ WritesOnce /\ NewIsPresent
         /\ \A d \in FileCalls : CommitKept(d) /\ (d # c => LinkKept(d))
         /\ LinkKept(c) \/ NewName(c)
<1> DEFINE s == fcall[c].from
           t == fcall[c].to
           linkable == Vacant(t) /\ entry[s] # None
           to == IF linkable THEN IF Device[s] = Device[t] THEN "linked" ELSE "copy" ELSE "failed"
<1>1. /\ fcall[c].at = "link" /\ to \in FilePlaces /\ fcall' = [fcall EXCEPT ![c].at = to]
      /\ entry' = IF linkable /\ Device[s] = Device[t] THEN [entry EXCEPT ![t] = entry[s]] ELSE entry
      /\ data' = data /\ made' = made /\ written' = written /\ superseded' = superseded
      /\ overtaken' = overtaken /\ misled' = IF entry[s] \in {None, fcall[c].ino} THEN misled ELSE misled \union {c}
  BY DEF LinkSource, Goes, FilePlaces
<1>2. s \in Files /\ t \in Files
  BY <1>1, ShapeFacts DEF SourceChecked, Moving
<1>3. /\ fcall'[c].at = to
      /\ \A d \in FileCalls : /\ fcall'[d].from = fcall[d].from /\ fcall'[d].to = fcall[d].to
                             /\ fcall'[d].ino = fcall[d].ino
      /\ \A d \in FileCalls \ {c} : fcall'[d] = fcall[d]
  BY <1>1, FileCallGoes, ShapeFacts
<1>4. Keeps
  <2>1. \A x \in Files : entry[x] # None => entry'[x] = entry[x]
    BY <1>1, <1>2, ShapeFacts DEF Vacant
  <2> QED BY <2>1 DEF Keeps
<1>5. WritesOnce /\ NewIsPresent
  BY <1>1 DEF WritesOnce, NewIsPresent
<1>6. ASSUME NEW d \in FileCalls PROVE CommitKept(d) /\ (d # c => LinkKept(d))
  <2>1. CASE d = c
    BY <1>3, <2>1 DEF CommitKept, Committed
  <2>2. CASE d # c
    BY <1>1, <1>3, <2>2 DEF CommitKept, LinkKept, Committed, ByLink
  <2> QED BY <2>1, <2>2
<1>7. ASSUME ~LinkKept(c) PROVE NewName(c)
  <2>1. to \in Linking /\ c \notin misled'
    BY <1>3, <1>7 DEF LinkKept
  <2>2. linkable /\ Device[s] = Device[t]
    BY <2>1 DEF Linking
  <2>3. entry[s] = fcall[c].ino /\ c \notin misled /\ entry[t] = None
    BY <1>1, <2>1, <2>2 DEF Vacant
  <2> QED BY <1>1, <1>2, <1>3, <2>2, <2>3 DEF NewName
<1> QED BY <1>4, <1>5, <1>6, <1>7

LEMMA PlaceEffect ==
  ASSUME FileShape, NEW c \in FileCalls, PlaceCopy(c)
  PROVE  /\ Keeps /\ WritesOnce /\ NewIsPresent
         /\ \A d \in FileCalls : LinkKept(d) /\ (d # c => CommitKept(d))
         /\ CommitKept(c) \/ CopyPlaced(c)
<1> DEFINE t == fcall[c].to
<1>1. /\ fcall[c].at = "place"
      /\ fcall' = [fcall EXCEPT ![c].at = IF Vacant(t) THEN "placed" ELSE "failed"]
      /\ entry' = IF Vacant(t) THEN [entry EXCEPT ![t] = entry[c]] ELSE entry
      /\ data' = data /\ made' = made /\ written' = written /\ superseded' = superseded /\ misled' = misled
      /\ overtaken' = overtaken
  BY DEF PlaceCopy, Goes, history
<1>2. t \in Files /\ t \in Names
  BY <1>1, ShapeFacts DEF SourceChecked, Moving, Copying
<1>3. /\ fcall'[c].at = IF Vacant(t) THEN "placed" ELSE "failed"
      /\ \A d \in FileCalls : /\ fcall'[d].from = fcall[d].from /\ fcall'[d].to = fcall[d].to
                             /\ fcall'[d].ino = fcall[d].ino
      /\ \A d \in FileCalls \ {c} : fcall'[d] = fcall[d]
  BY <1>1, ShapeFacts DEF FileCall
<1>4. Keeps
  <2>1. \A x \in Files : entry[x] # None => entry'[x] = entry[x]
    BY <1>1, <1>2, ShapeFacts DEF Vacant
  <2> QED BY <2>1 DEF Keeps
<1>5. WritesOnce /\ NewIsPresent
  BY <1>1 DEF WritesOnce, NewIsPresent
<1>6. ASSUME NEW d \in FileCalls PROVE LinkKept(d) /\ (d # c => CommitKept(d))
  <2>1. CASE d = c
    BY <1>3, <2>1 DEF LinkKept, Linking
  <2>2. CASE d # c
    BY <1>1, <1>3, <2>2 DEF CommitKept, LinkKept, Committed, ByLink
  <2> QED BY <2>1, <2>2
<1>7. ASSUME ~CommitKept(c) PROVE CopyPlaced(c)
  <2>1. Vacant(t)
    BY <1>3, <1>7 DEF CommitKept, Committed
  <2>2. entry'[t] = entry[c]
    BY <1>1, <1>2, <2>1, ShapeFacts
  <2>3. entry[c] > fcall[c].ino /\ data[entry[c]] = data[fcall[c].ino] /\ fcall[c].ino \in Inodes
    BY <1>1, ShapeFacts DEF StagedHolds, SourceChecked, Moving, Copying
  <2> QED BY <1>1, <1>2, <1>3, <2>2, <2>3 DEF CopyPlaced
<1> QED BY <1>4, <1>5, <1>6, <1>7

LEMMA FileEffects ==
  ASSUME FileShape, FileNext
  PROVE  /\ WritesOnce /\ NewIsPresent
         /\ Keeps \/ \E c \in FileCalls : TakesOver(c)
         /\ \A d \in FileCalls : CommitKept(d) \/ CopyPlaced(d)
         /\ \A d \in FileCalls : LinkKept(d) \/ (NewName(d) /\ \A e \in FileCalls \ {d} : LinkKept(e))
<1>1. CASE FilesCrash
  BY <1>1, CrashEffect DEF PathsKept
<1>2. ASSUME NEW c \in FileCalls, Quiet(c) \/ UnlinkSource(c) \/ RenameEdit(c)
      PROVE  (Keeps \/ TakesOver(c)) /\ WritesOnce /\ NewIsPresent /\ PathsKept
  BY <1>2, QuietEffect, UnlinkEffect, RenameEffect
<1>3. ASSUME NEW c \in FileCalls,
             \/ DropStaging(c) \/ RemoveStaging(c) \/ FillCopy(c) \/ FillEdit(c) \/ FillCreated(c) \/ OpenCopy(c)
             \/ \E n \in Files : BeginEdit(c, n) \/ BeginCreate(c, n) \/ \E t \in Files : BeginMove(c, n, t)
      PROVE  Keeps /\ WritesOnce /\ NewIsPresent /\ PathsKept
  BY <1>3, PlainEffect
<1>4. ASSUME NEW c \in FileCalls, LinkSource(c)
      PROVE  /\ Keeps /\ WritesOnce /\ NewIsPresent
             /\ \A d \in FileCalls : CommitKept(d) /\ (d # c => LinkKept(d))
             /\ LinkKept(c) \/ NewName(c)
  BY <1>4, LinkEffect
<1>5. ASSUME NEW c \in FileCalls, PlaceCopy(c)
      PROVE  /\ Keeps /\ WritesOnce /\ NewIsPresent
             /\ \A d \in FileCalls : LinkKept(d) /\ (d # c => CommitKept(d))
             /\ CommitKept(c) \/ CopyPlaced(c)
  BY <1>5, PlaceEffect
<1> HIDE DEF PathsKept
<1>6. FilesCrash \/ \E c \in FileCalls :
        \/ Quiet(c) \/ UnlinkSource(c) \/ RenameEdit(c) \/ LinkSource(c) \/ PlaceCopy(c)
        \/ DropStaging(c) \/ RemoveStaging(c) \/ FillCopy(c) \/ FillEdit(c) \/ FillCreated(c) \/ OpenCopy(c)
        \/ \E n \in Files : BeginEdit(c, n) \/ BeginCreate(c, n) \/ \E t \in Files : BeginMove(c, n, t)
  BY DEF FileNext, MoveStep, Quiet
<1>7. ASSUME NEW c \in FileCalls, (Keeps \/ TakesOver(c)) /\ WritesOnce /\ NewIsPresent /\ PathsKept
      PROVE  /\ WritesOnce /\ NewIsPresent
             /\ Keeps \/ \E d \in FileCalls : TakesOver(d)
             /\ \A d \in FileCalls : CommitKept(d) \/ CopyPlaced(d)
             /\ \A d \in FileCalls : LinkKept(d) \/ (NewName(d) /\ \A e \in FileCalls \ {d} : LinkKept(e))
  BY <1>7 DEF PathsKept
<1> QED BY <1>1, <1>2, <1>3, <1>4, <1>5, <1>6, <1>7

-------------------------------------------------------------------------------
(* Holders and calls that added a name are finite sets.                          *)
LEMMA HoldersFinite ==
  ASSUME NEW i
  PROVE  /\ IsFiniteSet(Holders(i)) /\ IsFiniteSet(Adders(i))
         /\ Cardinality(Holders(i)) \in Nat /\ Cardinality(Adders(i)) \in Nat
<1>1. Holders(i) \subseteq Files /\ Adders(i) \subseteq FileCalls
  BY DEF Holders, Adders
<1>2. IsFiniteSet(Holders(i)) /\ IsFiniteSet(Adders(i))
  BY <1>1, FileAssumption, FS_Subset
<1> QED BY <1>2, FS_CardinalityType

LEMMA AddedInHolders ==
  ASSUME NEW i, NEW c \in Adders(i), NEW n, Cardinality(Holders(i)) > Cardinality(Adders(i))
  PROVE  \E m \in Holders(i) : m # n
<1>1. Cardinality(Adders(i)) # 0
  BY HoldersFinite, FS_EmptySet
<1>2. SUFFICES ASSUME Holders(i) \subseteq {n} PROVE FALSE
  OBVIOUS
<1>3. IsFiniteSet({n}) /\ Cardinality({n}) = 1
  BY FS_Singleton
<1>4. Cardinality(Holders(i)) <= 1
  BY <1>2, <1>3, FS_Subset
<1> QED BY <1>1, <1>4, HoldersFinite

(* The name that a clean unlink takes is not the last of its content.              *)
LEMMA TakeLeaves ==
  ASSUME FileShape, CopiesSafe, LinksSafe, NEW c \in FileCalls, TakesOver(c), NEW k, k = fcall[c].ino
  PROVE  /\ k \in Inodes /\ fcall[c].from \in Files
         /\ \/ GivenUp(data[k])
            \/ \E m \in Files \ {fcall[c].from} : entry'[m] = entry[m] /\ entry[m] >= k /\ data[entry[m]] = data[k]
<1> DEFINE n == fcall[c].from
<1>1. k \in Inodes /\ k \in Nat /\ n \in Files /\ n \in Names /\ entry[n] = k
  BY ShapeFacts DEF TakesOver, SourceChecked, Moving, Inodes
<1>2. \A m \in Files \ {n} : entry'[m] = entry[m]
  BY <1>1, ShapeFacts DEF TakesOver
<1>3. ASSUME Copied(k) PROVE \E m \in Files \ {n} : entry'[m] = entry[m] /\ entry[m] >= k /\ data[entry[m]] = data[k]
  <2>1. PICK m \in Files : entry[m] > k /\ data[entry[m]] = data[k]
    BY <1>3 DEF Copied
  <2>2. entry[m] \in Nat
    BY ShapeFacts DEF Inodes, None
  <2>3. m # n /\ entry[m] >= k
    BY <1>1, <2>1, <2>2
  <2> QED BY <1>2, <2>1, <2>3
<1>4. Safe(k) \/ \E m \in Files \ {n} : entry[m] = k
  <2>1. CASE ByLink(c)
    <3>1. c \in Adders(k)
      BY <2>1 DEF TakesOver, Adders, Linking
    <3>2. Safe(k) \/ Cardinality(Holders(k)) > Cardinality(Adders(k))
      BY <1>1, <3>1 DEF LinksSafe
    <3> QED BY <3>1, <3>2, AddedInHolders DEF Holders
  <2>2. CASE ~ByLink(c)
    BY <2>2 DEF CopiesSafe, Committed, TakesOver
  <2> QED BY <2>1, <2>2
<1>5. \A m \in Files \ {n} : entry[m] = k => entry'[m] = entry[m] /\ entry[m] >= k /\ data[entry[m]] = data[k]
  BY <1>1, <1>2
<1> QED BY <1>1, <1>3, <1>4, <1>5 DEF Safe

(* What was given up stays so; a content under a name stays under one, under an    *)
(* inode that is no older, or is given up.                                     *)
LEMMA ContentStays ==
  ASSUME FileShape, FileShape', CopiesSafe, LinksSafe, WritesOnce, Keeps \/ \E c \in FileCalls : TakesOver(c),
         NEW n \in Files, entry[n] # None, data[entry[n]] # None
  PROVE  \/ data[entry[n]] \in superseded' \union overtaken'
         \/ \E m \in Files : entry'[m] # None /\ entry'[m] >= entry[n] /\ data'[entry'[m]] = data[entry[n]]
<1>1. entry[n] \in Inodes /\ entry[n] \in Nat /\ data'[entry[n]] = data[entry[n]]
  BY DEF FileShape, FileTypeOK, Names, WritesOnce, Inodes
<1>2. CASE entry'[n] = entry[n]
  BY <1>1, <1>2
<1>3. CASE data[entry[n]] \in superseded' \union overtaken'
  BY <1>3
<1>4. ASSUME NEW c \in FileCalls, TakesOver(c), entry'[n] # entry[n]
      PROVE  \/ data[entry[n]] \in superseded' \union overtaken'
             \/ \E m \in Files : entry'[m] # None /\ entry'[m] >= entry[n] /\ data'[entry'[m]] = data[entry[n]]
  <2>1. n = fcall[c].from /\ entry[n] = fcall[c].ino
    <3>1. entry \in [Names -> Inodes \union {None}] /\ n \in Names
      BY ShapeFacts
    <3> QED BY <1>4, <3>1 DEF TakesOver
  <2>2. CASE GivenUp(data[entry[n]])
    BY <2>2 DEF GivenUp, WritesOnce
  <2>3. ASSUME NEW m \in Files, entry'[m] = entry[m], entry[m] >= entry[n], data[entry[m]] = data[entry[n]]
        PROVE  entry'[m] # None /\ entry'[m] >= entry[n] /\ data'[entry'[m]] = data[entry[n]]
    <3>1. entry[m] \in Inodes
      BY <1>1, <2>3, ShapeFacts, <1>4 DEF Inodes, None
    <3> QED BY <2>3, <3>1 DEF WritesOnce, Inodes, None
  <2> QED BY <1>4, <2>1, <2>2, <2>3, TakeLeaves
<1> QED BY <1>2, <1>3, <1>4 DEF Keeps

LEMMA SafeStays ==
  ASSUME FileShape, FileShape', CopiesSafe, LinksSafe, WritesOnce, Keeps \/ \E c \in FileCalls : TakesOver(c),
         NEW i \in Inodes, data[i] # None, Safe(i)
  PROVE  Safe(i)'
<1>1. data'[i] = data[i] /\ i \in Nat
  BY DEF WritesOnce, Inodes
<1>2. CASE GivenUp(data[i])
  BY <1>1, <1>2 DEF Safe, GivenUp, WritesOnce
<1>3. CASE Copied(i)
  <2>1. PICK n \in Files : entry[n] > i /\ data[entry[n]] = data[i]
    BY <1>3 DEF Copied
  <2>2. entry[n] \in Nat /\ entry[n] # None
    BY <1>1, <2>1 DEF FileShape, FileTypeOK, Names, Inodes, None
  <2>3. CASE data[i] \in superseded' \union overtaken'
    BY <1>1, <2>3 DEF Safe, GivenUp
  <2>4. CASE \E m \in Files : entry'[m] # None /\ entry'[m] >= entry[n] /\ data'[entry'[m]] = data[entry[n]]
    <3>1. PICK m \in Files : entry'[m] # None /\ entry'[m] >= entry[n] /\ data'[entry'[m]] = data[entry[n]]
      BY <2>4
    <3>2. entry'[m] \in Nat
      BY DEF FileShape, FileTypeOK, Names, Inodes, None
    <3>3. entry'[m] > i
      BY <1>1, <2>1, <2>2, <3>1, <3>2
    <3> QED BY <1>1, <2>1, <3>1, <3>3 DEF Safe, Copied
  <2> QED BY <2>1, <2>2, <2>3, <2>4, ContentStays
<1> QED BY <1>2, <1>3 DEF Safe

(* The count of names keeps ahead of the count of moves that added one.            *)
LEMMA CountStays ==
  ASSUME FileInv, FileShape', FileNext, NEW i \in Inodes, Adders(i)' # {}
  PROVE  Safe(i)' \/ Cardinality(Holders(i)') > Cardinality(Adders(i)')
<1>1. /\ FileShape /\ CopiesSafe /\ LinksSafe /\ WritesOnce
      /\ Keeps \/ \E c \in FileCalls : TakesOver(c)
      /\ \A d \in FileCalls : LinkKept(d) \/ (NewName(d) /\ \A e \in FileCalls \ {d} : LinkKept(e))
  BY FileEffects DEF FileInv
<1>2. i # None /\ IsFiniteSet(Holders(i)') /\ IsFiniteSet(Adders(i)')
      /\ Cardinality(Holders(i)') \in Nat /\ Cardinality(Adders(i)') \in Nat
  <2>1. Holders(i)' \subseteq Files /\ Adders(i)' \subseteq FileCalls
    BY DEF Holders, Adders
  <2>2. IsFiniteSet(Holders(i)') /\ IsFiniteSet(Adders(i)')
    BY <2>1, FileAssumption, FS_Subset
  <2> QED BY <2>2, FS_CardinalityType DEF Inodes, None
<1>3. ASSUME NEW c \in FileCalls, LinkKept(c), c \in Adders(i)' PROVE c \in Adders(i)
  BY <1>3 DEF LinkKept, Adders
<1>4. ASSUME NEW c \in FileCalls, Adders(i) # {} PROVE \E d \in Adders(i) : fcall[d].ino = i
  BY <1>4 DEF Adders
<1>5. Adders(i) # {} => data[i] # None
  <2>1. ASSUME NEW d \in Adders(i) PROVE data[i] # None
    <3>1. d \in FileCalls /\ fcall[d].at \in Linking /\ fcall[d].ino = i
      BY DEF Adders
    <3> QED BY <1>1, <3>1, ShapeFacts DEF SourceChecked, Linking, Moving
  <2> QED BY <2>1
<1>6. ASSUME Safe(i), data[i] # None PROVE Safe(i)'
  BY <1>1, <1>6, SafeStays
<1>7. CASE \A d \in FileCalls : LinkKept(d)
  <2>1. Adders(i)' \subseteq Adders(i)
    BY <1>3, <1>7 DEF Adders
  <2>2. Adders(i) # {} /\ data[i] # None
    BY <1>5, <2>1
  <2>3. SUFFICES ASSUME ~Safe(i), ~Safe(i)', Cardinality(Holders(i)) > Cardinality(Adders(i))
                 PROVE  Cardinality(Holders(i)') > Cardinality(Adders(i)')
    BY <1>1, <1>6, <2>2 DEF LinksSafe
  <2>4. Cardinality(Adders(i)') <= Cardinality(Adders(i))
    BY <2>1, HoldersFinite, FS_Subset
  <2>5. data'[i] = data[i]
    BY <1>1, <2>2 DEF WritesOnce
  <2>6. CASE Holders(i) \subseteq Holders(i)'
    <3>1. Cardinality(Holders(i)) <= Cardinality(Holders(i)')
      BY <1>2, <2>6, FS_Subset
    <3> QED BY <1>2, <2>3, <2>4, <3>1, HoldersFinite
  <2>7. ASSUME Keeps PROVE Holders(i) \subseteq Holders(i)'
    BY <1>2, <2>3, <2>5, <2>7 DEF Keeps, Holders, Safe, GivenUp
  <2>8. ASSUME NEW c \in FileCalls, TakesOver(c), ~(Holders(i) \subseteq Holders(i)')
        PROVE  Cardinality(Holders(i)') > Cardinality(Adders(i)')
    <3> DEFINE n == fcall[c].from
    <3>1. n \in Files /\ fcall[c].ino \in Inodes
      BY <1>1, <2>8, TakeLeaves
    <3>2. \A m \in Files \ {n} : entry'[m] = entry[m]
      BY <1>1, <2>8, <3>1, ShapeFacts DEF TakesOver
    <3>3. fcall[c].ino = i /\ n \in Holders(i) /\ Holders(i) \ {n} \subseteq Holders(i)'
      BY <2>8, <3>1, <3>2 DEF TakesOver, Holders
    <3>4. ByLink(c)
      BY <1>1, <2>3, <2>8, <3>3 DEF CopiesSafe, Committed, TakesOver
    <3>5. c \in Adders(i) /\ c \notin Adders(i)'
      BY <2>8, <3>3, <3>4 DEF TakesOver, Adders, Linking
    <3>6. Cardinality(Holders(i) \ {n}) = Cardinality(Holders(i)) - 1 /\ IsFiniteSet(Holders(i) \ {n})
      BY <3>3, HoldersFinite, FS_RemoveElement
    <3>7. Cardinality(Adders(i) \ {c}) = Cardinality(Adders(i)) - 1 /\ IsFiniteSet(Adders(i) \ {c})
      BY <3>5, HoldersFinite, FS_RemoveElement
    <3>8. Cardinality(Holders(i) \ {n}) <= Cardinality(Holders(i)')
      BY <1>2, <3>3, FS_Subset
    <3>9. Cardinality(Adders(i)') <= Cardinality(Adders(i) \ {c})
      BY <2>1, <3>5, <3>7, FS_Subset
    <3> QED BY <1>2, <2>3, <3>6, <3>7, <3>8, <3>9, HoldersFinite
  <2> QED BY <1>1, <2>6, <2>7, <2>8
<1>8. ASSUME NEW c \in FileCalls, NewName(c), ~LinkKept(c), \A e \in FileCalls \ {c} : LinkKept(e)
      PROVE  Safe(i)' \/ Cardinality(Holders(i)') > Cardinality(Adders(i)')
  <2> DEFINE s == fcall[c].from
             t == fcall[c].to
  <2>1. /\ s \in Files /\ t \in Files /\ entry[t] = None /\ entry[s] = fcall[c].ino
        /\ entry' = [entry EXCEPT ![t] = fcall[c].ino]
    BY <1>8 DEF NewName
  <2>2. \A m \in Files \ {t} : entry'[m] = entry[m]
    BY <1>1, <2>1, ShapeFacts
  <2>3. entry'[t] = fcall[c].ino
    BY <1>1, <2>1, ShapeFacts
  <2>4. Holders(i) \subseteq Holders(i)'
    BY <1>2, <2>1, <2>2 DEF Holders
  <2>5. Adders(i)' \subseteq Adders(i) \union {c}
    BY <1>3, <1>8 DEF Adders
  <2>6. c \notin Adders(i) /\ (c \in Adders(i)' => fcall[c].ino = i)
    BY <1>8 DEF NewName, Adders, Linking
  <2>7. Cardinality(Holders(i)) <= Cardinality(Holders(i)')
    BY <1>2, <2>4, FS_Subset
  <2>8. CASE c \notin Adders(i)'
    <3>1. Adders(i)' \subseteq Adders(i) /\ Adders(i) # {} /\ data[i] # None
      BY <1>5, <2>5, <2>8
    <3>2. Cardinality(Adders(i)') <= Cardinality(Adders(i))
      BY <3>1, HoldersFinite, FS_Subset
    <3>3. Safe(i) \/ Cardinality(Holders(i)) > Cardinality(Adders(i))
      BY <1>1, <3>1 DEF LinksSafe
    <3> QED BY <1>2, <1>6, <2>7, <3>1, <3>2, <3>3, HoldersFinite
  <2>9. CASE c \in Adders(i)'
    <3>1. t \notin Holders(i) /\ Holders(i) \union {t} \subseteq Holders(i)' /\ s \in Holders(i)
      BY <1>2, <2>1, <2>2, <2>3, <2>4, <2>6, <2>9 DEF Holders
    <3>2. Cardinality(Holders(i) \union {t}) = Cardinality(Holders(i)) + 1
      BY <3>1, HoldersFinite, FS_AddElement
    <3>3. Cardinality(Holders(i) \union {t}) <= Cardinality(Holders(i)')
      BY <1>2, <3>1, FS_Subset
    <3>4. Cardinality(Adders(i) \union {c}) = Cardinality(Adders(i)) + 1 /\ IsFiniteSet(Adders(i) \union {c})
      BY <2>6, HoldersFinite, FS_AddElement
    <3>5. Cardinality(Adders(i)') <= Cardinality(Adders(i) \union {c})
      BY <2>5, <3>4, FS_Subset
    <3>6. CASE Adders(i) = {}
      <4>1. Cardinality(Adders(i)) = 0 /\ Cardinality(Holders(i)) # 0
        BY <3>1, <3>6, HoldersFinite, FS_EmptySet
      <4> QED BY <1>2, <3>2, <3>3, <3>4, <3>5, <4>1, HoldersFinite
    <3>7. CASE Adders(i) # {}
      <4>1. Safe(i) \/ Cardinality(Holders(i)) > Cardinality(Adders(i))
        BY <1>1, <3>7 DEF LinksSafe
      <4> QED BY <1>2, <1>5, <1>6, <3>2, <3>3, <3>4, <3>5, <3>7, <4>1, HoldersFinite
    <3> QED BY <3>6, <3>7
  <2> QED BY <2>8, <2>9
<1> QED BY <1>1, <1>7, <1>8

LEMMA FileStep == ASSUME FileInv, FileNext PROVE FileInv'
<1>1. /\ FileShape /\ CopiesSafe /\ LinksSafe /\ WritesOnce /\ NewIsPresent
      /\ Keeps \/ \E c \in FileCalls : TakesOver(c)
      /\ \A d \in FileCalls : CommitKept(d) \/ CopyPlaced(d)
  BY FileEffects DEF FileInv
<1>2. FileShape'
  BY <1>1, ShapeStep
<1>3. CopiesSafe'
  <2>1. SUFFICES ASSUME NEW c \in FileCalls, Committed(c)' PROVE Safe(fcall[c].ino)'
    BY DEF CopiesSafe
  <2>2. CASE CommitKept(c)
    <3>1. Committed(c) /\ fcall'[c].ino = fcall[c].ino
      BY <2>1, <2>2 DEF CommitKept
    <3>2. fcall[c].ino \in Inodes /\ data[fcall[c].ino] # None
      BY <1>1, <3>1, ShapeFacts DEF Committed, SourceChecked, Moving, Copying
    <3>3. ASSUME NEW i \in Inodes, i = fcall[c].ino PROVE Safe(i)'
      BY <1>1, <1>2, <3>1, <3>2, <3>3, SafeStays DEF CopiesSafe
    <3> QED BY <3>1, <3>2, <3>3 DEF Safe, GivenUp, Copied
  <2>3. CASE CopyPlaced(c)
    BY <2>3 DEF CopyPlaced, Safe, Copied
  <2> QED BY <1>1, <2>2, <2>3
<1>4. LinksSafe'
  BY <1>2, CountStays DEF LinksSafe
<1>5. ASSUME NEW v \in written' PROVE GivenUp(v)' \/ Present(v)'
  <2>1. CASE v \in written
    <3>1. CASE GivenUp(v)
      BY <1>1, <3>1 DEF GivenUp, WritesOnce
    <3>2. CASE Present(v)
      <4>1. PICK n \in Files : entry[n] # None /\ data[entry[n]] = v
        BY <3>2 DEF Present
      <4>2. v # None
        BY <1>1, <2>1 DEF FileShape, FileTypeOK, Inodes, None
      <4>3. \/ v \in superseded' \union overtaken'
            \/ \E m \in Files : entry'[m] # None /\ data'[entry'[m]] = v
        BY <1>1, <1>2, <4>1, <4>2, ContentStays
      <4> QED BY <4>3 DEF GivenUp, Present
    <3> QED BY <2>1, <3>1, <3>2 DEF FileInv
  <2>2. CASE v \notin written
    BY <1>1, <2>2 DEF NewIsPresent
  <2> QED BY <2>1, <2>2
<1> QED BY <1>2, <1>3, <1>4, <1>5 DEF FileInv

LEMMA FileInitInv == FileInit => FileInv
<1> SUFFICES ASSUME FileInit PROVE FileInv
  OBVIOUS
<1>1. 1 \in Inodes /\ 1 \in Nat /\ MaxInodes \in Nat /\ 1 <= MaxInodes
  BY FileAssumption DEF Inodes
<1>2. PICK n \in Files : entry = [x \in Names |-> IF x = n THEN 1 ELSE None]
  BY DEF FileInit
<1>3. n \in Names /\ entry[n] = 1
  BY <1>2 DEF Names
<1>4. Unstarted \in FileCall /\ Unstarted.at = "idle" /\ Unstarted.ino = None
  BY DEF Unstarted, FileCall, FilePlaces
<1>5. fcall \in [FileCalls -> FileCall] /\ \A c \in FileCalls : fcall[c].at = "idle" /\ fcall[c].ino = None
  <2>1. fcall = [c \in FileCalls |-> Unstarted]
    BY DEF FileInit
  <2> HIDE DEF Unstarted
  <2> QED BY <1>4, <2>1
<1>6. data = [i \in Inodes |-> IF i = 1 THEN 1 ELSE None] /\ made = 1 /\ written = {1}
      /\ superseded = {} /\ overtaken = {} /\ misled = {}
  BY DEF FileInit
<1>7. FileTypeOK
  BY <1>1, <1>2, <1>5, <1>6 DEF FileTypeOK
<1>8. FileBounds
  BY <1>1, <1>2, <1>5, <1>6 DEF FileBounds, Inodes, None
<1>9. \A c \in FileCalls : CallShape(c)
  BY <1>5 DEF CallShape, SourceChecked, StagedApart, StagedHolds, FillingApart, OnPath, Moving, Copying, Editing, Staging
<1>10. CopiesSafe /\ LinksSafe
  BY <1>5 DEF CopiesSafe, LinksSafe, Committed, Adders, Linking
<1>11. Present(1)
  BY <1>1, <1>3, <1>6 DEF Present, None
<1> QED BY <1>6, <1>7, <1>8, <1>9, <1>10, <1>11 DEF FileInv, FileShape

(* Every step keeps the invariant. *)
LEMMA FileNextInv == FileInv /\ [FileNext]_fileVars => FileInv'
<1>1. FileInv /\ UNCHANGED fileVars => FileInv'
  BY DEF FileInv, FileShape, FileTypeOK, FileBounds, CallShape, SourceChecked, StagedApart, StagedHolds, FillingApart,
         OnPath, ByLink, CopiesSafe, LinksSafe, Committed, Safe, GivenUp, Copied, Holders, Adders, Present,
         fileVars, disk, history
<1> QED BY <1>1, FileStep

(* No content of a file is lost by moves, edits and creations, for any number of    *)
(* calls, failures and crashes (guardedMove, copyAndCommitMove, exactEdit).        *)
THEOREM NothingLostTheorem == FileSpec => []NothingLost
<1>1. FileInv => NothingLost
  BY DEF FileInv, NothingLost, GivenUp, Present
<1> QED BY <1>1, FileInitInv, FileNextInv, PTL DEF FileSpec

-------------------------------------------------------------------------------
(* What the first d entries of a tree hold for a search of either mode. *)
Finds(m, e) == IF m = "name" THEN IF e \in {"hit", "two"} THEN 1 ELSE 0 ELSE Rows(e)
Having(t, m, d) == {k \in 1 .. d : Finds(m, t[k]) >= 1}
Doubled(t, m, d) == {k \in 1 .. d : Finds(m, t[k]) = 2}
Counted(t, m, d) == Cardinality(Having(t, m, d)) + Cardinality(Doubled(t, m, d))

(* Of a selection among the first d places, one more place adds itself or nothing. *)
LEMMA OneMorePlace ==
  ASSUME NEW d \in Nat, NEW P, NEW Q, P \subseteq 1 .. d, Q = P \/ Q = P \union {d + 1}
  PROVE  /\ IsFiniteSet(P) /\ IsFiniteSet(Q) /\ Cardinality(P) \in Nat
         /\ Cardinality(Q) = IF Q = P THEN Cardinality(P) ELSE Cardinality(P) + 1
<1>1. IsFiniteSet(1 .. d)
  BY FS_Interval
<1>2. IsFiniteSet(P) /\ Cardinality(P) \in Nat
  BY <1>1, FS_Subset, FS_CardinalityType
<1>3. d + 1 \notin P
  OBVIOUS
<1>4. IsFiniteSet(P \union {d + 1}) /\ Cardinality(P \union {d + 1}) = Cardinality(P) + 1
  BY <1>2, <1>3, FS_AddElement
<1> QED
  BY <1>2, <1>3, <1>4

(* One more entry adds what it holds. *)
LEMMA CountedNext ==
  ASSUME NEW t \in Seq(Kinds), NEW m \in Modes, NEW d \in Nat, d < Len(t)
  PROVE  Counted(t, m, d) \in Nat /\ Counted(t, m, d + 1) = Counted(t, m, d) + Finds(m, t[d + 1])
<1>1. t[d + 1] \in Kinds /\ Finds(m, t[d + 1]) \in 0 .. 2
  BY DEF Finds, Rows
<1>2. 1 .. (d + 1) = (1 .. d) \union {d + 1}
  OBVIOUS
<1>3. Having(t, m, d + 1) = IF Finds(m, t[d + 1]) >= 1 THEN Having(t, m, d) \union {d + 1} ELSE Having(t, m, d)
  BY <1>2 DEF Having
<1>4. Doubled(t, m, d + 1) = IF Finds(m, t[d + 1]) = 2 THEN Doubled(t, m, d) \union {d + 1} ELSE Doubled(t, m, d)
  BY <1>2 DEF Doubled
<1>5. Having(t, m, d) \subseteq 1 .. d /\ Doubled(t, m, d) \subseteq 1 .. d
  BY DEF Having, Doubled
<1>6. d + 1 \notin Having(t, m, d) /\ d + 1 \notin Doubled(t, m, d)
  BY <1>5
<1>7. /\ Cardinality(Having(t, m, d)) \in Nat
      /\ Cardinality(Having(t, m, d + 1)) =
           IF Finds(m, t[d + 1]) >= 1 THEN Cardinality(Having(t, m, d)) + 1 ELSE Cardinality(Having(t, m, d))
  BY <1>3, <1>5, <1>6, OneMorePlace
<1>8. /\ Cardinality(Doubled(t, m, d)) \in Nat
      /\ Cardinality(Doubled(t, m, d + 1)) =
           IF Finds(m, t[d + 1]) = 2 THEN Cardinality(Doubled(t, m, d)) + 1 ELSE Cardinality(Doubled(t, m, d))
  BY <1>4, <1>5, <1>6, OneMorePlace
<1>9. Counted(t, m, d) \in Nat
  BY <1>7, <1>8 DEF Counted
<1>10. CASE Finds(m, t[d + 1]) = 0
  BY <1>7, <1>8, <1>9, <1>10 DEF Counted
<1>11. CASE Finds(m, t[d + 1]) = 1
  BY <1>7, <1>8, <1>9, <1>11 DEF Counted
<1>12. CASE Finds(m, t[d + 1]) = 2
  BY <1>7, <1>8, <1>9, <1>12 DEF Counted
<1> QED
  BY <1>1, <1>9, <1>10, <1>11, <1>12

(* Nothing is counted of no entries. *)
LEMMA CountedNone == ASSUME NEW t, NEW m PROVE Counted(t, m, 0) = 0
<1>1. Having(t, m, 0) = {} /\ Doubled(t, m, 0) = {}
  BY DEF Having, Doubled
<1> QED
  BY <1>1, FS_EmptySet DEF Counted

-------------------------------------------------------------------------------
(* A scan under way has counted the entries before the ones it has left, of which the   *)
(* current one is a directory while it is listed; what ended COMPLETE counted them all. *)
Left(t, rest) ==
  /\ Len(rest) <= Len(t)
  /\ \A k \in 1 .. Len(rest) : rest[k] = t[Len(t) - Len(rest) + k]
Passed(t, rest) == Len(t) - Len(rest)
Walked(t, m, w, rest, s, n, st) ==
  /\ w = "none" => s = 0 /\ n = 0
  /\ w \in {"list", "lstat", "read"} =>
       /\ Left(t, rest) /\ n = Counted(t, m, Passed(t, rest))
       /\ s = 0 => w = "list" /\ rest = t
       /\ s > 0 => rest # <<>>
       /\ w = "list" /\ s > 0 => Finds(m, Head(rest)) = 0
       /\ w = "read" => m = "content"
  /\ st = "COMPLETE" => w = "end" /\ n = Counted(t, m, Len(t))
Concluded(i) ==
  /\ i \in sTable => sStart[i] = "done"
  /\ sStart[i] # "done" => walk[i] = "none" /\ sState[i] = "none"
  /\ sStart[i] = "done" /\ i \notin cancelled /\ sState[i] # "RUNNING" => walk[i] = "end"
  /\ i \in told => sStart[i] = "done" /\ walk[i] = "end" /\ sState[i] # "RUNNING"
WalkedOf(i) == Walked(tree[i], mode[i], walk[i], todo[i], scanned[i], matched[i], sState[i])
SearchInv == SearchTypeOK /\ \A i \in Searches : WalkedOf(i) /\ Concluded(i)

(* Every initial state satisfies the invariant. *)
LEMMA SearchInitInv == SearchInit => SearchInv
<1> SUFFICES ASSUME SearchInit PROVE SearchInv
  OBVIOUS
<1>1. SearchTypeOK
  BY EmptySeq DEF SearchInit, SearchTypeOK, Modes
<1>2. ASSUME NEW i \in Searches PROVE WalkedOf(i) /\ Concluded(i)
  BY DEF SearchInit, WalkedOf, Walked, Concluded
<1> QED
  BY <1>1, <1>2 DEF SearchInv

(* The entries left after the current one, which has been counted. *)
LEMMA LeftTail ==
  ASSUME NEW t \in Seq(Kinds), NEW m \in Modes, NEW rest \in Seq(Kinds), Left(t, rest), rest # <<>>
  PROVE  /\ Tail(rest) \in Seq(Kinds) /\ Left(t, Tail(rest)) /\ Head(rest) \in Kinds
         /\ Counted(t, m, Passed(t, rest)) \in Nat
         /\ Counted(t, m, Passed(t, Tail(rest))) = Counted(t, m, Passed(t, rest)) + Finds(m, Head(rest))
<1>1. /\ Len(rest) \in Nat /\ Len(rest) >= 1 /\ Len(t) \in Nat
      /\ Tail(rest) \in Seq(Kinds) /\ Len(Tail(rest)) = Len(rest) - 1
      /\ \A k \in 1 .. Len(Tail(rest)) : Tail(rest)[k] = rest[k + 1]
      /\ Head(rest) = rest[1] /\ Head(rest) \in Kinds
  OBVIOUS
<1>2. Left(t, Tail(rest))
  BY <1>1 DEF Left
<1>3. Passed(t, rest) \in Nat /\ Passed(t, rest) < Len(t) /\ Passed(t, Tail(rest)) = Passed(t, rest) + 1
      /\ t[Passed(t, rest) + 1] = Head(rest)
  BY <1>1 DEF Left, Passed
<1> QED
  BY <1>1, <1>2, <1>3, CountedNext

(* What was told stands. *)
KeepsTold == \A i \in told : matched'[i] = matched[i] /\ sState'[i] = sState[i]

(* A step of one search that keeps its slot, the cancellations and the tellings. *)
LEMMA ScanMoves ==
  ASSUME SearchInv, NEW i \in Searches, walk[i] \in {"list", "lstat", "read"},
         NEW w \in {"list", "lstat", "read", "end"}, NEW rest \in Seq(Kinds), NEW s \in Nat, NEW n \in Nat,
         NEW st \in {"none", "RUNNING", "COMPLETE", "LIMIT_REACHED", "CANCELLED", "FAILED"},
         sEnded' \in [Searches -> {"no", "yes", "aged"}],
         walk' = [walk EXCEPT ![i] = w], todo' = [todo EXCEPT ![i] = rest],
         scanned' = [scanned EXCEPT ![i] = s], matched' = [matched EXCEPT ![i] = n],
         sState' = [sState EXCEPT ![i] = st],
         UNCHANGED <<sSlot, cancelled, told>>,
         Walked(tree[i], mode[i], w, rest, s, n, st),
         w = "end" \/ i \in cancelled \/ st = "RUNNING"
  PROVE  SearchInv' /\ KeepsTold
<1>1. SearchTypeOK'
  BY DEF SearchInv, SearchTypeOK, sSlot
<1>2. ASSUME NEW j \in Searches PROVE WalkedOf(j)' /\ Concluded(j)'
  <2>1. CASE j = i
    <3>1. /\ walk'[i] = w /\ todo'[i] = rest /\ scanned'[i] = s /\ matched'[i] = n /\ sState'[i] = st
          /\ tree'[i] = tree[i] /\ mode'[i] = mode[i] /\ sStart'[i] = sStart[i]
      BY DEF SearchInv, SearchTypeOK, sSlot
    <3>2. sStart[i] = "done" /\ i \notin told
      BY DEF SearchInv, Concluded
    <3> QED
      BY <2>1, <3>1, <3>2 DEF WalkedOf, Concluded, sSlot
  <2>2. CASE j # i
    <3>1. /\ walk'[j] = walk[j] /\ todo'[j] = todo[j] /\ scanned'[j] = scanned[j] /\ matched'[j] = matched[j]
          /\ sState'[j] = sState[j] /\ tree'[j] = tree[j] /\ mode'[j] = mode[j] /\ sStart'[j] = sStart[j]
          /\ (j \in sTable' <=> j \in sTable) /\ (j \in told' <=> j \in told) /\ (j \in cancelled' <=> j \in cancelled)
      BY <2>2 DEF SearchInv, SearchTypeOK, sSlot
    <3> QED
      BY <3>1 DEF SearchInv, WalkedOf, Concluded
  <2> QED
    BY <2>1, <2>2
<1>3. i \notin told /\ told \subseteq Searches
  BY DEF SearchInv, Concluded, SearchTypeOK
<1>4. KeepsTold
  BY <1>3 DEF SearchInv, SearchTypeOK, KeepsTold
<1> QED
  BY <1>1, <1>2, <1>4 DEF SearchInv

(* The end of a scan: unless it is stopped or limited it has counted all entries. *)
LEMMA FinishMoves ==
  ASSUME SearchInv, NEW i \in Searches, walk[i] \in {"list", "lstat", "read"}, NEW n \in Nat, NEW limited \in BOOLEAN,
         Finish(i, n, limited), UNCHANGED <<sSlot, cancelled, told>>,
         ~limited /\ i \notin cancelled => n = Counted(tree[i], mode[i], Len(tree[i]))
  PROVE  SearchInv' /\ KeepsTold
<1>1. /\ todo[i] \in Seq(Kinds) /\ scanned[i] \in Nat
      /\ todo' = [todo EXCEPT ![i] = todo[i]] /\ scanned' = [scanned EXCEPT ![i] = scanned[i]]
      /\ sEnded' \in [Searches -> {"no", "yes", "aged"}]
  BY DEF SearchInv, SearchTypeOK, Finish
<1>2. PICK st \in {"COMPLETE", "LIMIT_REACHED", "CANCELLED"} :
        st = Outcome(i, limited) /\ (st = "COMPLETE" => n = Counted(tree[i], mode[i], Len(tree[i])))
  BY DEF Outcome
<1>3. walk' = [walk EXCEPT ![i] = "end"] /\ matched' = [matched EXCEPT ![i] = n] /\ sState' = [sState EXCEPT ![i] = st]
  BY <1>2 DEF Finish
<1>4. Walked(tree[i], mode[i], "end", todo[i], scanned[i], n, st)
  BY <1>2 DEF Walked
<1> QED
  BY <1>1, <1>2, <1>3, <1>4, ScanMoves

(* A scan that goes on to another await. *)
LEMMA AwaitMoves ==
  ASSUME SearchInv, NEW i \in Searches, walk[i] \in {"list", "lstat", "read"}, NEW what \in {"list", "lstat", "read"},
         NEW rest \in Seq(Kinds), NEW s \in Nat, NEW n \in Nat,
         Await(i, what, n), todo' = [todo EXCEPT ![i] = rest], scanned' = [scanned EXCEPT ![i] = s],
         UNCHANGED <<sSlot, cancelled, told>>, Walked(tree[i], mode[i], what, rest, s, n, "RUNNING")
  PROVE  SearchInv' /\ KeepsTold
<1>1. /\ sState[i] \in {"none", "RUNNING", "COMPLETE", "LIMIT_REACHED", "CANCELLED", "FAILED"} /\ sState[i] # "COMPLETE"
      /\ sEnded' \in [Searches -> {"no", "yes", "aged"}]
      /\ sState' = [sState EXCEPT ![i] = sState[i]]
      /\ i \in cancelled \/ sState[i] = "RUNNING"
  BY DEF SearchInv, SearchTypeOK, Await, WalkedOf, Walked, Concluded
<1>2. walk' = [walk EXCEPT ![i] = what] /\ matched' = [matched EXCEPT ![i] = n]
  BY DEF Await
<1>3. Walked(tree[i], mode[i], what, rest, s, n, sState[i])
  BY <1>1 DEF Walked
<1> QED
  BY <1>1, <1>2, <1>3, ScanMoves

(* The head of the loop, with what is left and what was found before it. *)
LEMMA LoopMoves ==
  ASSUME SearchInv, NEW i \in Searches, walk[i] \in {"list", "lstat", "read"}, NEW rest \in Seq(Kinds), NEW n \in Nat,
         Left(tree[i], rest), n = Counted(tree[i], mode[i], Passed(tree[i], rest)),
         LoopHead(i, rest, n), UNCHANGED <<sSlot, cancelled, told>>
  PROVE  SearchInv' /\ KeepsTold
<1>1. CASE (rest = <<>> \/ i \in cancelled) /\ Finish(i, n, FALSE)
  <2>1. i \notin cancelled => Passed(tree[i], rest) = Len(tree[i])
    BY <1>1 DEF Passed, SearchInv, SearchTypeOK
  <2> QED
    BY <1>1, <2>1, FinishMoves
<1>2. CASE Finish(i, n, TRUE)
  BY <1>2, FinishMoves
<1>3. CASE rest # <<>> /\ todo' = [todo EXCEPT ![i] = rest] /\ scanned' = [scanned EXCEPT ![i] = @ + 1] /\ Await(i, "lstat", n)
  <2> DEFINE s == scanned[i] + 1
  <2>1. s \in Nat /\ s > 0
    BY DEF SearchInv, SearchTypeOK
  <2>3. scanned' = [scanned EXCEPT ![i] = s]
    BY <1>3
  <2>2. Walked(tree[i], mode[i], "lstat", rest, s, n, "RUNNING")
    BY <1>3, <2>1 DEF Walked
  <2> HIDE DEF s
  <2> QED
    BY <1>3, <2>1, <2>2, <2>3, AwaitMoves
<1> QED
  BY <1>1, <1>2, <1>3 DEF LoopHead, LimitNoted

(* What holds of a scan that is under way. *)
LEMMA UnderWay ==
  ASSUME SearchInv, NEW i \in Searches, walk[i] \in {"list", "lstat", "read"}
  PROVE  /\ tree[i] \in Seq(Kinds) /\ todo[i] \in Seq(Kinds) /\ mode[i] \in Modes
         /\ scanned[i] \in Nat /\ matched[i] \in Nat
         /\ Left(tree[i], todo[i]) /\ matched[i] = Counted(tree[i], mode[i], Passed(tree[i], todo[i]))
         /\ scanned[i] = 0 => walk[i] = "list" /\ todo[i] = tree[i]
         /\ scanned[i] > 0 =>
              /\ todo[i] # <<>> /\ Tail(todo[i]) \in Seq(Kinds) /\ Left(tree[i], Tail(todo[i]))
              /\ Head(todo[i]) \in Kinds /\ Finds(mode[i], Head(todo[i])) \in 0 .. 2
              /\ Counted(tree[i], mode[i], Passed(tree[i], Tail(todo[i]))) = matched[i] + Finds(mode[i], Head(todo[i]))
         /\ walk[i] = "list" /\ scanned[i] > 0 => Finds(mode[i], Head(todo[i])) = 0
         /\ walk[i] = "read" => mode[i] = "content"
<1>1. /\ tree[i] \in Seq(Kinds) /\ todo[i] \in Seq(Kinds) /\ mode[i] \in Modes
      /\ scanned[i] \in Nat /\ matched[i] \in Nat
  BY DEF SearchInv, SearchTypeOK
<1>2. Walked(tree[i], mode[i], walk[i], todo[i], scanned[i], matched[i], sState[i])
  BY DEF SearchInv, WalkedOf
<1>3. \A e \in Kinds : Finds(mode[i], e) \in 0 .. 2
  BY <1>1 DEF Finds, Rows, Kinds, Modes
<1> QED
  BY <1>1, <1>2, <1>3, LeftTail DEF Walked

(* The steps of a scan. *)
LEMMA ListedKeeps ==
  ASSUME SearchInv, NEW i \in Searches, Listed(i)
  PROVE  SearchInv' /\ KeepsTold
<1>1. walk[i] = "list" /\ UNCHANGED <<sSlot, cancelled, told>>
  BY DEF Listed
<1>2. CASE scanned[i] = 0
  <2>1. LoopHead(i, todo[i], matched[i])
    BY <1>2 DEF Listed
  <2> QED
    BY <1>1, <2>1, UnderWay, LoopMoves
<1>3. CASE scanned[i] > 0
  <2>1. LoopHead(i, Tail(todo[i]), matched[i])
    BY <1>3 DEF Listed
  <2>2. matched[i] = Counted(tree[i], mode[i], Passed(tree[i], Tail(todo[i])))
    BY <1>1, <1>3, UnderWay
  <2> QED
    BY <1>1, <1>3, <2>1, <2>2, UnderWay, LoopMoves
<1> QED
  BY <1>1, <1>2, <1>3, UnderWay

(* lstat of the current entry. *)
LEMMA ExaminedKeeps ==
  ASSUME SearchInv, NEW i \in Searches, Examined(i)
  PROVE  SearchInv' /\ KeepsTold
<1>1. walk[i] = "lstat" /\ scanned[i] > 0 /\ UNCHANGED <<sSlot, cancelled, told>>
  BY UnderWay DEF Examined
<1> DEFINE current == Head(todo[i])
           n == matched[i] + Named(i)
<1>2. n \in Nat /\ current \in Kinds /\ (mode[i] = "content" => n = matched[i])
      /\ (mode[i] = "name" => n = matched[i] + Finds(mode[i], current))
      /\ (current \in {"dir", "deep", "skip"} => Finds(mode[i], current) = 0 /\ n = matched[i])
      /\ (mode[i] # "name" => mode[i] = "content")
  BY <1>1, UnderWay DEF Named, Finds, Rows, Modes
<1>3. CASE current \in {"dir", "deep"} /\ i \in cancelled /\ Finish(i, n, FALSE)
  BY <1>1, <1>2, <1>3, FinishMoves
<1>4. CASE Finish(i, n, TRUE)
  BY <1>1, <1>2, <1>4, FinishMoves
<1>5. ASSUME NEW what \in {"list", "read"}, Await(i, what, n), UNCHANGED <<todo, scanned>>, n = matched[i],
             what = "list" => current = "dir", what = "read" => mode[i] = "content"
      PROVE  SearchInv' /\ KeepsTold
  <2>1. PICK rest \in Seq(Kinds), s \in Nat : rest = todo[i] /\ s = scanned[i]
    BY <1>1, UnderWay
  <2>2. todo' = [todo EXCEPT ![i] = rest] /\ scanned' = [scanned EXCEPT ![i] = s]
    BY <1>5, <2>1 DEF SearchInv, SearchTypeOK
  <2>3. Walked(tree[i], mode[i], what, rest, s, n, "RUNNING")
    BY <1>1, <1>2, <1>5, <2>1, UnderWay DEF Walked
  <2>4. what \in {"list", "lstat", "read"} /\ n \in Nat /\ Await(i, what, n)
    BY <1>2, <1>5
  <2> HIDE DEF n, current
  <2> QED
    BY <1>1, <2>2, <2>3, <2>4, AwaitMoves
<1>6. CASE /\ current = "skip" \/ (mode[i] = "name" /\ current \notin {"dir", "deep"})
           /\ LoopHead(i, Tail(todo[i]), n)
  <2>1. n = Counted(tree[i], mode[i], Passed(tree[i], Tail(todo[i])))
    BY <1>1, <1>2, <1>6, UnderWay
  <2> QED
    BY <1>1, <1>2, <1>6, <2>1, UnderWay, LoopMoves
<1> QED
  BY <1>2, <1>3, <1>4, <1>5, <1>6 DEF Examined

(* The contents of the current entry. *)
LEMMA ReadKeeps ==
  ASSUME SearchInv, NEW i \in Searches, ReadFile(i)
  PROVE  SearchInv' /\ KeepsTold
<1>1. walk[i] = "read" /\ scanned[i] > 0 /\ mode[i] = "content" /\ UNCHANGED <<sSlot, cancelled, told>>
  BY UnderWay DEF ReadFile
<1> DEFINE found == matched[i] + Rows(Head(todo[i]))
<1>2. found = Counted(tree[i], mode[i], Passed(tree[i], Tail(todo[i]))) /\ found \in Nat /\ MaxResults \in Nat
  BY <1>1, UnderWay, SearchLimitsAssumption DEF Finds
<1>3. CASE Finish(i, matched[i], TRUE) \/ Finish(i, MaxResults, TRUE)
  BY <1>1, <1>2, <1>3, UnderWay, FinishMoves
<1>4. CASE LoopHead(i, Tail(todo[i]), found)
  BY <1>1, <1>2, <1>4, UnderWay, LoopMoves
<1> QED
  BY <1>3, <1>4 DEF ReadFile

(* Every step keeps the invariant and what was told. *)
LEMMA SearchStep == SearchInv /\ [SearchNext]_sVars => SearchInv' /\ KeepsTold
<1> SUFFICES ASSUME SearchInv, [SearchNext]_sVars PROVE SearchInv' /\ KeepsTold
  OBVIOUS
<1>1. ASSUME sTable' \subseteq sTable, UNCHANGED <<sStart, tree, mode, scan, sState, cancelled>>,
             sEnded' \in [Searches -> {"no", "yes", "aged"}],
             told' = told \/ \E i \in sTable : sState[i] # "RUNNING" /\ i \notin cancelled /\ told' = told \union {i}
      PROVE  SearchInv' /\ KeepsTold
  <2>1. SearchTypeOK'
    BY <1>1 DEF SearchInv, SearchTypeOK, scan
  <2>2. ASSUME NEW i \in Searches PROVE WalkedOf(i)' /\ Concluded(i)'
    BY <1>1 DEF SearchInv, WalkedOf, Concluded, scan
  <2> QED
    BY <1>1, <2>1, <2>2 DEF SearchInv, KeepsTold, scan
<1>2. KeptSearches \subseteq sTable
  BY DEF KeptSearches
<1>3. CASE ListSearches \/ UNCHANGED sVars \/ (\E i \in Searches : NextPage(i)) \/ (\E i \in Searches : AgeSearch(i))
  BY <1>1, <1>2, <1>3 DEF ListSearches, NextPage, AgeSearch, sVars, sSlot, scan, SearchInv, SearchTypeOK
<1>4. ASSUME NEW i \in Searches, SearchBegins(i) \/ SearchRefused(i)
      PROVE  SearchInv' /\ KeepsTold
  <2>1. /\ sStart[i] # "done" /\ sTable' \subseteq sTable
        /\ UNCHANGED <<tree, mode, scan, sState, sEnded, cancelled, told>>
    BY <1>2, <1>4 DEF SearchBegins, SearchRefused
  <2>2. PICK at \in {"refused", "cwd"} : sStart' = [sStart EXCEPT ![i] = at]
    BY <1>4 DEF SearchBegins, SearchRefused
  <2>3. SearchTypeOK'
    BY <2>1, <2>2 DEF SearchInv, SearchTypeOK, scan
  <2>4. ASSUME NEW j \in Searches PROVE WalkedOf(j)' /\ Concluded(j)'
    BY <2>1, <2>2 DEF SearchInv, SearchTypeOK, WalkedOf, Concluded, scan
  <2> QED
    BY <2>1, <2>3, <2>4 DEF SearchInv, KeepsTold, scan
<1>5. ASSUME NEW i \in Searches, NEW t \in Trees, NEW m \in Modes, SearchStarts(i, t, m)
      PROVE  SearchInv' /\ KeepsTold
  <2>1. t \in Seq(Kinds) /\ t = t
    BY TreesAssumption
  <2>2. SearchTypeOK'
    BY <1>5, <2>1 DEF SearchStarts, SearchInv, SearchTypeOK
  <2>3. sStart[i] # "done" /\ scanned[i] = 0 /\ matched[i] = 0
    BY <1>5 DEF SearchStarts, SearchInv, WalkedOf, Walked, Concluded
  <2>4. WalkedOf(i)' /\ Concluded(i)'
    <3>1. /\ walk'[i] = "list" /\ todo'[i] = t /\ tree'[i] = t /\ mode'[i] = m /\ sState'[i] = "RUNNING"
          /\ scanned'[i] = 0 /\ matched'[i] = 0 /\ sStart'[i] = "done"
      BY <1>5, <2>3 DEF SearchStarts, SearchInv, SearchTypeOK
    <3>2. Left(t, t) /\ Passed(t, t) = 0 /\ Counted(t, m, 0) = 0
      BY <2>1, CountedNone DEF Left, Passed
    <3>3. Walked(t, m, "list", t, 0, 0, "RUNNING")
      BY <3>2 DEF Walked
    <3>4. i \notin told'
      BY <1>5, <2>3 DEF SearchStarts, SearchInv, Concluded
    <3> QED
      BY <3>1, <3>3, <3>4 DEF WalkedOf, Concluded
  <2>5. ASSUME NEW j \in Searches, j # i PROVE WalkedOf(j)' /\ Concluded(j)'
    <3>1. /\ walk'[j] = walk[j] /\ todo'[j] = todo[j] /\ scanned'[j] = scanned[j] /\ matched'[j] = matched[j]
          /\ sState'[j] = sState[j] /\ tree'[j] = tree[j] /\ mode'[j] = mode[j] /\ sStart'[j] = sStart[j]
          /\ (j \in sTable' <=> j \in sTable) /\ told' = told /\ cancelled' = cancelled
      BY <1>5, <2>5 DEF SearchStarts, SearchInv, SearchTypeOK
    <3> QED
      BY <3>1 DEF SearchInv, WalkedOf, Concluded
  <2>6. KeepsTold
    BY <1>5, <2>3 DEF SearchStarts, SearchInv, SearchTypeOK, Concluded, KeepsTold
  <2> QED
    BY <2>2, <2>4, <2>5, <2>6 DEF SearchInv
<1>6. ASSUME NEW i \in Searches, StopSearch(i) PROVE SearchInv' /\ KeepsTold
  <2>1. /\ sTable' \subseteq sTable /\ sState[i] = "RUNNING" /\ i \in sTable
        /\ cancelled' = cancelled \union {i} /\ sState' = [sState EXCEPT ![i] = "CANCELLED"]
        /\ UNCHANGED <<sStart, tree, mode, scan, told>>
    BY <1>2, <1>6 DEF StopSearch, MayStop
  <2>2. SearchTypeOK'
    BY <1>6, <2>1 DEF StopSearch, SearchInv, SearchTypeOK, scan
  <2>3. ASSUME NEW j \in Searches PROVE WalkedOf(j)' /\ Concluded(j)'
    BY <2>1 DEF SearchInv, SearchTypeOK, WalkedOf, Walked, Concluded, scan
  <2>4. KeepsTold
    BY <2>1 DEF SearchInv, SearchTypeOK, Concluded, KeepsTold, scan
  <2> QED
    BY <2>2, <2>3, <2>4 DEF SearchInv
<1>7. ASSUME NEW i \in Searches, ScanFails(i) PROVE SearchInv' /\ KeepsTold
  <2>1. /\ walk[i] \in {"list", "lstat", "read"} /\ todo[i] \in Seq(Kinds) /\ scanned[i] \in Nat /\ matched[i] \in Nat
        /\ walk' = [walk EXCEPT ![i] = "end"] /\ sState' = [sState EXCEPT ![i] = "FAILED"]
        /\ todo' = [todo EXCEPT ![i] = todo[i]] /\ scanned' = [scanned EXCEPT ![i] = scanned[i]]
        /\ matched' = [matched EXCEPT ![i] = matched[i]]
        /\ sEnded' \in [Searches -> {"no", "yes", "aged"}] /\ UNCHANGED <<sSlot, cancelled, told>>
    BY <1>7 DEF ScanFails, SearchInv, SearchTypeOK
  <2>2. Walked(tree[i], mode[i], "end", todo[i], scanned[i], matched[i], "FAILED")
    BY DEF Walked
  <2> QED
    BY <2>1, <2>2, ScanMoves
<1> QED
  BY <1>3, <1>4, <1>5, <1>6, <1>7, ListedKeeps, ExaminedKeeps, ReadKeeps DEF SearchNext, Scans

(* A search that says COMPLETE has found everything in its tree (search-sessions.mjs,    *)
(* scan), for any trees, searches and limits.                                    *)
THEOREM CompleteTheorem == SearchSpec => []CompleteFindsAll
<1>1. SearchInv => CompleteFindsAll
  <2> SUFFICES ASSUME SearchInv, NEW i \in Searches, sState[i] = "COMPLETE"
               PROVE  matched[i] = Cardinality({k \in DOMAIN tree[i] : Findable(i, tree[i][k]) >= 1})
                                 + Cardinality({k \in DOMAIN tree[i] : Findable(i, tree[i][k]) = 2})
    BY DEF CompleteFindsAll
  <2>1. matched[i] = Counted(tree[i], mode[i], Len(tree[i]))
    BY DEF SearchInv, WalkedOf, Walked
  <2>2. DOMAIN tree[i] = 1 .. Len(tree[i])
    BY DEF SearchInv, SearchTypeOK
  <2>3. \A e : Findable(i, e) = Finds(mode[i], e)
    BY DEF Findable, Finds
  <2>4. /\ {k \in DOMAIN tree[i] : Findable(i, tree[i][k]) >= 1} = Having(tree[i], mode[i], Len(tree[i]))
        /\ {k \in DOMAIN tree[i] : Findable(i, tree[i][k]) = 2} = Doubled(tree[i], mode[i], Len(tree[i]))
    BY <2>2, <2>3 DEF Having, Doubled
  <2> QED
    BY <2>1, <2>4 DEF Counted
<1> QED
  BY <1>1, SearchInitInv, SearchStep, PTL DEF SearchSpec

(* The matches and the outcome of a search whose owner was given a last page stay as    *)
(* they were (search-sessions.mjs, next), for any trees, searches and limits.         *)
THEOREM LastPageTheorem == SearchSpec => LastPageIsLast
<1>1. SearchInv /\ [SearchNext]_sVars =>
        [\A i \in told : matched'[i] = matched[i] /\ sState'[i] = sState[i]]_sVars
  BY SearchStep DEF KeepsTold
<1> QED
  BY <1>1, SearchInitInv, SearchStep, PTL DEF SearchSpec, LastPageIsLast

-------------------------------------------------------------------------------
(* The unpaged searches.  Nothing but a folder has anything beneath it but itself.     *)
FindPlaces == Entries \union {TopFolder}
LEMMA BeneathOnlyFolders ==
  ASSUME NEW e \in FindPlaces \ Folders, NEW x, Beneath(e, x)
  PROVE  x = e
<1>1. {e} \in SUBSET FindPlaces /\ ClosedBelow({e})
  BY DEF ClosedBelow
<1> QED
  BY <1>1 DEF Beneath, FindPlaces

(* What is beneath a folder is beneath one of its entries. *)
LEMMA BeneathAnEntry ==
  ASSUME NEW d \in FindPlaces \intersect Folders, NEW x, Beneath(d, x), x # d
  PROVE  \E c \in Listing[d] : Beneath(c, x)
<1> DEFINE S == {d} \union {y \in Entries : \E c \in Listing[d] : Beneath(c, y)}
<1>1. S \in SUBSET FindPlaces /\ d \in S
  BY DEF FindPlaces
<1>2. ClosedBelow(S)
  <2> SUFFICES ASSUME NEW z \in S \intersect Folders, NEW w \in Listing[z] PROVE w \in S
    BY DEF ClosedBelow
  <2>1. w \in Entries
    BY DEF Entries
  <2>2. CASE z = d
    BY <2>1, <2>2 DEF Beneath
  <2>3. CASE z # d
    <3>1. PICK c \in Listing[d] : Beneath(c, z)
      BY <2>3
    <3>2. ASSUME NEW T \in SUBSET FindPlaces, c \in T, ClosedBelow(T) PROVE w \in T
      <4>1. z \in T
        BY <3>1, <3>2 DEF Beneath, FindPlaces
      <4> QED
        BY <3>2, <4>1 DEF ClosedBelow
    <3> QED
      BY <2>1, <3>2 DEF Beneath, FindPlaces
  <2> QED
    BY <2>2, <2>3
<1>3. x \in S
  BY <1>1, <1>2 DEF Beneath, FindPlaces
<1> QED
  BY <1>3

(* Others remove a folder only when it is empty, so that with it went all beneath it. *)
LEMMA BeneathRemoved ==
  ASSUME ClosedBelow(removed), NEW e \in FindPlaces \intersect removed, NEW x, Beneath(e, x)
  PROVE  x \in removed
<1>1. removed \intersect FindPlaces \in SUBSET FindPlaces /\ ClosedBelow(removed \intersect FindPlaces)
  BY DEF ClosedBelow, FindPlaces, Entries
<1> QED
  BY <1>1 DEF Beneath, FindPlaces

(* A listing has each of its entries. *)
LEMMA ListsAll ==
  ASSUME NEW S, IsFiniteSet(S), NEW there \in Bijection(1 .. Cardinality(S), S)
  PROVE  there \in Seq(S) /\ \A c \in S : \E k \in DOMAIN there : there[k] = c
<1>1. Cardinality(S) \in Nat
  BY FS_CardinalityType
<1>2. there \in [1 .. Cardinality(S) -> S] /\ \A c \in S : \E k \in 1 .. Cardinality(S) : there[k] = c
  BY DEF Bijection, Surjection
<1> QED
  BY <1>1, <1>2

(* What the search is to find, what it has found, and what is beneath an entry ahead;   *)
(* of a folder that is being listed its own name is behind already.                 *)
Sought == IF find.for = "content" THEN TextFiles \ removed ELSE MatchingNames \ (Symlinks \union removed)
Have(x) == IF find.for = "content" THEN \A k \in Matching(x) : <<x, k>> \in hits ELSE <<x, 0>> \in hits
Item == [entry : Entries \union {TopFolder}, depth : Nat]
WaitsAt(i, x, s, at) == Beneath(s[i].entry, x) /\ (i = 1 /\ at = "list" => x # s[i].entry)
Waits(x, s, at) == \E i \in 1 .. Len(s) : WaitsAt(i, x, s, at)
WalkPlaces == {"list", "lstat", "read"}
WalkInv ==
  /\ ContentSearchTypeOK /\ ClosedBelow(removed) /\ IsFiniteSet(hits)
  /\ find.at \in WalkPlaces => ahead # <<>>
  /\ find.at = "list" => Entry \in Folders
  /\ find.at = "read" => Entry \in TextFiles /\ find.for = "content"
  /\ find.at \in WalkPlaces /\ find.truncated => find.for = "content"
  /\ find.at \in WalkPlaces /\ ~find.truncated => \A x \in Sought : Have(x) \/ Waits(x, ahead, find.at)
  /\ find.at = "ok" /\ ~find.truncated => \A x \in Sought : Have(x)

(* Every initial state satisfies the invariant. *)
LEMMA WalkInitInv == ContentSearchInit => WalkInv
<1> SUFFICES ASSUME ContentSearchInit PROVE WalkInv
  OBVIOUS
<1>1. /\ find \in [for : {"content", "name"}, limit : FindLimits, truncated : BOOLEAN,
                    at : {"new", "list", "lstat", "read", "ok", "error"}]
      /\ find.at = "new"
  BY DEF ContentSearchInit
<1>2. ContentSearchTypeOK
  BY <1>1 DEF ContentSearchInit, ContentSearchTypeOK
<1> QED
  BY <1>1, <1>2, FS_EmptySet DEF ContentSearchInit, WalkInv, WalkPlaces, ClosedBelow

(* The entries behind the first. *)
LEMMA Behind ==
  ASSUME NEW s \in Seq(Item), s # <<>>
  PROVE  /\ Tail(s) \in Seq(Item) /\ Len(Tail(s)) = Len(s) - 1 /\ Head(s) = s[1] /\ s[1] \in Item
         /\ \A i \in 1 .. Len(Tail(s)) : Tail(s)[i] = s[i + 1]
<1> HIDE DEF Item
<1>1. Len(s) \in Nat /\ Len(s) # 0
  BY EmptySeq, LenProperties
<1>2. s[1] \in Item /\ Head(s) = s[1]
  BY <1>1, ElementOfSeq
<1> QED
  BY <1>2, HeadTailProperties

LEMMA WaitsBehind ==
  ASSUME NEW s \in Seq(Item), s # <<>>, NEW x, NEW at, Waits(x, s, at), ~WaitsAt(1, x, s, at)
  PROVE  Waits(x, Tail(s), "lstat")
<1>1. PICK i \in 1 .. Len(s) : WaitsAt(i, x, s, at)
  BY DEF Waits
<1>2. i # 1 /\ Len(s) \in Nat
  BY <1>1
<1>3. i - 1 \in 1 .. Len(Tail(s)) /\ Tail(s)[i - 1] = s[i]
  BY <1>1, <1>2, Behind
<1> QED
  BY <1>1, <1>3 DEF Waits, WaitsAt

(* The head of the loop stays in the types. *)
FindType == [for : {"content", "name"}, limit : FindLimits, truncated : BOOLEAN,
             at : {"new", "list", "lstat", "read", "ok", "error"}]
LEMMA GoesTypes ==
  ASSUME find \in FindType, NEW at \in {"new", "list", "lstat", "read", "ok", "error"}, NEW t \in BOOLEAN,
         FindGoes(at, t)
  PROVE  /\ find' \in FindType /\ find'.at = at /\ find'.truncated = t
         /\ find'.for = find.for /\ find'.limit = find.limit
  BY DEF FindType, FindGoes
LEMMA NextTypes ==
  ASSUME find \in FindType, NEW rest, NEW n, NEW f, NEW b, NEW t \in BOOLEAN, NextEntry(rest, n, f, b, t)
  PROVE  /\ find' \in FindType /\ find'.for = find.for /\ find'.at \in {"lstat", "ok"} /\ ahead' = rest
         /\ find'.at = "lstat" => rest # <<>> /\ find'.truncated = t
         /\ ~find'.truncated => ~t
         /\ find'.at = "ok" /\ ~find'.truncated => rest = <<>>
<1> DEFINE u == t \/ (find.for = "name" /\ n >= find.limit)
<1>1. u \in BOOLEAN /\ (t => u)
  OBVIOUS
<1>2. /\ ahead' = rest
      /\ \/ rest = <<>> /\ FindGoes("ok", u)
         \/ rest # <<>> /\ FindGoes("ok", TRUE)
         \/ rest # <<>> /\ FindGoes("lstat", t)
  BY DEF NextEntry
<1> HIDE DEF u
<1>3. CASE rest = <<>> /\ FindGoes("ok", u)
  BY <1>1, <1>2, <1>3, GoesTypes
<1>4. CASE rest # <<>> /\ FindGoes("ok", TRUE)
  BY <1>1, <1>2, <1>4, GoesTypes
<1>5. CASE rest # <<>> /\ FindGoes("lstat", t)
  BY <1>1, <1>2, <1>5, GoesTypes
<1> QED
  BY <1>2, <1>3, <1>4, <1>5

(* The head of the loop: what was waiting among the entries that are left waits on, or     *)
(* the answer says truncated.                                                    *)
LEMMA NextKeeps ==
  ASSUME WalkInv, NEW rest \in Seq(Item), NEW n, NEW f, NEW b, NEW t \in BOOLEAN, NextEntry(rest, n, f, b, t),
         t => find.for = "content", ContentSearchTypeOK', IsFiniteSet(hits'), removed' = removed, hits \subseteq hits',
         ~t => \A x \in Sought : Have(x)' \/ Waits(x, rest, "lstat")
  PROVE  WalkInv'
<1>1. find \in FindType
  BY DEF WalkInv, ContentSearchTypeOK, FindType
<1>2. /\ ahead' = rest /\ find'.for = find.for /\ find'.at \in {"lstat", "ok"}
      /\ find'.at = "lstat" => rest # <<>> /\ find'.truncated = t
      /\ ~find'.truncated => ~t
      /\ find'.at = "ok" /\ ~find'.truncated => rest = <<>>
  BY <1>1, NextTypes
<1>3. Sought' = Sought
  BY <1>2 DEF Sought
<1>4. \A x : ~Waits(x, <<>>, "lstat")
  BY DEF Waits
<1>5. find'.at = "ok" /\ ~find'.truncated => \A x \in Sought' : Have(x)'
  BY <1>2, <1>3, <1>4
<1>6. find'.at \in WalkPlaces /\ ~find'.truncated =>
        \A x \in Sought' : Have(x)' \/ Waits(x, ahead', find'.at)
  BY <1>2, <1>3 DEF WalkPlaces
<1> QED
  BY <1>2, <1>5, <1>6 DEF WalkInv, WalkPlaces

(* What follows in a sequence that another one precedes. *)
LEMMA Joined ==
  ASSUME NEW S, NEW a \in Seq(S), NEW b \in Seq(S)
  PROVE  /\ a \o b \in Seq(S) /\ Len(a \o b) = Len(a) + Len(b)
         /\ \A k \in 1 .. Len(a) : (a \o b)[k] = a[k]
         /\ \A k \in Len(a) + 1 .. Len(a) + Len(b) : (a \o b)[k] = b[k - Len(a)]
<1> DEFINE c == a \o b
<1>1. /\ c \in Seq(S) /\ Len(c) = Len(a) + Len(b) /\ Len(a) \in Nat /\ Len(b) \in Nat
      /\ \A k \in 1 .. Len(a) + Len(b) : c[k] = IF k <= Len(a) THEN a[k] ELSE b[k - Len(a)]
  BY ConcatProperties, LenProperties
<1> HIDE DEF c
<1>2. /\ \A k \in 1 .. Len(a) : c[k] = a[k]
      /\ \A k \in Len(a) + 1 .. Len(a) + Len(b) : c[k] = b[k - Len(a)]
  BY <1>1
<1> QED
  BY <1>1, <1>2 DEF c

(* listing. *)
LEMMA ListKeeps == ASSUME WalkInv, ListFolder PROVE WalkInv'
<1>1. find \in [for : {"content", "name"}, limit : FindLimits, truncated : BOOLEAN,
               at : {"new", "list", "lstat", "read", "ok", "error"}]
      /\ ahead \in Seq(Item) /\ ahead # <<>> /\ find.at = "list" /\ UNCHANGED <<hits, files, bytes, removed>>
      /\ Entry \in Folders /\ Entry \in FindPlaces /\ Entry = ahead[1].entry /\ Head(ahead).depth \in Nat
  <2>1. ahead \in Seq(Item) /\ ahead # <<>>
    BY DEF WalkInv, ContentSearchTypeOK, Item, WalkPlaces, ListFolder
  <2> QED
    BY <2>1, Behind DEF WalkInv, ContentSearchTypeOK, ListFolder, Entry, FindPlaces, Item
<1>2. CASE FindGoes("error", FALSE) /\ UNCHANGED ahead
  <2>1. find' = [find EXCEPT !.at = "error", !.truncated = FALSE]
    BY <1>2 DEF FindGoes
  <2>2. find'.at = "error" /\ ContentSearchTypeOK'
    BY <1>1, <1>2, <2>1 DEF WalkInv, ContentSearchTypeOK
  <2> QED
    BY <1>1, <2>2 DEF WalkInv, WalkPlaces
<1>3. CASE ~(FindGoes("error", FALSE) /\ UNCHANGED ahead)
  <2> DEFINE ListedNow(there) == [k \in DOMAIN there |-> [entry |-> there[k], depth |-> Head(ahead).depth + 1]]
  <2>1. PICK there \in Bijection(1 .. Cardinality(Listing[Entry] \ removed), Listing[Entry] \ removed) :
          NextEntry(ListedNow(there) \o Tail(ahead), Found, files, bytes, find.truncated)
    BY <1>1, <1>3 DEF ListFolder
  <2> DEFINE front == ListedNow(there)
             rest == front \o Tail(ahead)
  <2>2. IsFiniteSet(Listing[Entry] \ removed)
    BY <1>1, WorkspaceAssumption, FS_Difference
  <2>3. /\ there \in Seq(Listing[Entry] \ removed)
        /\ \A c \in Listing[Entry] \ removed : \E k \in DOMAIN there : there[k] = c
    BY <2>2, ListsAll
  <2>4. Listing[Entry] \subseteq Entries
    BY <1>1 DEF Entries
  <2>5. front \in Seq(Item) /\ Len(front) = Len(there) /\ Len(there) \in Nat /\ DOMAIN there = 1 .. Len(there)
        /\ \A k \in 1 .. Len(front) : front[k].entry = there[k]
    <3>1. Len(there) \in Nat /\ DOMAIN there = 1 .. Len(there) /\ \A k \in 1 .. Len(there) : there[k] \in Entries
      BY <2>3, <2>4
    <3>2. \A k \in 1 .. Len(there) : [entry |-> there[k], depth |-> Head(ahead).depth + 1] \in Item
      BY <1>1, <3>1 DEF Item
    <3> HIDE DEF Item
    <3> QED
      BY <3>1, <3>2
  <2> HIDE DEF front
  <2>6. /\ rest \in Seq(Item) /\ Len(rest) = Len(front) + Len(ahead) - 1 /\ Len(ahead) \in Nat
        /\ \A k \in 1 .. Len(front) : rest[k] = front[k]
        /\ \A k \in 2 .. Len(ahead) : rest[Len(front) + k - 1] = ahead[k]
    <3>1. Tail(ahead) \in Seq(Item) /\ Len(Tail(ahead)) = Len(ahead) - 1 /\ Len(ahead) \in Nat
          /\ \A i \in 1 .. Len(ahead) - 1 : Tail(ahead)[i] = ahead[i + 1]
      BY <1>1, Behind
    <3>2. /\ rest \in Seq(Item) /\ Len(rest) = Len(front) + Len(Tail(ahead))
          /\ \A k \in 1 .. Len(front) : rest[k] = front[k]
          /\ \A k \in Len(front) + 1 .. Len(front) + Len(Tail(ahead)) : rest[k] = Tail(ahead)[k - Len(front)]
      <4>1. front \in Seq(Item) /\ Tail(ahead) \in Seq(Item)
        BY <2>5, <3>1
      <4> QED
        BY ONLY <4>1, Joined
    <3>3. ASSUME NEW k \in 2 .. Len(ahead) PROVE rest[Len(front) + k - 1] = ahead[k]
      <4>1. /\ Len(front) + k - 1 \in Len(front) + 1 .. Len(front) + Len(Tail(ahead))
            /\ (Len(front) + k - 1) - Len(front) = k - 1 /\ k - 1 \in 1 .. Len(ahead) - 1 /\ (k - 1) + 1 = k
        BY <2>5, <3>1
      <4> QED
        BY <3>1, <3>2, <4>1
    <3> QED
      BY <2>5, <3>1, <3>2, <3>3
  <2>7. ASSUME NEW x \in Sought, Waits(x, ahead, "list") PROVE Waits(x, rest, "lstat")
    <3>1. PICK i \in 1 .. Len(ahead) : WaitsAt(i, x, ahead, "list")
      BY <2>7 DEF Waits
    <3>2. CASE i = 1
      <4>1. Beneath(Entry, x) /\ x # Entry /\ x \notin removed
        BY <1>1, <3>1, <3>2 DEF WaitsAt, Sought
      <4>2. PICK c \in Listing[Entry] : Beneath(c, x)
        BY <1>1, <4>1, BeneathAnEntry
      <4>3. c \notin removed
        BY <2>4, <4>1, <4>2, BeneathRemoved DEF WalkInv, FindPlaces
      <4>4. PICK k \in 1 .. Len(front) : there[k] = c
        BY <2>3, <2>5, <4>2, <4>3
      <4>5. k \in 1 .. Len(rest) /\ rest[k].entry = c
        BY <2>5, <2>6, <4>4
      <4> QED
        BY <4>2, <4>5 DEF Waits, WaitsAt
    <3>3. CASE i # 1
      <4>1. /\ Len(front) + i - 1 \in 1 .. Len(rest) /\ rest[Len(front) + i - 1] = ahead[i]
        BY <2>5, <2>6, <3>1, <3>3
      <4> QED
        BY <3>1, <4>1 DEF Waits, WaitsAt
    <3> QED
      BY <3>2, <3>3
  <2>8. ContentSearchTypeOK'
    <3>0. find \in FindType /\ find.truncated \in BOOLEAN
      BY <1>1 DEF FindType
    <3>1. find' \in FindType /\ ahead' = rest
      BY <2>1, <3>0, NextTypes DEF front
    <3> HIDE DEF rest
    <3> QED
      BY <1>1, <2>6, <3>1 DEF WalkInv, ContentSearchTypeOK, Item, FindType
  <2>9. ~find.truncated => \A x \in Sought : Have(x)' \/ Waits(x, rest, "lstat")
    <3>1. \A x : Have(x)' <=> Have(x)
      BY <1>1, <2>1 DEF Have, NextEntry, FindGoes
    <3> QED
      BY <1>1, <2>7, <3>1 DEF WalkInv, WalkPlaces
  <2> HIDE DEF rest
  <2>10. NextEntry(rest, Found, files, bytes, find.truncated) /\ find.truncated \in BOOLEAN
    BY <1>1, <2>1 DEF rest, front
  <2> QED
    <3>1. /\ find.truncated => find.for = "content"
          /\ removed' = removed /\ hits \subseteq hits' /\ IsFiniteSet(hits')
      BY <1>1 DEF WalkInv, WalkPlaces
    <3> QED
      BY <2>6, <2>8, <2>9, <2>10, <3>1, NextKeeps
<1> QED
  BY <1>2, <1>3

(* The folder the search is asked for. *)
LEMMA BeginKeeps == ASSUME WalkInv, BeginFind PROVE WalkInv'
<1>1. find \in FindType /\ UNCHANGED <<hits, files, bytes, removed>> /\ find.at = "new"
  BY DEF WalkInv, ContentSearchTypeOK, FindType, BeginFind
<1>2. CASE FindGoes("error", FALSE) /\ UNCHANGED ahead
  <2>1. find' \in FindType /\ find'.at = "error"
    BY <1>1, <1>2, GoesTypes
  <2> QED
    BY <1>1, <1>2, <2>1 DEF WalkInv, WalkPlaces, ContentSearchTypeOK, FindType
<1>3. CASE FindGoes("list", FALSE) /\ ahead' = <<[entry |-> TopFolder, depth |-> 0]>>
  <2>1. find' \in FindType /\ find'.at = "list" /\ find'.for = find.for /\ find'.truncated = FALSE
    BY <1>1, <1>3, GoesTypes
  <2>2. /\ ahead' \in Seq(Item) /\ Len(ahead') = 1 /\ ahead' # <<>> /\ ahead'[1].entry = TopFolder
        /\ Entry' = TopFolder
    BY <1>3 DEF Item, Entry
  <2>3. ContentSearchTypeOK'
    BY <1>1, <2>1, <2>2 DEF WalkInv, ContentSearchTypeOK, FindType, Item
  <2>4. ASSUME NEW x \in Sought' PROVE Waits(x, ahead', "list")
    <3>1. x \in Entries
      BY <2>4, WorkspaceAssumption DEF Sought
    <3> QED
      BY <2>2, <3>1, WorkspaceAssumption DEF Waits, WaitsAt
  <2> QED
    BY <1>1, <2>1, <2>2, <2>3, <2>4, WorkspaceAssumption DEF WalkInv, WalkPlaces
<1> QED
  BY <1>2, <1>3 DEF BeginFind

(* What a step at the entry that is next finds, and what it needs to keep. *)
LEMMA AtEntry ==
  ASSUME WalkInv, find.at \in WalkPlaces
  PROVE  /\ find \in FindType /\ ahead \in Seq(Item) /\ ahead # <<>> /\ Tail(ahead) \in Seq(Item)
         /\ Entry \in FindPlaces /\ Entry = ahead[1].entry
<1>1. ahead \in Seq(Item) /\ ahead # <<>> /\ find \in FindType
  BY DEF WalkInv, ContentSearchTypeOK, Item, FindType
<1> QED
  BY <1>1, Behind DEF Entry, FindPlaces, Item

(* Going on to the next entry, with what was beneath this one found or left. *)
LEMMA GoesOn ==
  ASSUME WalkInv, find.at \in WalkPlaces, NEW n, NEW f, NEW b, NEW t \in BOOLEAN,
         NextEntry(Tail(ahead), n, f, b, t), removed' = removed, hits \subseteq hits', hits' \subseteq Entries \X Nat,
         files' \in Nat, bytes' \in Nat, t => find.for = "content", IsFiniteSet(hits'),
         ~t => ~find.truncated /\ \A x \in Sought : WaitsAt(1, x, ahead, find.at) => Have(x)'
  PROVE  WalkInv'
<1>1. find \in FindType /\ ahead \in Seq(Item) /\ ahead # <<>> /\ Tail(ahead) \in Seq(Item)
  BY AtEntry
<1>2. find' \in FindType /\ ahead' = Tail(ahead) /\ find'.for = find.for
  BY <1>1, NextTypes
<1>3. ContentSearchTypeOK'
  BY <1>1, <1>2 DEF WalkInv, ContentSearchTypeOK, FindType, Item
<1>4. \A x : Have(x) => Have(x)'
  BY <1>2 DEF Have
<1>5. ASSUME ~t, NEW x \in Sought PROVE Have(x)' \/ Waits(x, Tail(ahead), "lstat")
  <2>1. Have(x) \/ Waits(x, ahead, find.at)
    BY <1>5 DEF WalkInv
  <2> QED
    BY <1>1, <1>4, <1>5, <2>1, WaitsBehind
<1> QED
  BY <1>1, <1>3, <1>5, NextKeeps

(* Into a folder: its own name is behind. *)
LEMMA Enters ==
  ASSUME WalkInv, find.at = "lstat", Entry \in Folders, FindGoes("list", FALSE), ~find.truncated,
         UNCHANGED <<ahead, files, bytes, removed>>, hits \subseteq hits', hits' \subseteq Entries \X Nat,
         IsFiniteSet(hits'), \A x \in Sought : x = Entry => Have(x)'
  PROVE  WalkInv'
<1>1. find \in FindType /\ ahead \in Seq(Item) /\ ahead # <<>> /\ Entry = ahead[1].entry
  BY AtEntry DEF WalkPlaces
<1>2. find' \in FindType /\ find'.at = "list" /\ find'.for = find.for /\ find'.truncated = FALSE
  BY <1>1, GoesTypes
<1>3. ContentSearchTypeOK'
  BY <1>1, <1>2 DEF WalkInv, ContentSearchTypeOK, FindType, Item
<1>4. \A x : Have(x) => Have(x)'
  BY <1>2 DEF Have
<1>5. ASSUME NEW x \in Sought PROVE Have(x)' \/ Waits(x, ahead, "list")
  <2>1. Have(x) \/ Waits(x, ahead, "lstat")
    BY DEF WalkInv, WalkPlaces
  <2>2. CASE x = Entry
    BY <2>2
  <2>3. CASE x # Entry
    BY <1>1, <1>4, <2>1, <2>3 DEF Waits, WaitsAt
  <2> QED
    BY <2>2, <2>3
<1>6. Sought' = Sought /\ Entry' = Entry
  BY <1>2 DEF Sought, Entry
<1> QED
  BY <1>1, <1>2, <1>3, <1>5, <1>6 DEF WalkInv, WalkPlaces

(* The answer, or an error. *)
LEMMA Answers ==
  ASSUME WalkInv, NEW at \in {"ok", "error"}, NEW t \in BOOLEAN, FindGoes(at, t), at = "ok" => t,
         UNCHANGED <<ahead, removed>>, hits' \subseteq Entries \X Nat, IsFiniteSet(hits'),
         files' \in Nat, bytes' \in Nat
  PROVE  WalkInv'
<1>1. find \in FindType
  BY DEF WalkInv, ContentSearchTypeOK, FindType
<1>2. find' \in FindType /\ find'.at = at /\ find'.truncated = t
  BY <1>1, GoesTypes
<1> QED
  BY <1>2 DEF WalkInv, WalkPlaces, ContentSearchTypeOK, FindType

(* searchFiles at a name. *)
LEMMA NameKeeps == ASSUME WalkInv, LookAtName PROVE WalkInv'
<1>1. /\ find.at = "lstat" /\ find.for = "name" /\ UNCHANGED <<files, bytes, removed>>
      /\ hits' = IF Entry \in MatchingNames \ Symlinks THEN hits \union {<<Entry, 0>>} ELSE hits
      /\ Entry \in FindPlaces /\ Entry = ahead[1].entry /\ find \in FindType
  BY AtEntry DEF LookAtName, WalkPlaces
<1>2. hits \subseteq hits' /\ hits' \subseteq Entries \X Nat /\ files' \in Nat /\ bytes' \in Nat
  BY <1>1, WorkspaceAssumption DEF WalkInv, ContentSearchTypeOK
<1>0. IsFiniteSet(hits')
  <2>1. IsFiniteSet(hits)
    BY DEF WalkInv
  <2> QED
    BY <1>1, <2>1, FS_AddElement
<1>3. find'.for = find.for
  BY <1>1, GoesTypes, NextTypes DEF LookAtName
<1>4. ASSUME NEW x \in Sought, x = Entry PROVE Have(x)'
  <2>1. x \in MatchingNames \ Symlinks /\ <<x, 0>> \in hits'
    BY <1>1, <1>4 DEF Sought
  <2> QED
    BY <1>1, <1>3, <2>1 DEF Have
<1>5. CASE Entry \in Folders
  <2>1. FindGoes("list", FALSE) /\ UNCHANGED ahead
    BY <1>5 DEF LookAtName
  <2>2. ~find.truncated
    BY <1>1 DEF WalkInv, WalkPlaces
  <2> QED
    BY <1>0, <1>1, <1>2, <1>4, <1>5, <2>1, <2>2, Enters
<1>6. CASE Entry \notin Folders
  <2>1. NextEntry(Tail(ahead), Cardinality(hits'), files, bytes, FALSE)
    BY <1>6 DEF LookAtName
  <2>2. ASSUME NEW x \in Sought, WaitsAt(1, x, ahead, find.at) PROVE Have(x)'
    <3>1. x = Entry
      BY <1>1, <1>6, <2>2, BeneathOnlyFolders DEF WaitsAt
    <3> QED
      BY <1>4, <3>1
  <2>3. ~find.truncated
    BY <1>1 DEF WalkInv, WalkPlaces
  <2> QED
    BY <1>0, <1>1, <1>2, <2>1, <2>2, <2>3, GoesOn DEF WalkPlaces
<1> QED
  BY <1>5, <1>6

(* searchContent after lstat: what it passes over has nothing beneath it to be found, *)
(* or the answer will say truncated.                                             *)
LEMMA PassesOver ==
  ASSUME WalkInv, find.at = "lstat", find.for = "content", PassOver, UNCHANGED <<hits, removed>>
  PROVE  WalkInv'
<1> DEFINE t == find.truncated \/ (Entry \in Folders /\ Deep)
<1>1. /\ Entry \in FindPlaces /\ Entry = ahead[1].entry /\ find \in FindType /\ hits \subseteq Entries \X Nat
      /\ files \in Nat /\ bytes \in Nat /\ IsFiniteSet(hits) /\ ClosedBelow(removed)
  BY AtEntry DEF WalkPlaces, WalkInv, ContentSearchTypeOK
<1>2. t \in BOOLEAN /\ NextEntry(Tail(ahead), Found, files, bytes, t) /\ (~t => ~find.truncated)
      /\ UNCHANGED <<files, bytes>>
  BY <1>1 DEF PassOver, FindType
<1>3. ASSUME ~t, NEW x \in Sought, WaitsAt(1, x, ahead, find.at) PROVE FALSE
  <2>1. x \in TextFiles \ removed /\ Beneath(Entry, x)
    BY <1>1, <1>3 DEF Sought, WaitsAt
  <2>2. Entry \in Symlinks \union Unfit \union removed
    BY <1>3 DEF PassOver
  <2>3. CASE Entry \in removed
    BY <1>1, <2>1, <2>3, BeneathRemoved
  <2>4. CASE Entry \in Symlinks \union Unfit
    <3>1. Entry \notin Folders /\ Entry \notin TextFiles
      BY <2>4, WorkspaceAssumption
    <3> QED
      BY <1>1, <2>1, <3>1, BeneathOnlyFolders
  <2> QED
    BY <2>2, <2>3, <2>4
<1> HIDE DEF t
<1> QED
  BY <1>1, <1>2, <1>3, GoesOn DEF WalkPlaces

(* ... into a folder, or to read a file. *)
LEMMA EntryKeeps == ASSUME WalkInv, LookAtEntry PROVE WalkInv'
<1>1. /\ find.at = "lstat" /\ find.for = "content" /\ UNCHANGED <<hits, removed>>
      /\ Entry \in FindPlaces /\ Entry = ahead[1].entry /\ find \in FindType /\ hits \subseteq Entries \X Nat
      /\ files \in Nat /\ bytes \in Nat /\ IsFiniteSet(hits) /\ ahead # <<>>
  BY AtEntry DEF WalkPlaces, WalkInv, ContentSearchTypeOK, LookAtEntry
<1>2. CASE PassOver
  BY <1>1, <1>2, PassesOver
<1>3. CASE EnterFolder
  <2>1. /\ Entry \in Folders /\ ~find.truncated /\ FindGoes("list", FALSE) /\ UNCHANGED <<ahead, files, bytes>>
    BY <1>3 DEF EnterFolder
  <2>2. \A x \in Sought : x # Entry
    BY <1>1, <2>1, WorkspaceAssumption DEF Sought
  <2> QED
    BY <1>1, <2>1, <2>2, Enters
<1>4. CASE OpenFile
  <2>1. Entry \in TextFiles \ removed /\ files' \in Nat /\ bytes' \in Nat /\ UNCHANGED ahead
    BY <1>1, <1>4, WorkspaceAssumption DEF OpenFile
  <2>2. CASE FindGoes("ok", TRUE)
    BY <1>1, <2>1, <2>2, Answers
  <2>3. CASE FindGoes("read", find.truncated)
    <3>1. find' \in FindType /\ find'.at = "read" /\ find'.for = find.for /\ find'.truncated = find.truncated
      BY <1>1, <2>3, GoesTypes DEF FindType
    <3>2. ContentSearchTypeOK'
      BY <1>1, <2>1, <3>1 DEF WalkInv, ContentSearchTypeOK, FindType
    <3>3. Sought' = Sought /\ Entry' = Entry /\ \A x : Have(x)' <=> Have(x)
      BY <1>1, <2>1, <3>1 DEF Sought, Entry, Have
    <3>4. \A x : Waits(x, ahead, "lstat") => Waits(x, ahead, "read")
      BY DEF Waits, WaitsAt
    <3> QED
      BY <1>1, <2>1, <3>1, <3>2, <3>3, <3>4 DEF WalkInv, WalkPlaces
  <2> QED
    BY <1>4, <2>2, <2>3 DEF OpenFile
<1> QED
  BY <1>2, <1>3, <1>4 DEF LookAtEntry

(* The lines of a file: all that match are found unless the limit comes before one.     *)
LEMMA LinesKeep == ASSUME WalkInv, ReadLines PROVE WalkInv'
<1> DEFINE seen == {k \in Matching(Entry) : Before(Entry, k) < find.limit}
<1>1. /\ find.at = "read" /\ find.for = "content" /\ UNCHANGED <<files, bytes, removed>>
      /\ Entry \in TextFiles /\ Entry \in Entries /\ Entry = ahead[1].entry /\ find \in FindType
      /\ hits \subseteq Entries \X Nat /\ files' \in Nat /\ bytes' \in Nat
  BY AtEntry, WorkspaceAssumption DEF WalkPlaces, WalkInv, ContentSearchTypeOK, ReadLines
<1>2. /\ \A k \in DOMAIN Lines[Entry] : k \in Nat
      /\ Matching(Entry) \subseteq DOMAIN Lines[Entry] /\ IsFiniteSet(DOMAIN Lines[Entry])
  <2>1. Lines[Entry] \in Seq(BOOLEAN)
    BY <1>1, WorkspaceAssumption
  <2>2. DOMAIN Lines[Entry] = 1 .. Len(Lines[Entry]) /\ Len(Lines[Entry]) \in Nat
    BY <2>1
  <2> QED
    BY <2>2, FS_Interval DEF Matching
<1>3. IsFiniteSet(hits) /\ find.limit \in Nat
  BY <1>1, WorkspaceAssumption DEF WalkInv, FindType
<1>4. \A k : Before(Entry, k) \in Nat
  <2> SUFFICES ASSUME NEW k PROVE Found + Cardinality({m \in Matching(Entry) : m < k}) \in Nat
    BY DEF Before
  <2>1. IsFiniteSet({m \in Matching(Entry) : m < k})
    BY <1>2, FS_Subset
  <2> QED
    BY <1>3, <2>1, FS_CardinalityType DEF Found
<1>5. CASE FindGoes("error", FALSE) /\ UNCHANGED <<ahead, hits>>
  BY <1>1, <1>3, <1>5, Answers
<1>6. CASE ~(FindGoes("error", FALSE) /\ UNCHANGED <<ahead, hits>>)
  <2>1. hits' = hits \union {<<Entry, k>> : k \in seen}
    BY <1>1, <1>6 DEF ReadLines
  <2>2. hits \subseteq hits' /\ hits' \subseteq Entries \X Nat
    BY <1>1, <1>2, <2>1
  <2>3. IsFiniteSet(hits')
    <3>1. seen \subseteq DOMAIN Lines[Entry]
      BY <1>2
    <3> HIDE DEF seen
    <3>2. IsFiniteSet(seen)
      BY <1>2, <3>1, FS_Subset
    <3>3. IsFiniteSet({<<Entry, k>> : k \in seen})
      <4>1. IsFiniteSet({Entry} \X seen)
        BY <3>2, FS_Singleton, FS_Product
      <4>2. {<<Entry, k>> : k \in seen} = {Entry} \X seen
        OBVIOUS
      <4> QED
        BY <4>1, <4>2
    <3> QED
      BY <1>3, <2>1, <3>3, FS_Union
  <2>4. CASE FindGoes("ok", TRUE) /\ UNCHANGED ahead
    BY <1>1, <2>2, <2>3, <2>4, Answers
  <2>5. CASE ~(FindGoes("ok", TRUE) /\ UNCHANGED ahead)
    <3>1. /\ ~\E k \in DOMAIN Lines[Entry] : LimitBefore(Entry, k)
          /\ NextEntry(Tail(ahead), Cardinality(hits'), files, bytes, find.truncated)
      BY <1>1, <1>6, <2>5 DEF ReadLines
    <3>2. find' \in FindType /\ find'.for = find.for /\ find.truncated \in BOOLEAN
      BY <1>1, <3>1, NextTypes DEF FindType
    <3>3. ASSUME NEW x \in Sought, WaitsAt(1, x, ahead, find.at) PROVE Have(x)'
      <4>1. x = Entry
        <5>1. Beneath(Entry, x) /\ Entry \in FindPlaces \ Folders
          BY <1>1, <3>3, WorkspaceAssumption DEF WaitsAt, FindPlaces
        <5> QED
          BY <5>1, BeneathOnlyFolders
      <4>2. ASSUME NEW k \in Matching(x) PROVE <<x, k>> \in hits'
        <5>1. k \in DOMAIN Lines[Entry] /\ ~(Before(Entry, k) >= find.limit)
          BY <1>2, <3>1, <4>1, <4>2 DEF LimitBefore
        <5>2. k \in seen
          BY <1>3, <1>4, <4>1, <4>2, <5>1
        <5> QED
          BY <2>1, <4>1, <5>2
      <4> QED
        BY <1>1, <3>2, <4>2 DEF Have
    <3> QED
      BY <1>1, <2>2, <2>3, <3>1, <3>2, <3>3, GoesOn DEF WalkPlaces
  <2> QED
    BY <2>4, <2>5
<1> QED
  BY <1>5, <1>6

(* Others remove a file or an empty folder: less is sought. *)
LEMMA RemovalKeeps ==
  ASSUME WalkInv, NEW e \in (Folders \ {TopFolder}) \union TextFiles, RemovedByOthers(e)
  PROVE  WalkInv'
<1>1. removed' = removed \union {e} /\ UNCHANGED <<find, ahead, hits, files, bytes>>
      /\ (e \in Folders => Listing[e] \subseteq removed)
  BY DEF RemovedByOthers
<1>2. ContentSearchTypeOK' /\ ClosedBelow(removed')
  BY <1>1 DEF WalkInv, ContentSearchTypeOK, ClosedBelow
<1>3. Sought' \subseteq Sought /\ Entry' = Entry /\ \A x : Have(x)' <=> Have(x)
  BY <1>1 DEF Sought, Entry, Have
<1> QED
  BY <1>1, <1>2, <1>3 DEF WalkInv, WalkPlaces

(* So the invariant holds throughout, and an answer that does not say truncated left     *)
(* nothing out: searchFiles and searchContent over every workspace, in every order of    *)
(* the listings, with every removal by others meanwhile.                             *)
LEMMA WalkNextInv == WalkInv /\ [ContentSearchNext]_findVars => WalkInv'
<1> SUFFICES ASSUME WalkInv, [ContentSearchNext]_findVars PROVE WalkInv'
  OBVIOUS
<1>1. CASE UNCHANGED findVars
  <2>1. UNCHANGED <<find, ahead, hits, files, bytes, removed>>
    BY <1>1 DEF findVars
  <2>2. Sought' = Sought /\ Entry' = Entry /\ \A x : Have(x)' <=> Have(x)
    BY <2>1 DEF Sought, Entry, Have
  <2> QED
    BY <2>1, <2>2 DEF WalkInv, WalkPlaces, ContentSearchTypeOK
<1> QED
  BY <1>1, BeginKeeps, ListKeeps, NameKeeps, EntryKeeps, LinesKeep, RemovalKeeps DEF ContentSearchNext
THEOREM UntruncatedTheorem == ContentSearchSpec => []UntruncatedFindsAll
<1>1. WalkInv => UntruncatedFindsAll
  <2> SUFFICES ASSUME WalkInv, find.at = "ok", ~find.truncated
               PROVE  IF find.for = "content" THEN \A f \in TextFiles \ removed : \A k \in Matching(f) : <<f, k>> \in hits
                      ELSE (MatchingNames \ (Symlinks \union removed)) \X {0} \subseteq hits
    BY DEF UntruncatedFindsAll
  <2>1. \A x \in Sought : Have(x)
    BY DEF WalkInv
  <2>2. CASE find.for = "content"
    BY <2>1, <2>2 DEF Sought, Have
  <2>3. CASE find.for # "content"
    <3>1. \A x \in MatchingNames \ (Symlinks \union removed) : <<x, 0>> \in hits
      BY <2>1, <2>3 DEF Sought, Have
    <3> QED
      BY <2>3, <3>1
  <2> QED
    BY <2>2, <2>3
<1> QED
  BY <1>1, WalkInitInv, WalkNextInv, PTL DEF ContentSearchSpec
===============================================================================
