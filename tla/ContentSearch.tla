----------------------------- MODULE ContentSearch -----------------------------
(***************************************************************************)
(* The unpaged searches of the desktop adapter (apps/desktop/adapter.mjs:   *)
(* searchFiles, searchContent): a walk over the workspace that awaits each   *)
(* listing, lstat and read, while others remove files, and that stops at     *)
(* limits of which the answer must tell.                                     *)
(***************************************************************************)
EXTENDS Naturals, FiniteSets, Sequences, Functions

CONSTANTS
  Listing,       \* a directory's entries; readdir promises no order
  TopFolder,     \* the directory the search is asked for
  Lines,         \* a file's lines: whether each matches the query; of a binary file none
  Size,          \* a file's bytes
  Symlinks, Unfit,   \* symbolic links; files that are too large or linked twice
  MatchingNames, \* entries whose name matches the query
  FindLimits,    \* args.limit
  FileLimit, ByteLimit, DepthLimit

Folders == DOMAIN Listing
TextFiles == DOMAIN Lines
Entries == UNION {Listing[d] : d \in Folders}
(* An entry is beneath one it cannot be kept from: what holds that one, and with a      *)
(* folder what it lists, holds the entry.  The workspace is what is beneath TopFolder. *)
ClosedBelow(S) == \A d \in S \intersect Folders : Listing[d] \subseteq S
Beneath(d, e) == \A S \in SUBSET (Entries \union {TopFolder}) : d \in S /\ ClosedBelow(S) => e \in S
ASSUME WorkspaceAssumption ==
  /\ TopFolder \in Folders \ Entries /\ \A e \in Entries : Beneath(TopFolder, e)
  /\ \A d \in Folders : IsFiniteSet(Listing[d])
  /\ Folders \intersect TextFiles = {} /\ MatchingNames \subseteq Entries /\ TextFiles \subseteq Entries
  /\ (Symlinks \union Unfit) \intersect (Folders \union TextFiles) = {}
  /\ Entries \subseteq Folders \union TextFiles \union Symlinks \union Unfit
  /\ \A f \in TextFiles : Lines[f] \in Seq(BOOLEAN) /\ Size[f] \in Nat
  /\ FindLimits \subseteq Nat

VARIABLES
  find,          \* the search: what it looks for, what it awaits or answered, its limit, truncated
  ahead,         \* the entries ahead with their depth, the current one first
  hits,          \* matches: a file and its line, or a name
  files, bytes,  \* filesScanned, bytesScanned
  removed        \* what others have removed

findVars == <<find, ahead, hits, files, bytes, removed>>

ContentSearchTypeOK ==
  /\ find \in [for : {"content", "name"}, limit : FindLimits, truncated : BOOLEAN,
               at : {"new", "list", "lstat", "read", "ok", "error"}]
  /\ ahead \in Seq([entry : Entries \union {TopFolder}, depth : Nat])
  /\ hits \subseteq Entries \X Nat
  /\ files \in Nat /\ bytes \in Nat /\ removed \subseteq Folders \union TextFiles

ContentSearchInit ==
  /\ find \in [for : {"content", "name"}, limit : FindLimits, truncated : {FALSE}, at : {"new"}]
  /\ ahead = <<>> /\ hits = {} /\ files = 0 /\ bytes = 0 /\ removed = {}

-------------------------------------------------------------------------------
Found == Cardinality(hits)
Entry == Head(ahead).entry
FindGoes(at, truncated) == find' = [find EXCEPT !.at = at, !.truncated = truncated]
(* The head of the loop, before the entry that is next: at a limit every level of  *)
(* the walk returns.                                                          *)
Reached(n, f, b) == n >= find.limit \/ (find.for = "content" /\ (f >= FileLimit \/ b >= ByteLimit))
NextEntry(rest, n, f, b, truncated) ==
  /\ ahead' = rest
  /\ IF rest = <<>> THEN FindGoes("ok", truncated \/ (find.for = "name" /\ n >= find.limit))
     ELSE IF Reached(n, f, b) THEN FindGoes("ok", TRUE)
     ELSE FindGoes("lstat", truncated)

(* safeDirectory, then the listing of the folder.                              *)
BeginFind ==
  /\ find.at = "new"
  /\ \/ FindGoes("list", FALSE) /\ ahead' = <<[entry |-> TopFolder, depth |-> 0]>>
     \/ FindGoes("error", FALSE) /\ UNCHANGED ahead
  /\ UNCHANGED <<hits, files, bytes, removed>>
ListFolder ==
  LET depth == Head(ahead).depth + 1
      present == Listing[Entry] \ removed
      Listed(there) == [k \in DOMAIN there |-> [entry |-> there[k], depth |-> depth]]
  IN /\ find.at = "list"
     /\ \/ /\ Entry \notin removed
           /\ \E there \in Bijection(1 .. Cardinality(present), present) :
                NextEntry(Listed(there) \o Tail(ahead), Found, files, bytes, find.truncated)
        \/ FindGoes("error", FALSE) /\ UNCHANGED ahead
     /\ UNCHANGED <<hits, files, bytes, removed>>

(* searchFiles looks at the name alone.                                        *)
LookAtName ==
  /\ find.at = "lstat" /\ find.for = "name"
  /\ hits' = IF Entry \in MatchingNames \ Symlinks THEN hits \union {<<Entry, 0>>} ELSE hits
  /\ IF Entry \in Folders THEN FindGoes("list", FALSE) /\ UNCHANGED ahead
     ELSE NextEntry(Tail(ahead), Cardinality(hits'), files, bytes, FALSE)
  /\ UNCHANGED <<files, bytes, removed>>

(* searchContent after lstat: what has gone or does not fit is passed over, a       *)
(* folder below the depth is not entered, and none once something was left out.     *)
Deep == Head(ahead).depth > DepthLimit
PassOver ==
  /\ Entry \in Symlinks \union Unfit \union removed \/ (Entry \in Folders /\ (Deep \/ find.truncated))
  /\ NextEntry(Tail(ahead), Found, files, bytes, find.truncated \/ (Entry \in Folders /\ Deep))
  /\ UNCHANGED <<files, bytes>>
EnterFolder ==
  /\ Entry \in Folders /\ ~Deep /\ ~find.truncated
  /\ FindGoes("list", FALSE) /\ UNCHANGED <<ahead, files, bytes>>
OpenFile ==
  /\ Entry \in TextFiles \ removed
  /\ files' = files + 1 /\ bytes' = bytes + Size[Entry]
  /\ IF bytes' > ByteLimit THEN FindGoes("ok", TRUE) ELSE FindGoes("read", find.truncated)
  /\ UNCHANGED ahead
LookAtEntry ==
  /\ find.at = "lstat" /\ find.for = "content"
  /\ PassOver \/ EnterFolder \/ OpenFile
  /\ UNCHANGED <<hits, removed>>

(* The lines of a file; the limit is looked at before each.                      *)
Matching(f) == {k \in DOMAIN Lines[f] : Lines[f][k]}
Before(f, k) == Found + Cardinality({m \in Matching(f) : m < k})
LimitAfterLines(f, k) == FALSE            \* mutant: the loop ends and truncated is not set
LimitBefore(f, k) == Before(f, k) >= find.limit
ReadLines ==
  LET f == Entry
      seen == {k \in Matching(f) : Before(f, k) < find.limit}
  IN /\ find.at = "read"
     /\ \/ FindGoes("error", FALSE) /\ UNCHANGED <<ahead, hits>>
        \/ /\ f \notin removed /\ hits' = hits \union {<<f, k>> : k \in seen}
           /\ IF \E k \in DOMAIN Lines[f] : LimitBefore(f, k) THEN FindGoes("ok", TRUE) /\ UNCHANGED ahead
              ELSE NextEntry(Tail(ahead), Cardinality(hits'), files, bytes, find.truncated)
     /\ UNCHANGED <<files, bytes, removed>>

(* Others remove a file or an empty folder.                                     *)
RemovedByOthers(e) ==
  /\ find.at \notin {"ok", "error"} /\ e \notin removed
  /\ e \in Folders => Listing[e] \subseteq removed
  /\ removed' = removed \union {e}
  /\ UNCHANGED <<find, ahead, hits, files, bytes>>

ContentSearchNext ==
  \/ BeginFind \/ ListFolder \/ LookAtName \/ LookAtEntry \/ ReadLines
  \/ \E e \in (Folders \ {TopFolder}) \union TextFiles : RemovedByOthers(e)
ContentSearchSpec == ContentSearchInit /\ [][ContentSearchNext]_findVars

-------------------------------------------------------------------------------
(* A search that does not say truncated has left nothing out: every line that     *)
(* matches in a fit file, or every name that does, is in the answer, except what     *)
(* others removed meanwhile.                                                    *)
UntruncatedFindsAll ==
  find.at = "ok" /\ ~find.truncated =>
    IF find.for = "content" THEN \A f \in TextFiles \ removed : \A k \in Matching(f) : <<f, k>> \in hits
    ELSE (MatchingNames \ (Symlinks \union removed)) \X {0} \subseteq hits
===============================================================================
