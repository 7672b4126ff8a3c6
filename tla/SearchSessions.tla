---------------------------- MODULE SearchSessions ----------------------------
(***************************************************************************)
(* Paged searches of the desktop adapter (apps/desktop/search-sessions.mjs)*)
(* A search walks a tree in the background while its owner pages, stops or *)
(* forgets it.  A tree is the sequence of entries the walk would meet; an  *)
(* entry is what the walk makes of it.  A step ends at an await: of the    *)
(* directory listing, of lstat or of the file's contents.                  *)
(***************************************************************************)
EXTENDS Naturals, FiniteSets, Sequences

CONSTANTS
  Searches,     \* search ids
  Trees,        \* the trees a search may be started on
  ActiveSearches, AllSearches, MaxResults, MaxEntries   \* LIMITS

\* "skip" is a link, a vanished or an unsuitable file; "deep" lies below the depth limit,
\* "huge" would exceed the bytes a content search may read; "two" has two matching rows.
Kinds == {"dir", "deep", "skip", "miss", "hit", "two", "huge"}
Modes == {"name", "content"}

ASSUME TreesAssumption == Trees \subseteq Seq(Kinds)
ASSUME SearchLimitsAssumption ==
  /\ ActiveSearches \in Nat /\ AllSearches \in Nat
  /\ MaxResults \in Nat \ {0} /\ MaxEntries \in Nat

VARIABLES
  sStart,      \* where DesktopSearchSessions.start is for this id
  sTable,      \* ids in this.searches
  sState, sEnded, cancelled,
  walk,        \* what the scan awaits: "list", "lstat", "read", or "end"
  tree, mode,
  todo,        \* entries the walk has not finished with, the current one first
  scanned, matched,
  told         \* history: searches whose owner was given a last page

sSlot == <<sStart, sTable, tree, mode>>
scan == <<walk, todo, scanned, matched>>
sVars == <<sSlot, scan, sState, sEnded, cancelled, told>>

SearchTypeOK ==
  /\ sStart \in [Searches -> {"new", "cwd", "done", "refused"}]
  /\ sTable \subseteq Searches /\ cancelled \subseteq Searches /\ told \subseteq Searches
  /\ sState \in [Searches -> {"none", "RUNNING", "COMPLETE", "LIMIT_REACHED", "CANCELLED", "FAILED"}]
  /\ sEnded \in [Searches -> {"no", "yes", "aged"}]
  /\ walk \in [Searches -> {"none", "list", "lstat", "read", "end"}]
  /\ tree \in [Searches -> Seq(Kinds)] /\ mode \in [Searches -> Modes]
  /\ todo \in [Searches -> Seq(Kinds)]
  /\ scanned \in [Searches -> Nat] /\ matched \in [Searches -> Nat]

SearchInit ==
  /\ sStart = [i \in Searches |-> "new"] /\ sTable = {}
  /\ sState = [i \in Searches |-> "none"] /\ sEnded = [i \in Searches |-> "no"]
  /\ cancelled = {} /\ told = {}
  /\ walk = [i \in Searches |-> "none"]
  /\ tree = [i \in Searches |-> <<>>] /\ mode = [i \in Searches |-> "name"]
  /\ todo = tree
  /\ scanned = [i \in Searches |-> 0] /\ matched = scanned

-------------------------------------------------------------------------------
Terminal == {"COMPLETE", "LIMIT_REACHED", "CANCELLED", "FAILED"}
(* What prune leaves.                                                         *)
KeptSearches == {i \in sTable : ~(sState[i] \in Terminal /\ sEnded[i] = "aged")}
Running == {i \in KeptSearches : sState[i] = "RUNNING"}

(* start, up to the await of the directory, and from there on.                *)
SearchBegins(i) ==
  /\ sStart[i] = "new"
  /\ sTable' = KeptSearches
  /\ sStart' = [sStart EXCEPT ![i] =
       IF Cardinality(KeptSearches) >= AllSearches \/ Cardinality(Running) >= ActiveSearches
       THEN "refused" ELSE "cwd"]
  /\ UNCHANGED <<tree, mode, scan, sState, sEnded, cancelled, told>>
SearchRefused(i) ==
  /\ sStart[i] = "cwd"
  /\ sStart' = [sStart EXCEPT ![i] = "refused"]
  /\ UNCHANGED <<sTable, tree, mode, scan, sState, sEnded, cancelled, told>>
SearchStarts(i, t, m) ==
  /\ sStart[i] = "cwd"
  /\ sStart' = [sStart EXCEPT ![i] = "done"]
  /\ sTable' = sTable \union {i}
  /\ sState' = [sState EXCEPT ![i] = "RUNNING"]
  /\ tree' = [tree EXCEPT ![i] = t] /\ todo' = [todo EXCEPT ![i] = t]
  /\ mode' = [mode EXCEPT ![i] = m]
  /\ walk' = [walk EXCEPT ![i] = "list"]
  /\ UNCHANGED <<scanned, matched, sEnded, cancelled, told>>

(* The end of scan: a cancelled search says so, one without a limit is whole.  *)
Outcome(i, limited) ==
  IF i \in cancelled THEN "CANCELLED" ELSE IF limited THEN "LIMIT_REACHED" ELSE "COMPLETE"
Finish(i, n, limited) ==
  /\ walk' = [walk EXCEPT ![i] = "end"]
  /\ sState' = [sState EXCEPT ![i] = Outcome(i, limited)]
  /\ sEnded' = [sEnded EXCEPT ![i] = "yes"]
  /\ matched' = [matched EXCEPT ![i] = n]
  /\ UNCHANGED <<todo, scanned>>
Await(i, what, n) ==
  /\ walk' = [walk EXCEPT ![i] = what]
  /\ matched' = [matched EXCEPT ![i] = n]
  /\ UNCHANGED <<sState, sEnded>>

(* The head of the loop, with the entries that are left and the matches found: *)
(* the time may be up whenever it is looked at.                               *)
LimitForgotten(i, n) == FALSE   \* mutant: the loop returns and state is not set
LimitNoted(i, n) == TRUE
LoopHead(i, rest, n) ==
  \/ /\ rest = <<>> \/ i \in cancelled
     /\ Finish(i, n, FALSE)
  \/ /\ rest # <<>> /\ i \notin cancelled
     /\ Finish(i, n, LimitNoted(i, n))
  \/ /\ rest # <<>> /\ i \notin cancelled /\ scanned[i] < MaxEntries /\ n < MaxResults
     /\ todo' = [todo EXCEPT ![i] = rest]
     /\ scanned' = [scanned EXCEPT ![i] = @ + 1]
     /\ Await(i, "lstat", n)

(* readdir of the root or of the directory that is the current entry.         *)
Listed(i) ==
  /\ walk[i] = "list"
  /\ LoopHead(i, IF scanned[i] = 0 THEN todo[i] ELSE Tail(todo[i]), matched[i])
  /\ UNCHANGED <<sSlot, cancelled, told>>

(* lstat of the current entry, and what follows in the same turn.             *)
Named(i) == IF mode[i] = "name" /\ Head(todo[i]) \in {"hit", "two"} THEN 1 ELSE 0
Examined(i) ==
  /\ walk[i] = "lstat"
  /\ LET entry == Head(todo[i])
         n == matched[i] + Named(i)
     IN \/ entry \in {"dir", "deep"} /\ i \in cancelled /\ Finish(i, n, FALSE)
        \/ entry = "deep" /\ i \notin cancelled /\ Finish(i, n, TRUE)
        \/ entry = "dir" /\ i \notin cancelled /\ Await(i, "list", n) /\ UNCHANGED <<todo, scanned>>
        \/ entry = "huge" /\ mode[i] = "content" /\ Finish(i, n, TRUE)
        \/ /\ entry \in {"miss", "hit", "two"} /\ mode[i] = "content"
           /\ Await(i, "read", n) /\ UNCHANGED <<todo, scanned>>
        \/ /\ entry = "skip" \/ (mode[i] = "name" /\ entry \notin {"dir", "deep"})
           /\ LoopHead(i, Tail(todo[i]), n)
  /\ UNCHANGED <<sSlot, cancelled, told>>

(* The contents of a file: each row is looked at unless the search is over.   *)
Rows(entry) == CASE entry = "two" -> 2 [] entry = "hit" -> 1 [] OTHER -> 0
ReadFile(i) ==
  /\ walk[i] = "read"
  /\ LET found == matched[i] + Rows(Head(todo[i]))
     IN IF i \in cancelled THEN Finish(i, matched[i], TRUE)
        ELSE IF found > MaxResults THEN Finish(i, MaxResults, TRUE)
        ELSE LoopHead(i, Tail(todo[i]), found)
  /\ UNCHANGED <<sSlot, cancelled, told>>

(* readdir or readFile fails: the handler of the whole scan, stopped or not.   *)
ScanFails(i) ==
  /\ walk[i] \in {"list", "read"}
  /\ walk' = [walk EXCEPT ![i] = "end"]
  /\ sState' = [sState EXCEPT ![i] = "FAILED"]
  /\ sEnded' = [sEnded EXCEPT ![i] = "yes"]
  /\ UNCHANGED <<sSlot, todo, scanned, matched, cancelled, told>>

(* next, asked for the matches its owner has not seen; list prunes alone.      *)
NextPage(i) ==
  /\ sTable' = KeptSearches /\ i \in sTable'
  /\ told' = IF sState[i] = "RUNNING" \/ i \in cancelled THEN told ELSE told \union {i}
  /\ <<sTable, told>>' # <<sTable, told>>
  /\ UNCHANGED <<sStart, tree, mode, scan, sState, sEnded, cancelled>>
ListSearches ==
  /\ sTable' = KeptSearches /\ sTable' # sTable
  /\ UNCHANGED <<sStart, tree, mode, scan, sState, sEnded, cancelled, told>>
StopsAny(i) == TRUE      \* mutant: stop does not look at the state
MayStop(i) == sState[i] = "RUNNING"
StopSearch(i) ==
  /\ sTable' = KeptSearches /\ i \in sTable'
  /\ MayStop(i)
  /\ cancelled' = cancelled \union {i}
  /\ sState' = [sState EXCEPT ![i] = "CANCELLED"]
  /\ sEnded' = [sEnded EXCEPT ![i] = "yes"]
  /\ UNCHANGED <<sStart, tree, mode, scan, told>>
AgeSearch(i) ==
  /\ sEnded[i] = "yes"
  /\ sEnded' = [sEnded EXCEPT ![i] = "aged"]
  /\ UNCHANGED <<sSlot, scan, sState, cancelled, told>>

Scans(i) == Listed(i) \/ Examined(i) \/ ReadFile(i) \/ ScanFails(i)
SearchNext ==
  \/ ListSearches
  \/ \E i \in Searches :
       \/ SearchBegins(i) \/ SearchRefused(i) \/ Scans(i)
       \/ NextPage(i) \/ StopSearch(i) \/ AgeSearch(i)
       \/ \E t \in Trees, m \in Modes : SearchStarts(i, t, m)

SearchSpec == SearchInit /\ [][SearchNext]_sVars

-------------------------------------------------------------------------------
(* A search that says COMPLETE has found everything: no limit, failure or      *)
(* stop on the way to the end of the tree was passed over.                    *)
Findable(i, entry) == IF mode[i] = "name" THEN IF entry \in {"hit", "two"} THEN 1 ELSE 0 ELSE Rows(entry)
CompleteFindsAll ==
  \A i \in Searches : sState[i] = "COMPLETE" =>
    matched[i] = Cardinality({k \in DOMAIN tree[i] : Findable(i, tree[i][k]) >= 1})
               + Cardinality({k \in DOMAIN tree[i] : Findable(i, tree[i][k]) = 2})

(* An owner who was told that nothing more is coming (neither waiting nor      *)
(* moreAvailable, of a search nobody stopped) was told the truth: matches and  *)
(* outcome stay as they were.                                                 *)
LastPageIsLast ==
  [][\A i \in told : matched'[i] = matched[i] /\ sState'[i] = sState[i]]_sVars
===============================================================================
