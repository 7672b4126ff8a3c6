------------------------------- MODULE FileMove -------------------------------
(***************************************************************************)
(* Guarded move, exact edit and create-only write of the desktop adapter   *)
(* (apps/desktop/file-parity.mjs), one step per system call that another   *)
(* call or a crash can come before.  Names lead to inodes and inodes to    *)
(* contents; every new content is numbered by the inode it is written to.  *)
(***************************************************************************)
EXTENDS Naturals, FiniteSets

CONSTANTS
  Files,       \* names in the workspace
  Device,      \* the device of each name: link() across devices answers EXDEV
  FileCalls,   \* calls; the temporary file of a call goes by the call's own name
  MaxInodes    \* bound of the model

ASSUME FileAssumption ==
  /\ MaxInodes \in Nat \ {0} /\ Files \cap FileCalls = {} /\ "none" \notin Files
  /\ IsFiniteSet(Files) /\ IsFiniteSet(FileCalls)

Names == Files \union FileCalls
Inodes == 1 .. MaxInodes
None == 0       \* no file under a name; also the content of a file not yet written

VARIABLES
  entry,       \* the inode under each name
  data,        \* the content of each inode
  made,        \* inodes made so far
  fcall,       \* a call: its place, its source and target, the inode it has checked
  written,     \* history: contents that were complete under a name of the workspace
  superseded,  \* history: contents an edit replaced after checking their digest
  overtaken,   \* history: contents of a file that took a name after a call's last look at it
  misled       \* history: calls whose link() found another file than the one they had checked

disk == <<entry, data, made>>
history == <<written, superseded, overtaken, misled>>
fileVars == <<disk, fcall, history>>

Unstarted == [at |-> "idle", from |-> "none", to |-> "none", ino |-> None]

FilePlaces ==
  {"idle", "link", "linked", "looked", "unlink", "moved", "copy", "copying", "copied", "place", "placed",
   "drop", "dropped", "staging", "staged", "rename", "edited", "filling", "created", "failed", "reconcile", "dead"}
FileCall ==
  [at : FilePlaces, from : Files \union {"none"}, to : Files \union {"none"}, ino : Inodes \union {None}]
FileTypeOK ==
  /\ entry \in [Names -> Inodes \union {None}]
  /\ data \in [Inodes -> Inodes \union {None}]
  /\ made \in 0 .. MaxInodes
  /\ fcall \in [FileCalls -> FileCall]
  /\ written \subseteq Inodes /\ superseded \subseteq Inodes /\ overtaken \subseteq Inodes \union {None}
  /\ misled \subseteq FileCalls

FileInit ==
  /\ \E n \in Files : entry = [x \in Names |-> IF x = n THEN 1 ELSE None]
  /\ data = [i \in Inodes |-> IF i = 1 THEN 1 ELSE None]
  /\ made = 1 /\ written = {1} /\ superseded = {} /\ overtaken = {} /\ misled = {}
  /\ fcall = [c \in FileCalls |-> Unstarted]

-------------------------------------------------------------------------------
Links(i) == Cardinality({n \in Names : entry[n] = i})
(* checkedFile and checkedDigest: a complete file with a single name.         *)
Ready(n) == entry[n] # None /\ Links(entry[n]) = 1 /\ data[entry[n]] # None
Unchanged(c) == Ready(fcall[c].from) /\ entry[fcall[c].from] = fcall[c].ino

Goes(c, from, ok, to, otherwise) ==
  /\ fcall[c].at = from
  /\ fcall' = [fcall EXCEPT ![c].at = IF ok THEN to ELSE otherwise]
Looks(c, from, ok, to, otherwise) ==
  Goes(c, from, ok, to, otherwise) /\ UNCHANGED <<disk, history>>
(* An exclusive creation under a name: 'wx'.                                  *)
Opens(n) ==
  /\ made < MaxInodes /\ made' = made + 1
  /\ entry' = [entry EXCEPT ![n] = made + 1]
  /\ UNCHANGED data
Writes(n, content) == data' = [data EXCEPT ![entry[n]] = content] /\ UNCHANGED <<entry, made>>

(* A name is taken away from whatever file is under it now.                    *)
Displaces(c) ==
  LET i == entry[fcall[c].from]
  IN overtaken' = IF i = None \/ (i = fcall[c].ino /\ c \notin misled) THEN overtaken
                  ELSE overtaken \union {data[i]}

(* guardedMove, up to its link.                                               *)
BeginMove(c, n, t) ==
  /\ fcall[c].at = "idle" /\ n # t /\ Ready(n)
  /\ fcall' = [fcall EXCEPT ![c] = [at |-> "link", from |-> n, to |-> t, ino |-> entry[n]]]
  /\ UNCHANGED <<disk, history>>
ReplacesTarget(t) == TRUE   \* mutant: rename() instead of link()
Vacant(t) == entry[t] = None
LinkSource(c) ==
  LET s == fcall[c].from  t == fcall[c].to
      linkable == Vacant(t) /\ entry[s] # None
  IN /\ Goes(c, "link", linkable, IF Device[s] = Device[t] THEN "linked" ELSE "copy", "failed")
     /\ entry' = IF linkable /\ Device[s] = Device[t] THEN [entry EXCEPT ![t] = entry[s]] ELSE entry
     /\ misled' = IF entry[s] \in {None, fcall[c].ino} THEN misled ELSE misled \union {c}
     /\ UNCHANGED <<data, made, written, superseded, overtaken>>
LookAtTarget(c) ==
  Looks(c, "linked", entry[fcall[c].to] = fcall[c].ino /\ Links(fcall[c].ino) = 2, "looked", "reconcile")
LookAtSource(c) ==
  Looks(c, "looked", entry[fcall[c].from] = fcall[c].ino /\ Links(fcall[c].ino) = 2, "unlink", "reconcile")
UnlinkSource(c) ==
  /\ Goes(c, "unlink", entry[fcall[c].from] # None, "moved", "reconcile")
  /\ Displaces(c)
  /\ entry' = [entry EXCEPT ![fcall[c].from] = None]
  /\ UNCHANGED <<data, made, written, superseded, misled>>

(* copyAndCommitMove: the copy is staged beside the target.                    *)
OpenCopy(c) ==
  /\ Goes(c, "copy", Unchanged(c), "copying", "failed")
  /\ IF Unchanged(c) THEN Opens(c) ELSE UNCHANGED disk
  /\ UNCHANGED history
FillCopy(c) ==
  /\ Goes(c, "copying", TRUE, "copied", "failed")
  /\ Writes(c, data[fcall[c].ino])
  /\ UNCHANGED history
CheckCopied(c) == Looks(c, "copied", Unchanged(c), "place", "failed")
PlaceCopy(c) ==
  LET t == fcall[c].to
  IN /\ Goes(c, "place", Vacant(t), "placed", "failed")
     /\ entry' = IF Vacant(t) THEN [entry EXCEPT ![t] = entry[c]] ELSE entry
     /\ UNCHANGED <<data, made, history>>
CheckPlaced(c) ==
  Looks(c, "placed", entry[fcall[c].to] = entry[c] /\ Links(entry[c]) = 2, "drop", "reconcile")
DropStaging(c) ==
  /\ Goes(c, "drop", TRUE, "dropped", "reconcile")
  /\ entry' = [entry EXCEPT ![c] = None]
  /\ UNCHANGED <<data, made, history>>
CheckSource(c) == Looks(c, "dropped", Unchanged(c), "unlink", "reconcile")

(* exactEdit: the new text is staged, the source looked at again and replaced.  *)
BeginEdit(c, n) ==
  /\ fcall[c].at = "idle" /\ Ready(n)
  /\ fcall' = [fcall EXCEPT ![c] = [at |-> "staging", from |-> n, to |-> n, ino |-> entry[n]]]
  /\ Opens(c)
  /\ UNCHANGED history
FillEdit(c) ==
  /\ Goes(c, "staging", TRUE, "staged", "failed")
  /\ Writes(c, entry[c])
  /\ UNCHANGED history
CheckEdited(c) == Looks(c, "staged", Unchanged(c), "rename", "failed")
RenameEdit(c) ==
  LET n == fcall[c].from
  IN /\ Goes(c, "rename", TRUE, "edited", "failed")
     /\ Displaces(c)
     /\ superseded' = superseded \union {data[fcall[c].ino]}
     /\ written' = written \union {data[entry[c]]}
     /\ entry' = [entry EXCEPT ![n] = entry[c], ![c] = None]
     /\ UNCHANGED <<data, made, misled>>

(* binaryCreate and device.files.write.                                       *)
BeginCreate(c, n) ==
  /\ fcall[c].at = "idle" /\ Vacant(n)
  /\ fcall' = [fcall EXCEPT ![c] = [at |-> "filling", from |-> n, to |-> n, ino |-> made + 1]]
  /\ Opens(n)
  /\ UNCHANGED history
FillCreated(c) ==
  LET i == fcall[c].ino
  IN /\ Goes(c, "filling", TRUE, "created", "failed")
     /\ data' = [data EXCEPT ![i] = i]
     /\ written' = IF \E n \in Files : entry[n] = i THEN written \union {i} ELSE written
     /\ UNCHANGED <<entry, made, superseded, overtaken, misled>>

(* A call of the system fails; a call that failed removes its staging file; the *)
(* adapter dies, and with it every call.                                      *)
Over == {"idle", "moved", "edited", "created", "failed", "reconcile", "dead"}
CallFails(c) ==
  /\ fcall[c].at \notin Over
  /\ Looks(c, fcall[c].at, fcall[c].at \in {"linked", "looked", "placed", "drop", "dropped", "unlink"},
           "reconcile", "failed")
RemoveStaging(c) ==
  /\ fcall[c].at \in {"failed", "reconcile"} /\ entry[c] # None
  /\ entry' = [entry EXCEPT ![c] = None]
  /\ UNCHANGED <<data, made, fcall, history>>
FilesCrash ==
  /\ \E c \in FileCalls : fcall[c].at \notin Over
  /\ fcall' = [c \in FileCalls |-> IF fcall[c].at = "idle" THEN Unstarted ELSE [fcall[c] EXCEPT !.at = "dead"]]
  /\ UNCHANGED <<disk, history>>

MoveStep(c) ==
  \/ LinkSource(c) \/ LookAtTarget(c) \/ LookAtSource(c) \/ UnlinkSource(c)
  \/ OpenCopy(c) \/ FillCopy(c) \/ CheckCopied(c) \/ PlaceCopy(c) \/ CheckPlaced(c)
  \/ DropStaging(c) \/ CheckSource(c)
FileNext ==
  \/ FilesCrash
  \/ \E c \in FileCalls :
       \/ MoveStep(c) \/ FillEdit(c) \/ CheckEdited(c) \/ RenameEdit(c) \/ FillCreated(c)
       \/ CallFails(c) \/ RemoveStaging(c)
       \/ \E n \in Files : BeginEdit(c, n) \/ BeginCreate(c, n) \/ \E t \in Files : BeginMove(c, n, t)

FileSpec == FileInit /\ [][FileNext]_fileVars

-------------------------------------------------------------------------------
(* No content vanishes: whatever was complete under a name still is under one, *)
(* unless an edit replaced it, knowing its digest, or it came under a name      *)
(* between a call's last look at that name and the call's unlink or rename, or *)
(* back under the names of a move that had linked another file in between      *)
(* (guardedMove compares inodes, and those agree again).                       *)
(* Failures, crashes, copies across devices and several moves of one file      *)
(* lose nothing.                                                              *)
NothingLost ==
  written \subseteq superseded \union overtaken \union {data[entry[n]] : n \in {x \in Files : entry[x] # None}}
===============================================================================
