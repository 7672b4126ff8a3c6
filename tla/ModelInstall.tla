------------------------------ MODULE ModelInstall ------------------------------
(***************************************************************************)
(* The phone's local model (ModelRuntime.kt, InferenceGuard.kt): downloads  *)
(* that may run at the same time share one .part file, and an inference     *)
(* verifies the installed file and then opens it again by name.  A file     *)
(* keeps its identity when it is renamed or unlinked while it is written.   *)
(***************************************************************************)
EXTENDS Naturals

CONSTANTS
  Downloads,     \* calls of download
  MaxFiles       \* bound of the model

ASSUME InstallAssumption == MaxFiles \in Nat \ {0}

Blocks == {1, 2}       \* what the model consists of
NoFile == 0

VARIABLES
  part, final,   \* the files under the two names
  blocks,        \* the right blocks in each file
  files,         \* files made so far
  load,          \* a download: its place, the file it reads or writes, the copy it makes of it,
                 \* and whether its stream was right so far
  engine,        \* the inference that holds the guard, and what the file it opened was
  passed,        \* the last download wrote its PASS receipt of model.install
  partial,       \* history: copies that are not at their end, or were cut off
  shared         \* history: two downloads were under way at once

store == <<part, final, blocks, files, partial>>
installVars == <<store, load, engine, passed, shared>>

Places == {"idle", "clear", "open", "1", "2", "check", "replace", "rename",
           "copy1", "copy2", "copied", "record", "installed", "failed"}
InstallTypeOK ==
  /\ part \in 0 .. MaxFiles /\ final \in 0 .. MaxFiles /\ files \in 0 .. MaxFiles
  /\ blocks \in [1 .. MaxFiles -> SUBSET Blocks]
  /\ load \in [Downloads -> [at : Places, file : 0 .. MaxFiles, copy : 0 .. MaxFiles, good : BOOLEAN]]
  /\ engine \in {"idle", "verify", "open", "whole", "partial", "broken"}
  /\ passed \in BOOLEAN /\ shared \in BOOLEAN /\ partial \subseteq 1 .. MaxFiles

InstallInit ==
  /\ part = NoFile /\ final = NoFile /\ files = 0
  /\ blocks = [f \in 1 .. MaxFiles |-> {}]
  /\ load = [d \in Downloads |-> [at |-> "idle", file |-> NoFile, copy |-> NoFile, good |-> TRUE]]
  /\ engine = "idle" /\ passed = FALSE /\ partial = {} /\ shared = FALSE

-------------------------------------------------------------------------------
Under(d) == load[d].at \notin {"idle", "installed", "failed"}
Whole(f) == f # NoFile /\ blocks[f] = Blocks
Moves(d, from, to) == load[d].at = from /\ load' = [load EXCEPT ![d].at = to]

(* A delete need not succeed, and nothing looks whether it did.                  *)
Deleted(name) == {NoFile, name}

(* download: an old .part is deleted, the connection made, a new one opened      *)
(* (or the one that is there emptied).                                        *)
BeginDownload(d) ==
  /\ Moves(d, "idle", "clear")
  /\ shared' = (shared \/ \E e \in Downloads : Under(e))
  /\ passed' = FALSE
  /\ UNCHANGED <<store, engine>>
ClearPart(d) ==
  /\ Moves(d, "clear", "open") /\ part' \in Deleted(part)
  /\ UNCHANGED <<final, blocks, files, engine, passed, partial, shared>>
OpenPart(d) ==
  /\ load[d].at = "open" /\ (part = NoFile => files < MaxFiles)
  /\ LET f == IF part = NoFile THEN files + 1 ELSE part
     IN /\ part' = f /\ files' = IF part = NoFile THEN f ELSE files
        /\ blocks' = [blocks EXCEPT ![f] = {}]
        /\ load' = [load EXCEPT ![d].at = "1", ![d].file = f]
  /\ UNCHANGED <<final, engine, passed, partial, shared>>
(* A block of the stream, right or wrong, goes to the file that was opened; the  *)
(* digest is taken of the stream.                                             *)
Receive(d, b, right) ==
  /\ load[d].at = (IF b = 1 THEN "1" ELSE "2")
  /\ load' = [load EXCEPT ![d].at = IF b = 1 THEN "2" ELSE "check", ![d].good = @ /\ right]
  /\ blocks' = [blocks EXCEPT ![load[d].file] = IF right THEN @ \union {b} ELSE @ \ {b}]
  /\ UNCHANGED <<part, final, files, engine, passed, partial, shared>>
UncheckedStream(d) == TRUE    \* mutant: size and digest are not compared
RightStream(d) == load[d].good
CheckStream(d) ==
  /\ load[d].at = "check"
  /\ IF RightStream(d) THEN Moves(d, "check", "replace") /\ UNCHANGED part
                       ELSE Moves(d, "check", "failed") /\ part' \in Deleted(part)
  /\ UNCHANGED <<final, blocks, files, engine, passed, partial, shared>>
DeleteFinal(d) ==
  /\ Moves(d, "replace", "rename") /\ final' \in Deleted(final)
  /\ UNCHANGED <<part, blocks, files, engine, passed, partial, shared>>
RenamePart(d) ==
  /\ part # NoFile /\ Moves(d, "rename", "record") /\ final' = part /\ part' = NoFile
  /\ UNCHANGED <<blocks, files, engine, passed, partial, shared>>
(* renameTo answers false, for whatever reason: copyTo makes a file of its own     *)
(* under the installed name, and fills it from the .part while others can see it.  *)
CopyPart(d) ==
  /\ load[d].at = "rename" /\ part # NoFile /\ files < MaxFiles
  /\ files' = files + 1 /\ final' = files' /\ partial' = partial \union {files'}
  /\ load' = [load EXCEPT ![d].at = "copy1", ![d].file = part, ![d].copy = files']
  /\ UNCHANGED <<part, blocks, engine, passed, shared>>
CopyBlock(d, b) ==
  /\ load[d].at = (IF b = 1 THEN "copy1" ELSE "copy2")
  /\ load' = [load EXCEPT ![d].at = IF b = 1 THEN "copy2" ELSE "copied"]
  /\ blocks' = [blocks EXCEPT ![load[d].copy] = @ \union ({b} \intersect blocks[load[d].file])]
  /\ partial' = IF b = 2 THEN partial \ {load[d].copy} ELSE partial
  /\ UNCHANGED <<part, final, files, engine, passed, shared>>
DeletePart(d) ==
  /\ Moves(d, "copied", "record") /\ part' \in Deleted(part)
  /\ UNCHANGED <<final, blocks, files, engine, passed, partial, shared>>
RecordInstall(d) ==
  /\ Moves(d, "record", "installed") /\ passed' = TRUE
  /\ UNCHANGED <<store, engine, shared>>
(* The connection, the stream or the copy ends in an exception (the copy also if    *)
(* there is no .part, or the installed name cannot be deleted): the files stay.   *)
DownloadFails(d) ==
  /\ \E at \in {"clear", "open", "1", "2", "rename", "copy1", "copy2"} : Moves(d, at, "failed")
  /\ UNCHANGED <<store, engine, passed, shared>>

(* generateBounded: the guard, status, the engine on the file of that name; the   *)
(* guard is released on every way out.                                        *)
TryAcquire ==
  /\ engine = "idle" /\ engine' = "verify"
  /\ UNCHANGED <<store, load, passed, shared>>
VerifyModel ==
  /\ engine = "verify" /\ engine' = IF Whole(final) THEN "open" ELSE "idle"
  /\ UNCHANGED <<store, load, passed, shared>>
OpenEngine ==
  /\ engine = "open" /\ engine' = CASE final = NoFile -> "idle"
                                    [] Whole(final) -> "whole"
                                    [] final \in partial -> "partial"
                                    [] OTHER -> "broken"
  /\ UNCHANGED <<store, load, passed, shared>>
ReleaseGuard ==
  /\ engine # "idle" /\ engine' = "idle"
  /\ UNCHANGED <<store, load, passed, shared>>
(* The process is killed; what was downloading does not go on.                  *)
RuntimeKilled ==
  /\ engine # "idle" \/ \E d \in Downloads : Under(d)
  /\ load' = [d \in Downloads |-> IF Under(d) THEN [load[d] EXCEPT !.at = "failed"] ELSE load[d]]
  /\ engine' = "idle"
  /\ UNCHANGED <<store, passed, shared>>

InstallNext ==
  \/ TryAcquire \/ VerifyModel \/ OpenEngine \/ ReleaseGuard \/ RuntimeKilled
  \/ \E d \in Downloads :
       \/ BeginDownload(d) \/ ClearPart(d) \/ OpenPart(d) \/ CheckStream(d) \/ DeleteFinal(d) \/ RenamePart(d)
       \/ CopyPart(d) \/ DeletePart(d) \/ RecordInstall(d) \/ DownloadFails(d)
       \/ \E b \in Blocks : CopyBlock(d, b) \/ \E right \in BOOLEAN : Receive(d, b, right)

InstallSpec == InstallInit /\ [][InstallNext]_installVars

-------------------------------------------------------------------------------
(* Downloads that never ran at the same time leave a whole model or none under    *)
(* the installed name, also when they are broken off, are sent wrong bytes or are *)
(* killed, unless a rename failed and the copy made in its stead is under way or   *)
(* was cut off; no engine opens anything else than a whole model or such a copy;   *)
(* and after a PASS receipt the model is whole, however it came there.  (Two that  *)
(* overlap can leave a half-written model with a PASS receipt.)                  *)
LoneInstallsAreWhole ==
  ~shared =>
    /\ final = NoFile \/ Whole(final) \/ final \in partial
    /\ engine # "broken"
    /\ passed => Whole(final)
===============================================================================
