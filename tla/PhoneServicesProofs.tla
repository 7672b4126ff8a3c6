-------------------------- MODULE PhoneServicesProofs --------------------------
(***************************************************************************)
(* Theorems about the services of the phones: the owner's bootstrap nonce,  *)
(* the installation of the model, the Pocket command lease, the relay        *)
(* command path, the workstation worker and the read-aloud host; for any     *)
(* number of nonces, workers, downloads, commands, threads, instances,       *)
(* connections, requests and streams; at last all of them side by side.       *)
(***************************************************************************)
EXTENDS MCPhoneServices, SequenceTheorems, TLAPS

-------------------------------------------------------------------------------
(* The bootstrap nonce.  As long as a nonce is armed, or was read by the worker    *)
(* that holds the lock, it was armed more often than it was handed out.            *)
Owed(n) == handed[n] < arms[n]
OwedInv ==
  /\ \A n \in Nonces : handed[n] <= arms[n]
  /\ \A n \in Nonces \ {NoNonce} :
       (nonce = n \/ \E w \in Workers : worker[w].at = "locked" /\ worker[w].expected = n) => Owed(n)
  /\ \A v, w \in Workers : worker[v].at = "locked" /\ worker[w].at = "locked" => v = w

BootInv == BootTypeOK /\ OwedInv

(* Every initial state satisfies the invariant. *)
LEMMA BootInitInv == BootInit => BootInv
  BY DEF BootInit, BootInv, BootTypeOK, OwedInv, NoNonce, Owed

(* Every step keeps the invariant. *)
LEMMA BootNextInv == BootInv /\ [BootNext]_bootVars => BootInv'
<1> SUFFICES ASSUME BootInv, [BootNext]_bootVars PROVE BootInv'
  OBVIOUS
<1> USE DEF BootInv, BootTypeOK, OwedInv, Owed
<1>1. CASE StopServer
  BY <1>1 DEF StopServer
<1>2. CASE Date
  BY <1>2 DEF Date
<1>3. CASE Expires
  BY <1>3 DEF Expires
<1>4. ASSUME NEW n \in Nonces, Arm(n) PROVE BootInv'
  BY <1>4 DEF Arm, Starts
<1>5. ASSUME NEW w \in Workers, StartServer(w) PROVE BootInv'
  BY <1>5 DEF StartServer, Starts
<1>6. ASSUME NEW w \in Workers, Respond(w) PROVE BootInv'
  BY <1>6 DEF Respond, Done
<1>7. ASSUME NEW w \in Workers, ReadNonce(w) PROVE BootInv'
  BY <1>7 DEF ReadNonce, Locks
<1>8. ASSUME NEW w \in Workers, NotArmed(w) PROVE BootInv'
  BY <1>8 DEF NotArmed, Done
<1>9. ASSUME NEW w \in Workers, Mismatch(w) PROVE BootInv'
  BY <1>9 DEF Mismatch, Done
<1>10. ASSUME NEW w \in Workers, HandToken(w) PROVE BootInv'
  BY <1>10 DEF HandToken, Done
<1>11. ASSUME NEW w \in Workers, NEW n \in Nonces \union {NoNonce}, AcceptRequest(w, n) PROVE BootInv'
  BY <1>11 DEF AcceptRequest
<1>12. CASE UNCHANGED bootVars
  BY <1>12 DEF bootVars
<1> QED
  BY <1>1, <1>2, <1>3, <1>4, <1>5, <1>6, <1>7, <1>8, <1>9, <1>10, <1>11, <1>12 DEF BootNext

(* The pairing token is handed out at most once for each time a nonce is armed     *)
(* (OwnerBootstrap), for any number of workers, nonces and arms.                   *)
THEOREM HandedTheorem == BootSpec => []HandedOncePerArm
<1>1. BootInv => HandedOncePerArm
  BY DEF BootInv, OwedInv, HandedOncePerArm
<1> QED
  BY <1>1, BootInitInv, BootNextInv, PTL DEF BootSpec

-------------------------------------------------------------------------------
(* The model.  While no two downloads overlap, at most one is under way; the file  *)
(* it writes has the .part name and not the installed one, and it holds what the    *)
(* stream has brought as long as the stream was right; a copy of it is a file of     *)
(* its own under the installed name, and has what was copied so far.               *)
LoadOf == [at : Places, file : 0 .. MaxFiles, copy : 0 .. MaxFiles, good : BOOLEAN]
Ended == {"idle", "installed", "failed"}
AtPlace(l, p, g, held) ==
  /\ l.at \in {"1", "2", "check", "replace", "rename", "copy1", "copy2"} => l.file = p /\ p # NoFile
  /\ l.at = "2" /\ l.good => 1 \in held[p]
  /\ l.at = "check" /\ l.good => held[p] = Blocks
  /\ l.at \in {"replace", "rename", "copy1", "copy2"} => held[p] = Blocks
  /\ l.at \in {"copy1", "copy2"} => l.copy = g /\ g # NoFile
  /\ l.at = "copy2" => 1 \in held[g]
  /\ l.at \in {"copied", "record"} => g # NoFile /\ held[g] = Blocks
AtMostOne == \A d, e \in Downloads : load[d].at \notin Ended /\ load[e].at \notin Ended => d = e
NamesInv == part <= files /\ final <= files /\ (part = final => part = NoFile)
FinalInv == final = NoFile \/ blocks[final] = Blocks \/ final \in partial
PassedInv == passed => /\ final # NoFile /\ blocks[final] = Blocks
                       /\ \A d \in Downloads : load[d].at \in Ended
StoreTypes ==
  /\ part \in 0 .. MaxFiles /\ final \in 0 .. MaxFiles /\ files \in 0 .. MaxFiles
  /\ blocks \in [1 .. MaxFiles -> SUBSET Blocks] /\ partial \subseteq 1 .. MaxFiles
LoadTypes == load \in [Downloads -> LoadOf]
LoneInv ==
  /\ AtMostOne /\ NamesInv /\ FinalInv /\ PassedInv /\ engine # "broken"
  /\ \A d \in Downloads : AtPlace(load[d], part, final, blocks)

InstallInv == StoreTypes /\ LoadTypes /\ (~shared => LoneInv)

(* A download that moves to another place. *)
LEMMA LoadMoves ==
  ASSUME NEW l \in LoadOf, NEW to \in Places
  PROVE  LET m == [l EXCEPT !.at = to]
         IN m \in LoadOf /\ m.at = to /\ m.file = l.file /\ m.copy = l.copy /\ m.good = l.good
  BY DEF LoadOf

(* A step of one download keeps the types; in a behaviour without overlap no other   *)
(* is under way, so that what is said of downloads has to be shown of this one.      *)
LEMMA OneStep ==
  ASSUME LoadTypes, NEW d \in Downloads, NEW l \in LoadOf, load[d].at \notin Ended,
         load' = [load EXCEPT ![d] = l]
  PROVE  /\ LoadTypes'
         /\ AtMostOne => AtMostOne'
         /\ AtMostOne /\ AtPlace(l, part', final', blocks') => \A e \in Downloads : AtPlace(load'[e], part', final', blocks')
<1>1. \A e \in Downloads : load'[e] = IF e = d THEN l ELSE load[e]
  BY DEF LoadTypes
<1>2. LoadTypes'
  BY DEF LoadTypes
<1>3. ASSUME AtMostOne PROVE \A e \in Downloads \ {d} : load'[e].at \in Ended
  BY <1>1, <1>3 DEF AtMostOne
<1>4. AtMostOne => AtMostOne'
  BY <1>1, <1>3 DEF AtMostOne
<1>5. AtMostOne => \A e \in Downloads \ {d} : AtPlace(load'[e], part', final', blocks')
  BY <1>3 DEF AtPlace, Ended
<1> QED
  BY <1>1, <1>2, <1>4, <1>5

(* What passed was the last download, and none is under way since.                  *)
LEMMA NotPassed ==
  ASSUME LoneInv, NEW d \in Downloads, load[d].at \notin Ended PROVE ~passed
  BY DEF LoneInv, PassedInv

(* The moves of a download that only change its place. *)
LEMMA MovesStep ==
  ASSUME LoadTypes, NEW d \in Downloads, NEW from \in Places \ Ended, NEW to \in Places, Moves(d, from, to)
  PROVE  /\ LoadTypes'
         /\ AtMostOne => AtMostOne'
         /\ AtMostOne /\ AtPlace([load[d] EXCEPT !.at = to], part', final', blocks') =>
              \A e \in Downloads : AtPlace(load'[e], part', final', blocks')
<1> DEFINE l == [load[d] EXCEPT !.at = to]
<1>1. load' = [load EXCEPT ![d] = l] /\ load[d].at \notin Ended
  BY DEF Moves, LoadTypes
<1>2. l \in LoadOf
  BY LoadMoves DEF LoadTypes
<1> QED
  BY <1>1, <1>2, OneStep

(* Every initial state satisfies the invariant. *)
LEMMA InstallInitInv == InstallInit => InstallInv
<1> SUFFICES ASSUME InstallInit PROVE InstallInv
  OBVIOUS
<1>1. StoreTypes
  BY InstallAssumption DEF InstallInit, StoreTypes, NoFile
<1>2. LoadTypes
  BY InstallAssumption DEF InstallInit, LoadTypes, LoadOf, Places, NoFile
<1>3. \A d \in Downloads : load[d].at = "idle"
  BY DEF InstallInit
<1>4. LoneInv
  BY <1>3 DEF InstallInit, LoneInv, AtMostOne, NamesInv, FinalInv, PassedInv, AtPlace, Ended, NoFile
<1> QED
  BY <1>1, <1>2, <1>4 DEF InstallInv

(* Every step keeps the invariant. *)
LEMMA InstallNextInv == InstallInv /\ [InstallNext]_installVars => InstallInv'
<1> SUFFICES ASSUME InstallInv, [InstallNext]_installVars PROVE InstallInv'
  OBVIOUS
<1> USE DEF InstallInv
<1>1. CASE TryAcquire \/ VerifyModel \/ OpenEngine \/ ReleaseGuard \/ UNCHANGED installVars
  <2>1. UNCHANGED <<part, final, blocks, files, partial, load, passed, shared>>
    BY <1>1 DEF TryAcquire, VerifyModel, OpenEngine, ReleaseGuard, installVars, store
  <2>2. LoneInv => engine' # "broken"
    BY <1>1 DEF TryAcquire, VerifyModel, OpenEngine, ReleaseGuard, installVars, Whole, LoneInv, FinalInv
  <2>3. LoneInv => AtMostOne' /\ NamesInv' /\ FinalInv' /\ PassedInv'
    BY <2>1 DEF LoneInv, AtMostOne, NamesInv, FinalInv, PassedInv
  <2>4. LoneInv => \A d \in Downloads : AtPlace(load'[d], part', final', blocks')
    BY <2>1 DEF LoneInv
  <2> QED
    BY <2>1, <2>2, <2>3, <2>4 DEF StoreTypes, LoadTypes, LoneInv
<1>2. CASE RuntimeKilled
  <2>1. \A d \in Downloads : load'[d].at \in Ended
    BY <1>2 DEF RuntimeKilled, Under, Ended
  <2>2. LoadTypes'
    <3>1. ASSUME NEW d \in Downloads PROVE [load[d] EXCEPT !.at = "failed"] \in LoadOf
      BY LoadMoves DEF LoadTypes, Places
    <3> QED
      BY <1>2, <3>1 DEF RuntimeKilled, LoadTypes
  <2>3. UNCHANGED <<part, final, blocks, files, partial, passed, shared>> /\ engine' = "idle"
    BY <1>2 DEF RuntimeKilled, store
  <2>4. AtMostOne' /\ \A d \in Downloads : AtPlace(load'[d], part', final', blocks')
    BY <2>1 DEF AtMostOne, AtPlace, Ended
  <2>5. LoneInv => PassedInv'
    BY <2>1, <2>3 DEF LoneInv, PassedInv
  <2> QED
    BY <2>2, <2>3, <2>4, <2>5 DEF StoreTypes, LoneInv, NamesInv, FinalInv
<1>3. ASSUME NEW d \in Downloads, BeginDownload(d) PROVE InstallInv'
  <2> DEFINE l == [load[d] EXCEPT !.at = "clear"]
  <2>1. load' = [load EXCEPT ![d] = l] /\ UNCHANGED <<part, final, blocks, files, partial, engine>> /\ ~passed'
    BY <1>3 DEF BeginDownload, Moves, LoadTypes, store
  <2>2. l \in LoadOf /\ l.at = "clear"
    <3>1. load[d] \in LoadOf /\ "clear" \in Places
      BY DEF LoadTypes, Places
    <3> QED
      BY <3>1, LoadMoves
  <2> HIDE DEF l
  <2>3. ASSUME ~shared' PROVE ~shared /\ \A e \in Downloads : load[e].at \in Ended
    BY <1>3, <2>3 DEF BeginDownload, Under, Ended
  <2>4. LoadTypes'
    BY <2>1, <2>2 DEF LoadTypes
  <2>5. ASSUME ~shared' PROVE AtMostOne'
    BY <2>1, <2>2, <2>3, <2>5 DEF AtMostOne, LoadTypes
  <2>6. ASSUME ~shared' PROVE \A e \in Downloads : AtPlace(load'[e], part', final', blocks')
    BY <2>1, <2>2, <2>3, <2>6 DEF AtPlace, LoadTypes, Ended
  <2>7. PassedInv'
    BY <2>1 DEF PassedInv
  <2> QED
    BY <2>1, <2>3, <2>4, <2>5, <2>6, <2>7 DEF StoreTypes, LoneInv, NamesInv, FinalInv
<1>4. ASSUME NEW d \in Downloads, ClearPart(d) PROVE InstallInv'
  <2>1. /\ Moves(d, "clear", "open") /\ part' \in {NoFile, part}
        /\ UNCHANGED <<final, blocks, files, partial, engine, passed, shared>>
    BY <1>4 DEF ClearPart, Deleted
  <2>2. AtPlace([load[d] EXCEPT !.at = "open"], part', final', blocks')
    BY LoadMoves DEF AtPlace, LoadTypes, Places
  <2>3. LoadTypes' /\ (LoneInv => AtMostOne' /\ \A e \in Downloads : AtPlace(load'[e], part', final', blocks'))
    BY <2>1, <2>2, MovesStep DEF LoneInv, Places, Ended
  <2>4. StoreTypes'
    BY <2>1, InstallAssumption DEF StoreTypes, NoFile
  <2>5. LoneInv => NamesInv' /\ FinalInv' /\ PassedInv'
    BY <2>1, NotPassed DEF LoneInv, NamesInv, FinalInv, PassedInv, StoreTypes, NoFile, Moves, Ended
  <2> QED
    BY <2>1, <2>3, <2>4, <2>5 DEF LoneInv
<1>5. ASSUME NEW d \in Downloads, OpenPart(d) PROVE InstallInv'
  <2> DEFINE f == IF part = NoFile THEN files + 1 ELSE part
             l == [load[d] EXCEPT !.at = "1", !.file = f]
  <2>1. /\ part' = f /\ files' = (IF part = NoFile THEN f ELSE files)
        /\ blocks' = [blocks EXCEPT ![f] = {}] /\ load[d].at = "open"
        /\ part = NoFile => files < MaxFiles
        /\ UNCHANGED <<final, engine, partial, passed, shared>>
    BY <1>5 DEF OpenPart
  <2>2. load' = [load EXCEPT ![d] = l]
    BY <1>5 DEF OpenPart, LoadTypes
  <2>3. f \in 1 .. MaxFiles /\ files' \in 0 .. MaxFiles /\ files <= files'
        /\ (NamesInv => f <= files' /\ final # f)
    <3>1. CASE part = NoFile
      BY <2>1, <3>1, InstallAssumption DEF StoreTypes, NamesInv, NoFile
    <3>2. CASE part # NoFile
      BY <2>1, <3>2, InstallAssumption DEF StoreTypes, NamesInv, NoFile
    <3> QED
      BY <3>1, <3>2
  <2> HIDE DEF f
  <2>4. l \in LoadOf /\ l.at = "1" /\ l.file = f
    <3>1. load[d] \in LoadOf /\ "1" \in Places
      BY DEF LoadTypes, Places
    <3>2. f \in 0 .. MaxFiles
      BY <2>3, InstallAssumption
    <3> QED
      BY <3>1, <3>2 DEF LoadOf
  <2> HIDE DEF l
  <2>5. StoreTypes'
    BY <2>1, <2>3 DEF StoreTypes
  <2>6. AtPlace(l, part', final', blocks')
    BY <2>1, <2>3, <2>4 DEF AtPlace, NoFile
  <2>7. LoadTypes' /\ (LoneInv => AtMostOne' /\ \A e \in Downloads : AtPlace(load'[e], part', final', blocks'))
    BY <2>1, <2>2, <2>4, <2>6, OneStep DEF LoneInv, Ended
  <2>8. LoneInv => NamesInv' /\ FinalInv'
    BY <2>1, <2>3 DEF LoneInv, NamesInv, FinalInv, StoreTypes, NoFile
  <2>9. LoneInv => PassedInv'
    BY <2>1, NotPassed DEF PassedInv, Ended
  <2> QED
    BY <2>1, <2>5, <2>7, <2>8, <2>9 DEF LoneInv
<1>6. ASSUME NEW d \in Downloads, CheckStream(d) PROVE InstallInv'
  <2>1. UNCHANGED <<final, blocks, files, partial, engine, passed, shared>> /\ load[d].at = "check"
    BY <1>6 DEF CheckStream
  <2>2. LoneInv => PassedInv'
    BY <2>1, NotPassed DEF PassedInv, Ended
  <2>3. CASE load[d].good
    <3>1. Moves(d, "check", "replace") /\ UNCHANGED part
      BY <1>6, <2>3 DEF CheckStream, RightStream
    <3>2. LoneInv => AtPlace([load[d] EXCEPT !.at = "replace"], part', final', blocks')
      BY <2>1, <2>3, <3>1, LoadMoves DEF LoneInv, AtPlace, LoadTypes, Places
    <3>3. LoadTypes' /\ (LoneInv => AtMostOne' /\ \A e \in Downloads : AtPlace(load'[e], part', final', blocks'))
      BY <3>1, <3>2, MovesStep DEF LoneInv, Places, Ended
    <3> QED
      BY <2>1, <2>2, <3>1, <3>3 DEF StoreTypes, LoneInv, NamesInv, FinalInv
  <2>4. CASE ~load[d].good
    <3>1. Moves(d, "check", "failed") /\ part' \in {NoFile, part}
      BY <1>6, <2>4 DEF CheckStream, RightStream, Deleted
    <3>2. AtPlace([load[d] EXCEPT !.at = "failed"], part', final', blocks')
      BY LoadMoves DEF AtPlace, LoadTypes, Places
    <3>3. LoadTypes' /\ (LoneInv => AtMostOne' /\ \A e \in Downloads : AtPlace(load'[e], part', final', blocks'))
      BY <3>1, <3>2, MovesStep DEF LoneInv, Places, Ended
    <3>4. StoreTypes'
      BY <2>1, <3>1, InstallAssumption DEF StoreTypes, NoFile
    <3>5. LoneInv => NamesInv' /\ FinalInv'
      BY <2>1, <3>1 DEF LoneInv, NamesInv, FinalInv, StoreTypes, NoFile
    <3> QED
      BY <2>1, <2>2, <3>3, <3>4, <3>5 DEF LoneInv
  <2> QED
    BY <2>3, <2>4
<1>7. ASSUME NEW d \in Downloads, DeleteFinal(d) PROVE InstallInv'
  <2>1. /\ Moves(d, "replace", "rename") /\ final' \in {NoFile, final}
        /\ UNCHANGED <<part, blocks, files, partial, engine, passed, shared>>
    BY <1>7 DEF DeleteFinal, Deleted
  <2>2. LoneInv => AtPlace([load[d] EXCEPT !.at = "rename"], part', final', blocks')
    <3>1. load[d] \in LoadOf /\ "rename" \in Places /\ load[d].at = "replace"
      BY <2>1 DEF LoadTypes, Places, Moves
    <3>2. LET l == [load[d] EXCEPT !.at = "rename"] IN l.at = "rename" /\ l.file = load[d].file
      BY <3>1, LoadMoves
    <3> QED
      BY <2>1, <3>1, <3>2 DEF LoneInv, AtPlace
  <2>3. LoadTypes' /\ (LoneInv => AtMostOne' /\ \A e \in Downloads : AtPlace(load'[e], part', final', blocks'))
    BY <2>1, <2>2, MovesStep DEF LoneInv, Places, Ended
  <2>4. StoreTypes'
    BY <2>1, InstallAssumption DEF StoreTypes, NoFile
  <2>5. LoneInv => NamesInv' /\ FinalInv' /\ PassedInv'
    BY <2>1, NotPassed DEF LoneInv, NamesInv, FinalInv, PassedInv, StoreTypes, NoFile, Moves, Ended
  <2> QED
    BY <2>1, <2>3, <2>4, <2>5 DEF LoneInv
<1>8. ASSUME NEW d \in Downloads, RenamePart(d) PROVE InstallInv'
  <2>1. /\ part # NoFile /\ Moves(d, "rename", "record") /\ final' = part /\ part' = NoFile
        /\ UNCHANGED <<blocks, files, partial, engine, passed, shared>>
    BY <1>8 DEF RenamePart
  <2>2. LoneInv => blocks[part] = Blocks
    BY <2>1 DEF LoneInv, AtPlace, Moves
  <2>3. LoneInv => AtPlace([load[d] EXCEPT !.at = "record"], part', final', blocks')
    BY <2>1, <2>2, LoadMoves DEF AtPlace, LoadTypes, Places
  <2>4. LoadTypes' /\ (LoneInv => AtMostOne' /\ \A e \in Downloads : AtPlace(load'[e], part', final', blocks'))
    BY <2>1, <2>3, MovesStep DEF LoneInv, Places, Ended
  <2>5. StoreTypes'
    BY <2>1, InstallAssumption DEF StoreTypes, NoFile
  <2>6. LoneInv => NamesInv' /\ FinalInv' /\ PassedInv'
    BY <2>1, <2>2, NotPassed DEF LoneInv, NamesInv, FinalInv, PassedInv, StoreTypes, NoFile, Moves, Ended
  <2> QED
    BY <2>1, <2>4, <2>5, <2>6 DEF LoneInv
<1>9. ASSUME NEW d \in Downloads, DownloadFails(d) PROVE InstallInv'
  <2>1. PICK from \in {"clear", "open", "1", "2", "rename", "copy1", "copy2"} : Moves(d, from, "failed")
    BY <1>9 DEF DownloadFails
  <2>2. UNCHANGED <<part, final, blocks, files, partial, engine, passed, shared>>
    BY <1>9 DEF DownloadFails, store
  <2>3. AtPlace([load[d] EXCEPT !.at = "failed"], part', final', blocks')
    BY LoadMoves DEF AtPlace, LoadTypes, Places
  <2>4. LoadTypes' /\ (LoneInv => AtMostOne' /\ \A e \in Downloads : AtPlace(load'[e], part', final', blocks'))
    BY <2>1, <2>3, MovesStep DEF LoneInv, Places, Ended
  <2>5. LoneInv => PassedInv'
    BY <2>1, <2>2, NotPassed DEF PassedInv, Moves, Ended
  <2> QED
    BY <2>2, <2>4, <2>5 DEF StoreTypes, LoneInv, NamesInv, FinalInv
<1>10. ASSUME NEW d \in Downloads, NEW b \in Blocks, NEW right \in BOOLEAN, Receive(d, b, right)
       PROVE InstallInv'
  <2> DEFINE f == load[d].file
             to == IF b = 1 THEN "2" ELSE "check"
             new == IF right THEN blocks[f] \union {b} ELSE blocks[f] \ {b}
             l == [load[d] EXCEPT !.at = to, !.good = @ /\ right]
  <2>1. /\ load[d].at = (IF b = 1 THEN "1" ELSE "2")
        /\ load' = [load EXCEPT ![d] = l]
        /\ blocks' = [blocks EXCEPT ![f] = new]
        /\ UNCHANGED <<part, final, files, partial, engine, passed, shared>>
    BY <1>10 DEF Receive, LoadTypes
  <2>2. l \in LoadOf /\ l.at = to /\ l.file = f /\ (l.good => right /\ load[d].good)
    BY DEF LoadTypes, LoadOf, Places
  <2>3. LoneInv => f = part /\ f \in 1 .. MaxFiles /\ final # f
    BY <2>1 DEF LoneInv, AtPlace, NamesInv, StoreTypes, NoFile
  <2>4. LoneInv /\ right /\ load[d].good => (to = "2" => 1 \in new) /\ (to = "check" => new = Blocks)
    BY <2>1, <2>3 DEF LoneInv, AtPlace, Blocks, StoreTypes
  <2>5. new \in SUBSET Blocks \/ f \notin 1 .. MaxFiles
    BY DEF StoreTypes
  <2>6. to \in {"2", "check"} /\ load[d].at \notin Ended
    BY <2>1 DEF Ended
  <2> HIDE DEF f, to, new, l
  <2>7. StoreTypes'
    BY <2>1, <2>5 DEF StoreTypes
  <2>8. LoneInv => AtPlace(l, part', final', blocks')
    BY <2>1, <2>2, <2>3, <2>4, <2>6 DEF AtPlace, StoreTypes, NoFile
  <2>9. LoadTypes' /\ (LoneInv => AtMostOne' /\ \A e \in Downloads : AtPlace(load'[e], part', final', blocks'))
    BY <2>1, <2>2, <2>6, <2>8, OneStep DEF LoneInv
  <2>10. LoneInv => NamesInv' /\ FinalInv'
    BY <2>1, <2>3 DEF LoneInv, NamesInv, FinalInv, StoreTypes, NoFile
  <2>11. LoneInv => PassedInv'
    BY <2>1, <2>6, NotPassed DEF PassedInv
  <2> QED
    BY <2>1, <2>7, <2>9, <2>10, <2>11 DEF LoneInv
<1>11. ASSUME NEW d \in Downloads, CopyPart(d) PROVE InstallInv'
  <2> DEFINE g == files + 1
             l == [load[d] EXCEPT !.at = "copy1", !.file = part, !.copy = g]
  <2>1. /\ load[d].at = "rename" /\ part # NoFile /\ files < MaxFiles
        /\ files' = g /\ final' = g /\ partial' = partial \union {g}
        /\ UNCHANGED <<part, blocks, engine, passed, shared>>
    BY <1>11 DEF CopyPart
  <2>2. load' = [load EXCEPT ![d] = l]
    BY <1>11 DEF CopyPart, LoadTypes
  <2>3. g \in 1 .. MaxFiles /\ g \in 0 .. MaxFiles /\ files \in Nat /\ g > files
    BY <2>1, InstallAssumption DEF StoreTypes
  <2> HIDE DEF g
  <2>4. l \in LoadOf /\ l.at = "copy1" /\ l.file = part /\ l.copy = g
    <3>1. load[d] \in LoadOf /\ "copy1" \in Places /\ part \in 0 .. MaxFiles
      BY DEF LoadTypes, Places, StoreTypes
    <3> QED
      BY <2>3, <3>1 DEF LoadOf
  <2> HIDE DEF l
  <2>5. StoreTypes'
    BY <2>1, <2>3 DEF StoreTypes
  <2>6. LoneInv => AtPlace(l, part', final', blocks')
    BY <2>1, <2>3, <2>4 DEF LoneInv, AtPlace, NoFile
  <2>7. LoadTypes' /\ (LoneInv => AtMostOne' /\ \A e \in Downloads : AtPlace(load'[e], part', final', blocks'))
    BY <2>1, <2>2, <2>4, <2>6, OneStep DEF LoneInv, Ended
  <2>8. LoneInv => NamesInv' /\ FinalInv' /\ PassedInv'
    BY <2>1, <2>3, NotPassed DEF LoneInv, NamesInv, FinalInv, PassedInv, StoreTypes, NoFile, Ended
  <2> QED
    BY <2>1, <2>5, <2>7, <2>8 DEF LoneInv
<1>12. ASSUME NEW d \in Downloads, NEW b \in Blocks, CopyBlock(d, b) PROVE InstallInv'
  <2> DEFINE f == load[d].file
             g == load[d].copy
             to == IF b = 1 THEN "copy2" ELSE "copied"
             new == blocks[g] \union ({b} \intersect blocks[f])
             l == [load[d] EXCEPT !.at = to]
  <2>1. /\ load[d].at = (IF b = 1 THEN "copy1" ELSE "copy2")
        /\ load' = [load EXCEPT ![d] = l]
        /\ blocks' = [blocks EXCEPT ![g] = new]
        /\ partial' = IF b = 2 THEN partial \ {g} ELSE partial
        /\ UNCHANGED <<part, final, files, engine, passed, shared>>
    BY <1>12 DEF CopyBlock, LoadTypes
  <2>2. l \in LoadOf /\ l.at = to /\ l.file = f /\ l.copy = g
    <3>1. load[d] \in LoadOf /\ to \in Places
      BY DEF LoadTypes, Places
    <3> QED
      BY <3>1, LoadMoves
  <2>3. LoneInv => f = part /\ part # NoFile /\ g = final /\ g \in 1 .. MaxFiles /\ g # part /\ blocks[f] = Blocks
    BY <2>1 DEF LoneInv, AtPlace, NamesInv, StoreTypes, NoFile
  <2>4. LoneInv => b \in new /\ (b = 2 => new = Blocks)
    <3>1. CASE b = 1
      BY <2>3, <3>1 DEF Blocks
    <3>2. CASE b = 2
      <4>1. LoneInv => 1 \in blocks[g] /\ blocks[g] \subseteq Blocks
        BY <2>1, <2>3, <3>2 DEF LoneInv, AtPlace, StoreTypes
      <4> QED
        BY <2>3, <3>2, <4>1 DEF Blocks
    <3> QED
      BY <3>1, <3>2 DEF Blocks
  <2>5. new \in SUBSET Blocks \/ g \notin 1 .. MaxFiles
    BY DEF StoreTypes
  <2>6. /\ load[d].at \notin Ended
        /\ (b = 1 /\ to = "copy2") \/ (b = 2 /\ to = "copied")
    BY <2>1 DEF Ended, Blocks
  <2> HIDE DEF f, g, to, new, l
  <2>7. StoreTypes'
    BY <2>1, <2>5 DEF StoreTypes
  <2>8. LoneInv => blocks'[g] = new /\ blocks'[part] = Blocks
    BY <2>1, <2>3 DEF StoreTypes
  <2>9. LoneInv => AtPlace(l, part', final', blocks')
    BY <2>1, <2>2, <2>3, <2>4, <2>6, <2>8 DEF AtPlace, NoFile
  <2>10. LoadTypes' /\ (LoneInv => AtMostOne' /\ \A e \in Downloads : AtPlace(load'[e], part', final', blocks'))
    BY <2>1, <2>2, <2>6, <2>9, OneStep DEF LoneInv
  <2>11. LoneInv => NamesInv' /\ PassedInv'
    BY <2>1, <2>6, NotPassed DEF LoneInv, NamesInv, PassedInv
  <2>12. LoneInv => FinalInv'
    <3>1. CASE b = 2
      BY <2>3, <2>4, <2>8, <2>1, <3>1 DEF FinalInv
    <3>2. CASE b = 1
      <4>1. LoneInv => final \in partial \/ blocks[final] = Blocks
        BY <2>3 DEF LoneInv, FinalInv, NoFile
      <4>2. LoneInv /\ blocks[final] = Blocks => new = Blocks
        BY <2>3, <3>2 DEF new, Blocks
      <4> QED
        BY <2>1, <2>3, <2>8, <3>2, <4>1, <4>2 DEF FinalInv
    <3> QED
      BY <2>6, <3>1, <3>2
  <2> QED
    BY <2>1, <2>7, <2>10, <2>11, <2>12 DEF LoneInv
<1>13. ASSUME NEW d \in Downloads, DeletePart(d) PROVE InstallInv'
  <2>1. /\ Moves(d, "copied", "record") /\ part' \in {NoFile, part}
        /\ UNCHANGED <<final, blocks, files, partial, engine, passed, shared>>
    BY <1>13 DEF DeletePart, Deleted
  <2>2. LoneInv => final # NoFile /\ blocks[final] = Blocks
    BY <2>1 DEF LoneInv, AtPlace, Moves
  <2>3. LoneInv => AtPlace([load[d] EXCEPT !.at = "record"], part', final', blocks')
    BY <2>1, <2>2, LoadMoves DEF AtPlace, LoadTypes, Places
  <2>4. LoadTypes' /\ (LoneInv => AtMostOne' /\ \A e \in Downloads : AtPlace(load'[e], part', final', blocks'))
    BY <2>1, <2>3, MovesStep DEF LoneInv, Places, Ended
  <2>5. StoreTypes'
    BY <2>1, InstallAssumption DEF StoreTypes, NoFile
  <2>6. LoneInv => NamesInv' /\ FinalInv' /\ PassedInv'
    BY <2>1, NotPassed DEF LoneInv, NamesInv, FinalInv, PassedInv, StoreTypes, NoFile, Moves, Ended
  <2> QED
    BY <2>1, <2>4, <2>5, <2>6 DEF LoneInv
<1>14. ASSUME NEW d \in Downloads, RecordInstall(d) PROVE InstallInv'
  <2>1. /\ Moves(d, "record", "installed") /\ passed'
        /\ UNCHANGED <<part, final, blocks, files, partial, engine, shared>>
    BY <1>14 DEF RecordInstall, store
  <2>2. LoneInv => final # NoFile /\ blocks[final] = Blocks
    BY <2>1 DEF LoneInv, AtPlace, Moves
  <2>3. AtPlace([load[d] EXCEPT !.at = "installed"], part', final', blocks')
    BY LoadMoves DEF AtPlace, LoadTypes, Places
  <2>4. LoadTypes' /\ (LoneInv => AtMostOne' /\ \A e \in Downloads : AtPlace(load'[e], part', final', blocks'))
    BY <2>1, <2>3, MovesStep DEF LoneInv, Places, Ended
  <2>5. LoneInv => \A e \in Downloads : load'[e].at \in Ended
    <3>1. load[d].at \notin Ended /\ load'[d].at = "installed" /\ \A e \in Downloads \ {d} : load'[e] = load[e]
      BY <2>1 DEF Moves, Ended, LoadTypes, LoadOf
    <3> QED
      BY <3>1 DEF LoneInv, AtMostOne, Ended
  <2>6. LoneInv => PassedInv'
    BY <2>1, <2>2, <2>5 DEF PassedInv
  <2> QED
    BY <2>1, <2>4, <2>6 DEF StoreTypes, LoneInv, NamesInv, FinalInv
<1> QED
  BY <1>1, <1>2, <1>3, <1>4, <1>5, <1>6, <1>7, <1>8, <1>9, <1>10, <1>11, <1>12, <1>13, <1>14
     DEF InstallNext

(* Downloads that never ran at the same time leave a whole model, none, or a copy that *)
(* is not at its end under the installed name; no engine opens anything else; and after *)
(* a PASS receipt the model is whole (ModelInstall): for any number of downloads that   *)
(* are broken off, sent wrong bytes or killed, and deletes and renames that fail.      *)
THEOREM LoneInstallTheorem == InstallSpec => []LoneInstallsAreWhole
<1>1. InstallInv => LoneInstallsAreWhole
  BY DEF InstallInv, LoneInv, FinalInv, PassedInv, LoneInstallsAreWhole, Whole
<1> QED
  BY <1>1, InstallInitInv, InstallNextInv, PTL DEF InstallSpec

-------------------------------------------------------------------------------
(* The Pocket lease.  A command that acted, or that the lane carries out, is known  *)
(* to its instance, which has it in seen or gave it up; and as long as the action  *)
(* of a command that was not given up is still to come, it has not acted.           *)
Known(o, g) == o \in SeenIn(g) \union forgotten[g]
LanePlaces == {"idle", "look", "plan", "act", "acting", "verify", "over"}
LaneOf == [at : LanePlaces, id : Orders \union {"none"}]
Toward == {"look", "plan", "act", "acting"}
PocketTypes ==
  /\ seenIds \in [Services -> Seq(Orders)]
  /\ lane \in [Services -> LaneOf]
  /\ \A g \in Services : lane[g].at # "idle" => lane[g].id \in Orders
  /\ leased = {g \in Services : lane[g].at # "idle"}
  /\ forgotten \in [Services -> SUBSET Orders]
  /\ acted \in [Orders -> [Services -> Nat]]
KnownInv ==
  \A g \in Services :
    /\ \A o \in Orders : acted[o][g] > 0 => Known(o, g)
    /\ lane[g].at # "idle" => Known(lane[g].id, g)
    /\ lane[g].at \in Toward /\ lane[g].id \notin forgotten[g] => acted[lane[g].id][g] = 0
PocketInv == PocketTypes /\ KnownInv /\ ActsOnce

(* Every initial state satisfies the invariant. *)
LEMMA PocketInitInv == PocketInit => PocketInv
<1> SUFFICES ASSUME PocketInit PROVE PocketInv
  OBVIOUS
<1>1. PocketTypes
  BY DEF PocketInit, PocketTypes, LaneOf, LanePlaces, NoOrder
<1>2. \A g \in Services, o \in Orders : acted[o][g] = 0 /\ lane[g].at = "idle"
  BY DEF PocketInit, NoOrder
<1>3. \A g \in Services : lane[g].at = "idle"
  BY DEF PocketInit, NoOrder
<1>4. KnownInv /\ ActsOnce
  BY <1>2, <1>3 DEF KnownInv, ActsOnce, Toward
<1> QED
  BY <1>1, <1>4 DEF PocketInv

(* What a step says of the ids an instance knows, and of what it carries out, is all *)
(* the invariant depends on.                                                   *)
LEMMA SameIds ==
  ASSUME UNCHANGED <<seenIds, forgotten>>
  PROVE  \A g \in Services : SeenIn(g)' = SeenIn(g) /\ forgotten'[g] = forgotten[g]
  BY DEF SeenIn

(* Taking a command adds its id to what the instance knows, and forgets none. *)
LEMMA TakenIds ==
  ASSUME PocketTypes, NEW o \in Orders, NEW g \in Services, Takes(o, g)
  PROVE  /\ seenIds' \in [Services -> Seq(Orders)] /\ forgotten' \in [Services -> SUBSET Orders]
         /\ forgotten[g] \subseteq forgotten'[g]
         /\ SeenIn(g) \union forgotten[g] \union {o} \subseteq SeenIn(g)' \union forgotten'[g]
         /\ \A h \in Services \ {g} : SeenIn(h)' = SeenIn(h) /\ forgotten'[h] = forgotten[h]
<1> DEFINE s == seenIds[g]
           all == Append(s, o)
<1>1. s \in Seq(Orders) /\ o \notin SeenIn(g)
  BY DEF PocketTypes, Takes, Acceptable, NewId
<1>2. all \in Seq(Orders) /\ Len(all) = Len(s) + 1 /\ all # <<>>
      /\ \A k \in 1 .. Len(s) : all[k] = s[k]
      /\ all[Len(s) + 1] = o
  BY <1>1
<1>3. SeenIn(g) \union {o} \subseteq {all[k] : k \in 1 .. Len(all)}
  <2>1. DOMAIN s = 1 .. Len(s) /\ Len(s) \in Nat
    BY <1>1
  <2> SUFFICES ASSUME NEW x \in SeenIn(g) \union {o} PROVE \E k \in 1 .. Len(all) : x = all[k]
    OBVIOUS
  <2>2. CASE x = o
    BY <1>2, <2>1, <2>2
  <2>3. CASE x \in SeenIn(g)
    <3>1. PICK k \in 1 .. Len(s) : x = s[k]
      BY <2>1, <2>3 DEF SeenIn
    <3>2. k \in 1 .. Len(all) /\ x = all[k]
      BY <1>2, <2>1, <3>1
    <3> QED
      BY <3>2
  <2> QED
    BY <2>2, <2>3
<1>4. CASE Len(all) > SeenLimit
  <2>1. seenIds' = [seenIds EXCEPT ![g] = Tail(all)]
        /\ forgotten' = [forgotten EXCEPT ![g] = @ \union {Head(all)}]
    BY <1>1, <1>4 DEF Takes
  <2>2. Tail(all) \in Seq(Orders) /\ Head(all) \in Orders /\ Len(Tail(all)) = Len(s)
        /\ \A k \in 1 .. Len(s) : Tail(all)[k] = all[k + 1]
    BY <1>1, <1>2
  <2>3. ASSUME NEW k \in 1 .. Len(all), k # 1
        PROVE  k - 1 \in 1 .. Len(s) /\ Tail(all)[k - 1] = all[k]
    BY <1>1, <1>2, <2>2, <2>3
  <2>4. all[1] = Head(all)
    BY <1>2
  <2> HIDE DEF all
  <2>5. SeenIn(g)' = {Tail(all)[k] : k \in 1 .. Len(s)} /\ forgotten'[g] = forgotten[g] \union {Head(all)}
    <3>1. seenIds'[g] = Tail(all) /\ DOMAIN Tail(all) = 1 .. Len(s)
      BY <2>1, <2>2 DEF PocketTypes
    <3> QED
      BY <2>1, <3>1 DEF SeenIn, PocketTypes
  <2>6. SeenIn(g) \union {o} \subseteq {all[k] : k \in 1 .. Len(all)}
    BY <1>3
  <2>7. {all[k] : k \in 1 .. Len(all)} \subseteq {Head(all)} \union {Tail(all)[k] : k \in 1 .. Len(s)}
    BY <2>3, <2>4
  <2>8. seenIds' \in [Services -> Seq(Orders)] /\ forgotten' \in [Services -> SUBSET Orders]
    BY <2>1, <2>2 DEF PocketTypes
  <2>9. \A h \in Services \ {g} : SeenIn(h)' = SeenIn(h) /\ forgotten'[h] = forgotten[h]
    BY <2>1 DEF SeenIn, PocketTypes
  <2> QED
    BY <2>5, <2>6, <2>7, <2>8, <2>9
<1>5. CASE ~(Len(all) > SeenLimit)
  <2>1. seenIds' = [seenIds EXCEPT ![g] = all] /\ forgotten' = [forgotten EXCEPT ![g] = @]
    BY <1>1, <1>5 DEF Takes
  <2> HIDE DEF all
  <2>2. SeenIn(g)' = {all[k] : k \in 1 .. Len(all)} /\ forgotten'[g] = forgotten[g]
    <3>1. seenIds'[g] = all /\ DOMAIN all = 1 .. Len(all)
      BY <1>2, <2>1 DEF PocketTypes
    <3> QED
      BY <2>1, <3>1 DEF SeenIn, PocketTypes
  <2>3. SeenIn(g) \union {o} \subseteq {all[k] : k \in 1 .. Len(all)}
    BY <1>3
  <2>4. seenIds' \in [Services -> Seq(Orders)] /\ forgotten' \in [Services -> SUBSET Orders]
    BY <1>2, <2>1 DEF PocketTypes
  <2>5. \A h \in Services \ {g} : SeenIn(h)' = SeenIn(h) /\ forgotten'[h] = forgotten[h]
    BY <2>1 DEF SeenIn, PocketTypes
  <2> QED
    BY <2>2, <2>3, <2>4, <2>5
<1> QED
  BY <1>4, <1>5

(* A step that keeps the ids and the counts keeps the invariant, if its lanes are as  *)
(* they were, idle, or in a place of the same command that is no nearer to acting.   *)
LEMMA LanesGoOn ==
  ASSUME PocketInv, UNCHANGED <<seenIds, forgotten, acted>>,
         lane' \in [Services -> LaneOf], leased' = {g \in Services : lane'[g].at # "idle"},
         \A g \in Services :
           lane'[g].at # "idle" => /\ lane[g].at # "idle" /\ lane'[g].id = lane[g].id
                                   /\ lane'[g].at \in Toward => lane[g].at \in Toward
  PROVE  PocketInv'
<1> USE DEF PocketInv
<1>1. PocketTypes'
  BY DEF PocketTypes
<1>2. KnownInv'
  <2>1. ASSUME NEW g \in Services, NEW o \in Orders PROVE Known(o, g)' = Known(o, g)
    BY SameIds DEF Known
  <2>2. ASSUME NEW g \in Services, lane'[g].at # "idle" PROVE Known(lane[g].id, g)'
    BY <2>1, <2>2 DEF KnownInv, PocketTypes
  <2>3. ASSUME NEW g \in Services, lane'[g].at \in Toward, lane'[g].id \notin forgotten'[g]
        PROVE  acted'[lane'[g].id][g] = 0
    BY <2>3 DEF KnownInv, Toward
  <2> QED
    BY <2>1, <2>2, <2>3 DEF KnownInv
<1>3. ActsOnce'
  BY DEF ActsOnce
<1> QED
  BY <1>1, <1>2, <1>3

(* Every step of the lane but the action itself moves it on. *)
LEMMA LaneMoves ==
  ASSUME PocketInv, NEW g \in Services, NEW from \in LanePlaces, NEW to \in LanePlaces,
         LaneGoes(g, from, to), from # "idle", to # "idle", to \in Toward => from \in Toward
  PROVE  PocketInv'
<1>1. lane' = [lane EXCEPT ![g].at = to] /\ lane[g].at = from
  BY DEF LaneGoes
<1>2. lane' \in [Services -> LaneOf] /\ lane'[g].at = to /\ lane'[g].id = lane[g].id
      /\ \A h \in Services \ {g} : lane'[h] = lane[h]
  BY <1>1 DEF PocketInv, PocketTypes, LaneOf
<1>3. leased' = {h \in Services : lane'[h].at # "idle"}
  BY <1>1, <1>2 DEF LaneGoes, PocketInv, PocketTypes
<1> QED
  BY <1>1, <1>2, <1>3, LanesGoOn DEF LaneGoes

(* Every step keeps the invariant. *)
LEMMA PocketNextInv == PocketInv /\ [PocketNext]_pocketVars => PocketInv'
<1> SUFFICES ASSUME PocketInv, [PocketNext]_pocketVars PROVE PocketInv'
  OBVIOUS
<1>1. CASE UNCHANGED <<leased, seenIds, lane, forgotten, acted>>
  BY <1>1, LanesGoOn DEF PocketInv, PocketTypes
<1>2. CASE ProcessDies
  <2>1. lane' \in [Services -> LaneOf] /\ \A g \in Services : lane'[g].at = "idle"
    BY <1>2 DEF ProcessDies, NoOrder, LaneOf, LanePlaces
  <2> QED
    BY <1>2, <2>1, LanesGoOn DEF ProcessDies
<1>3. ASSUME NEW g \in Services, NEW o \in Orders, Takes(o, g) PROVE PocketInv'
  <2> USE DEF PocketInv
  <2>1. /\ lane' = [lane EXCEPT ![g] = [at |-> "look", id |-> o]] /\ leased' = leased \union {g}
        /\ UNCHANGED acted /\ o \notin SeenIn(g)
    BY <1>3 DEF Takes, Acceptable, NewId
  <2>2. PocketTypes'
    BY <1>3, <2>1, TakenIds DEF PocketTypes, LaneOf, LanePlaces
  <2>3. ASSUME NEW h \in Services, NEW p \in Orders, Known(p, h) PROVE Known(p, h)'
    BY <1>3, <2>3, TakenIds DEF Known
  <2>4. Known(o, g)' /\ (o \notin forgotten'[g] => acted[o][g] = 0)
    BY <1>3, <2>1, TakenIds DEF Known, KnownInv, PocketTypes
  <2>5. \A h \in Services \ {g} : lane'[h] = lane[h] /\ forgotten'[h] = forgotten[h]
    BY <1>3, <2>1, TakenIds DEF PocketTypes
  <2>6. lane'[g].at = "look" /\ lane'[g].id = o
    BY <2>1 DEF PocketTypes
  <2>7. KnownInv'
    <3>1. ASSUME NEW h \in Services \ {g} PROVE lane'[h].at # "idle" => Known(lane[h].id, h)'
      BY <2>3, <2>5, <3>1 DEF KnownInv, PocketTypes
    <3> QED
      BY <2>1, <2>3, <2>4, <2>5, <2>6, <3>1 DEF KnownInv
  <2>8. ActsOnce'
    BY <1>3, <2>1, <2>5, TakenIds DEF ActsOnce
  <2> QED
    BY <2>2, <2>7, <2>8
<1>4. ASSUME NEW g \in Services, Acts(g) PROVE PocketInv'
  <2> DEFINE o == lane[g].id
  <2> USE DEF PocketInv
  <2>1. /\ lane[g].at = "acting" /\ lane' = [lane EXCEPT ![g].at = "verify"]
        /\ UNCHANGED <<leased, seenIds, forgotten>>
        /\ acted' = [acted EXCEPT ![o][g] = @ + 1]
    BY <1>4 DEF Acts
  <2>2. o \in Orders /\ Known(o, g) /\ (o \notin forgotten[g] => acted[o][g] = 0)
    BY <2>1 DEF PocketTypes, KnownInv, Toward
  <2>3. lane' \in [Services -> LaneOf] /\ lane'[g].at = "verify" /\ lane'[g].id = o
        /\ \A h \in Services \ {g} : lane'[h] = lane[h]
    BY <2>1 DEF PocketTypes, LaneOf, LanePlaces
  <2>4. acted' \in [Orders -> [Services -> Nat]] /\ acted'[o][g] = acted[o][g] + 1
        /\ \A p \in Orders, h \in Services : p # o \/ h # g => acted'[p][h] = acted[p][h]
    BY <2>1, <2>2 DEF PocketTypes
  <2>5. PocketTypes'
    BY <2>1, <2>3, <2>4 DEF PocketTypes
  <2>6. \A p \in Orders, h \in Services : Known(p, h)' = Known(p, h)
    BY <2>1, SameIds DEF Known
  <2>7. KnownInv'
    <3>1. ASSUME NEW h \in Services, NEW p \in Orders, acted'[p][h] > 0 PROVE Known(p, h)'
      BY <2>2, <2>4, <2>6, <3>1 DEF KnownInv
    <3>2. ASSUME NEW h \in Services, lane'[h].at # "idle" PROVE Known(lane[h].id, h)'
      BY <2>2, <2>3, <2>5, <2>6, <3>2 DEF KnownInv, PocketTypes
    <3>3. ASSUME NEW h \in Services, lane'[h].at \in Toward, lane'[h].id \notin forgotten'[h]
          PROVE  acted'[lane'[h].id][h] = 0
      <4>1. h # g
        BY <2>3, <3>3 DEF Toward
      <4> QED
        BY <2>1, <2>3, <2>4, <3>3, <4>1 DEF KnownInv, PocketTypes, Toward
    <3> QED
      BY <3>1, <3>2, <3>3 DEF KnownInv
  <2>8. ActsOnce'
    BY <2>1, <2>2, <2>4 DEF ActsOnce, PocketTypes
  <2> QED
    BY <2>5, <2>7, <2>8
<1>5. ASSUME NEW g \in Services, Finishes(g) PROVE PocketInv'
  <2>1. lane' = [lane EXCEPT ![g] = NoOrder] /\ leased' = leased \ {g}
    BY <1>5 DEF Finishes, Released
  <2>2. lane' \in [Services -> LaneOf] /\ lane'[g].at = "idle" /\ \A h \in Services \ {g} : lane'[h] = lane[h]
    BY <2>1 DEF PocketInv, PocketTypes, NoOrder, LaneOf, LanePlaces
  <2> QED
    BY <1>5, <2>1, <2>2, LanesGoOn DEF Finishes, PocketInv, PocketTypes
<1>6. ASSUME NEW g \in Services, LaneStep(g) PROVE PocketInv'
  <2>1. CASE FindsTarget(g) \/ ListsApps(g) \/ CallsAction(g) \/ Observes(g)
    BY <2>1, LaneMoves DEF FindsTarget, ListsApps, CallsAction, Observes, LanePlaces, Toward
  <2>2. CASE LaneFails(g)
    BY <2>2, LaneMoves DEF LaneFails, LanePlaces, Toward
  <2> QED
    BY <1>4, <1>5, <1>6, <2>1, <2>2 DEF LaneStep
<1>7. \/ UNCHANGED <<leased, seenIds, lane, forgotten, acted>> \/ ProcessDies
      \/ \E g \in Services : LaneStep(g) \/ \E o \in Orders : Takes(o, g)
  BY DEF PocketNext, pocketVars, Destroyed, Created, Sends, Rejects
<1> QED
  BY <1>1, <1>2, <1>3, <1>6, <1>7

(* A command acts once in the life of an instance that has not forgotten its id      *)
(* (PocketCommand), for any number of commands, sends and instances and any limit.  *)
THEOREM ActsOnceTheorem == PocketSpec => []ActsOnce
<1>1. PocketInv => ActsOnce
  BY DEF PocketInv
<1> QED
  BY <1>1, PocketInitInv, PocketNextInv, PTL DEF PocketSpec

-------------------------------------------------------------------------------
(* The relay command path implements the promise of DevicePromise.  What it rests   *)
(* on: of the threads of an instance that carry one command, only the first to mark *)
(* it can still run, and before it runs there was no effect; and whatever says ok, a *)
(* thread or a result on its way, stands for an effect.                             *)
ThreadPlaces == {"idle", "new", "gate", "run", "chat", "relay", "send", "gone"}
ThreadOf ==
  [at : ThreadPlaces, cmd : Commands \union {"none"},
   born : Instances, ok : BOOLEAN, first : BOOLEAN, reading : BOOLEAN, list : SUBSET Entries]
PathTypes ==
  /\ adapter \in [Commands -> {"new", "hello", "sent", "ok", "error"}]
  /\ outbound \subseteq Commands /\ inbound \subseteq [cmd : Commands, ok : BOOLEAN]
  /\ receipts \union recorded \subseteq Entries
  /\ seen \in [Instances -> SUBSET Commands] /\ instance \in Instances
  /\ thread \in [Arrivals -> ThreadOf]
  /\ \A t \in Arrivals : thread[t].at # "idle" => thread[t].cmd \in Commands
  /\ effects \in [Commands -> [Instances -> {0, 1}]]

TowardRun(e) == e.at = "run" \/ (e.at = "gate" /\ e.first)
Happened(c) == \E g \in Instances : effects[c][g] = 1
OnceInv ==
  /\ \A c \in Commands, g \in Instances : effects[c][g] = 1 => c \in seen[g]
  /\ \A t \in Arrivals : TowardRun(thread[t]) =>
       /\ thread[t].cmd \in seen[thread[t].born]
       /\ effects[thread[t].cmd][thread[t].born] = 0
  /\ \A t, u \in Arrivals :
       /\ TowardRun(thread[t]) /\ TowardRun(thread[u])
       /\ thread[t].cmd = thread[u].cmd /\ thread[t].born = thread[u].born
       => t = u
OkInv ==
  /\ \A t \in Arrivals : thread[t].ok => thread[t].at # "idle" /\ Happened(thread[t].cmd)
  /\ \A r \in inbound : r.ok => Happened(r.cmd)
RelayInv == PathTypes /\ OnceInv /\ OkInv

(* Every initial state satisfies the invariant. *)
LEMMA RelayInitInv == RelayInit => RelayInv
<1> SUFFICES ASSUME RelayInit PROVE RelayInv
  OBVIOUS
<1>1. 1 \in Instances
  BY RelayAssumption DEF Instances
<1>2. thread \in [Arrivals -> ThreadOf] /\ \A t \in Arrivals : thread[t].at = "idle" /\ ~thread[t].ok
  BY <1>1 DEF RelayInit, ThreadOf, ThreadPlaces
<1>3. PathTypes
  BY <1>1, <1>2 DEF RelayInit, PathTypes
<1>4. OnceInv /\ OkInv
  BY <1>2 DEF RelayInit, OnceInv, OkInv, TowardRun
<1> QED
  BY <1>3, <1>4 DEF RelayInv

(* A thread that moves on with another list. *)
LEMMA ThreadMoved ==
  ASSUME NEW e \in ThreadOf, NEW to \in ThreadPlaces, NEW reading \in BOOLEAN, NEW list \in SUBSET Entries
  PROVE  LET d == [e EXCEPT !.at = to, !.reading = reading, !.list = list]
         IN /\ d \in ThreadOf /\ d.at = to /\ d.cmd = e.cmd /\ d.born = e.born
            /\ d.ok = e.ok /\ d.first = e.first
  BY DEF ThreadOf

(* What a step of one thread has to show of this thread, when no effect happens and  *)
(* no id is forgotten.                                                         *)
LEMMA ThreadMoves ==
  ASSUME RelayInv, NEW t \in Arrivals, NEW e \in ThreadOf,
         thread' = [thread EXCEPT ![t] = e], UNCHANGED <<adapter, outbound, inbound, seen, instance, effects>>,
         receipts' \union recorded' \subseteq Entries, e.at # "idle", e.cmd \in Commands, e.ok => thread[t].ok,
         thread[t].at # "idle" => e.cmd = thread[t].cmd /\ e.born = thread[t].born,
         TowardRun(e) => TowardRun(thread[t]) /\ thread[t].at # "idle"
  PROVE  RelayInv'
<1> USE DEF RelayInv
<1>1. \A u \in Arrivals : thread'[u] = IF u = t THEN e ELSE thread[u]
  BY DEF PathTypes
<1>2. PathTypes'
  BY <1>1 DEF PathTypes
<1>3. OnceInv'
  BY <1>1 DEF OnceInv
<1>4. OkInv'
  BY <1>1 DEF OkInv, Happened
<1> QED
  BY <1>2, <1>3, <1>4

(* A step that keeps the threads and what has happened keeps the invariant, if its   *)
(* results were there before.                                                  *)
LEMMA OutsideThreads ==
  ASSUME RelayInv, UNCHANGED <<seen, thread, receipts, recorded, effects>>, inbound' \subseteq inbound,
         adapter' \in [Commands -> {"new", "hello", "sent", "ok", "error"}],
         outbound' \subseteq Commands, instance' \in Instances
  PROVE  RelayInv'
  BY DEF RelayInv, PathTypes, OnceInv, OkInv, TowardRun, Happened

(* Every step keeps the invariant. *)
LEMMA RelayNextInv == RelayInv /\ [RelayNext]_relayVars => RelayInv'
<1> SUFFICES ASSUME RelayInv, [RelayNext]_relayVars PROVE RelayInv'
  OBVIOUS
<1>1. CASE UNCHANGED relayVars \/ SwitchAccess \/ ServiceRestarts
  BY <1>1, OutsideThreads, RelayAssumption
     DEF relayVars, phone, receiptStore, SwitchAccess, ServiceRestarts, RelayInv, PathTypes, Instances
<1>2. CASE PhoneKilled
  <2> USE DEF RelayInv
  <2>1. instance' \in Instances /\ UNCHANGED <<adapter, outbound, inbound, seen, effects>>
    <3>1. instance < MaxInstance /\ instance' = instance + 1 /\ instance \in Instances
      BY <1>2 DEF PhoneKilled, PathTypes
    <3>2. instance' \in Instances
      BY <3>1, RelayAssumption DEF Instances
    <3> QED
      BY <1>2, <3>2 DEF PhoneKilled
  <2>2. ASSUME NEW t \in Arrivals
        PROVE  /\ thread'[t] \in ThreadOf
               /\ thread'[t].at = "idle" => thread[t].at = "idle" /\ thread'[t] = thread[t]
               /\ thread'[t].at # "idle" =>
                    thread[t].at # "idle" /\ thread'[t].at = "gone"
                    /\ thread'[t].cmd = thread[t].cmd /\ thread'[t].ok = thread[t].ok
    <3>1. CASE thread[t].at = "idle"
      BY <1>2, <3>1 DEF PhoneKilled, PathTypes
    <3>2. CASE thread[t].at # "idle"
      <4>1. thread'[t] = [thread[t] EXCEPT !.at = "gone", !.reading = FALSE, !.list = {}]
        BY <1>2, <3>2 DEF PhoneKilled
      <4>2. thread[t] \in ThreadOf /\ "gone" \in ThreadPlaces
        BY DEF PathTypes, ThreadPlaces
      <4> QED
        BY <3>2, <4>1, <4>2 DEF ThreadOf
    <3> QED
      BY <3>1, <3>2
  <2>3. PathTypes'
    BY <1>2, <2>1, <2>2 DEF PathTypes, PhoneKilled
  <2>4. OnceInv'
    BY <2>1, <2>2 DEF OnceInv, TowardRun
  <2>5. OkInv'
    BY <2>1, <2>2 DEF OkInv, Happened
  <2> QED
    BY <2>3, <2>4, <2>5
<1>3. ASSUME NEW c \in Commands, AdapterStep(c) PROVE RelayInv'
  <2>1. /\ UNCHANGED <<instance, seen, thread, receipts, recorded, effects>> /\ inbound' \subseteq inbound /\ outbound' \subseteq Commands
    BY <1>3 DEF receiptStore, AdapterStep, Hello, HelloAck, GivesUp, LosesCommand, Result, phone, RelayInv, PathTypes
  <2>2. adapter' = adapter
        \/ \E a \in {"hello", "sent", "ok", "error"} : adapter' = [adapter EXCEPT ![c] = a]
    BY <1>3 DEF AdapterStep, Hello, HelloAck, GivesUp, LosesCommand, Result
  <2>3. adapter' \in [Commands -> {"new", "hello", "sent", "ok", "error"}]
    BY <2>2 DEF RelayInv, PathTypes
  <2> QED
    BY <2>1, <2>3, OutsideThreads DEF RelayInv, PathTypes
<1>4. ASSUME NEW r, LosesResult(r) PROVE RelayInv'
  BY <1>4, OutsideThreads DEF receiptStore, LosesResult, phone, RelayInv, PathTypes
<1>5. ASSUME NEW t \in Arrivals, NEW c \in Commands, Arrives(t, c) PROVE RelayInv'
  <2> DEFINE e == [thread[t] EXCEPT !.at = "new", !.cmd = c, !.born = instance]
  <2>1. thread[t].at = "idle" /\ thread' = [thread EXCEPT ![t] = e]
    BY <1>5 DEF Arrives, Steps
  <2>2. e \in ThreadOf /\ e.at = "new" /\ e.cmd = c /\ e.ok = thread[t].ok
    BY DEF RelayInv, PathTypes, ThreadOf, ThreadPlaces
  <2> HIDE DEF e
  <2>3. ~TowardRun(e)
    BY <2>2 DEF TowardRun
  <2> QED
    BY <1>5, <2>1, <2>2, <2>3, ThreadMoves DEF receiptStore, Arrives, RelayInv, PathTypes
<1>6. ASSUME NEW t \in Arrivals, Marks(t) PROVE RelayInv'
  <2> USE DEF RelayInv
  <2> DEFINE e == [thread[t] EXCEPT !.at = "gate", !.first = FirstSeen(t)]
             c == thread[t].cmd
             g == thread[t].born
  <2>1. thread[t].at = "new" /\ thread' = [thread EXCEPT ![t] = e]
        /\ UNCHANGED <<adapter, outbound, inbound, instance, receipts, recorded, effects>>
    BY <1>6 DEF receiptStore, Marks, Steps
  <2>2. c \in Commands /\ g \in Instances
    BY <2>1 DEF PathTypes, ThreadOf, ThreadPlaces
  <2>3. /\ e \in ThreadOf /\ e.at = "gate" /\ e.cmd = c /\ e.born = g /\ e.ok = thread[t].ok
        /\ e.first => c \notin seen[g]
    BY DEF PathTypes, ThreadOf, ThreadPlaces, FirstSeen
  <2>4. seen' = [seen EXCEPT ![g] = @ \union {c}]
    BY <1>6 DEF Marks
  <2> HIDE DEF e
  <2>5. \A u \in Arrivals : thread'[u] = IF u = t THEN e ELSE thread[u]
    BY <2>1 DEF PathTypes
  <2>6. PathTypes'
    BY <2>1, <2>2, <2>3, <2>4, <2>5 DEF PathTypes
  <2>7. \A h \in Instances : seen[h] \subseteq seen'[h]
    BY <2>2, <2>4 DEF PathTypes
  <2>8. c \in seen'[g]
    BY <2>2, <2>4 DEF PathTypes
  <2>9. TowardRun(e) => c \notin seen[g] /\ effects[c][g] = 0
    BY <2>2, <2>3 DEF TowardRun, OnceInv, PathTypes
  <2>10. OnceInv'
    <3>1. \A d \in Commands, h \in Instances : effects'[d][h] = 1 => d \in seen'[h]
      BY <2>1, <2>7 DEF OnceInv
    <3>2. ASSUME NEW u \in Arrivals, TowardRun(thread'[u])
          PROVE  thread'[u].cmd \in seen'[thread'[u].born] /\ effects'[thread'[u].cmd][thread'[u].born] = 0
      <4>1. CASE u = t
        BY <2>1, <2>3, <2>5, <2>8, <2>9, <3>2, <4>1
      <4>2. CASE u # t
        BY <2>1, <2>5, <2>7, <3>2, <4>2 DEF OnceInv, PathTypes, ThreadOf
      <4> QED
        BY <4>1, <4>2
    <3>3. ASSUME NEW u \in Arrivals, NEW v \in Arrivals, TowardRun(thread'[u]), TowardRun(thread'[v]),
                 thread'[u].cmd = thread'[v].cmd, thread'[u].born = thread'[v].born
          PROVE  u = v
      <4>1. CASE u # t /\ v # t
        BY <2>5, <3>3, <4>1 DEF OnceInv
      <4>2. CASE u = t /\ v # t
        BY <2>3, <2>5, <2>9, <3>3, <4>2 DEF OnceInv
      <4>3. CASE u # t /\ v = t
        BY <2>3, <2>5, <2>9, <3>3, <4>3 DEF OnceInv
      <4> QED
        BY <4>1, <4>2, <4>3
    <3> QED
      BY <3>1, <3>2, <3>3 DEF OnceInv
  <2>11. OkInv'
    BY <2>1, <2>3, <2>5 DEF OkInv, Happened
  <2> QED
    BY <2>6, <2>10, <2>11
<1>7. ASSUME NEW t \in Arrivals, Gate(t) PROVE RelayInv'
  <2>1. PICK to \in {"run", "relay"} :
          /\ thread' = [thread EXCEPT ![t] = [thread[t] EXCEPT !.at = to]]
          /\ thread[t].at = "gate" /\ (to = "run" => thread[t].first)
    BY <1>7 DEF Gate, Fires, Steps
  <2> DEFINE e == [thread[t] EXCEPT !.at = to]
  <2>2. /\ e \in ThreadOf /\ e.at = to /\ e.cmd = thread[t].cmd /\ e.born = thread[t].born
        /\ e.ok = thread[t].ok
    BY DEF RelayInv, PathTypes, ThreadOf, ThreadPlaces
  <2>3. thread[t].cmd \in Commands
    BY <2>1 DEF RelayInv, PathTypes
  <2>4. thread' = [thread EXCEPT ![t] = e]
    BY <2>1
  <2> HIDE DEF e
  <2>5. /\ TowardRun(e) => TowardRun(thread[t]) /\ thread[t].at # "idle"
        /\ e.ok => thread[t].ok
        /\ e.at # "idle" /\ e.cmd \in Commands
    BY <2>1, <2>2, <2>3 DEF TowardRun
  <2>6. UNCHANGED <<adapter, outbound, inbound, instance, seen, effects>> /\ receipts' \union recorded' \subseteq Entries
    BY <1>7 DEF receiptStore, Gate, RelayInv, PathTypes
  <2> QED
    BY <2>2, <2>4, <2>5, <2>6, ThreadMoves
<1>8. ASSUME NEW t \in Arrivals, Runs(t) PROVE RelayInv'
  <2> USE DEF RelayInv
  <2> DEFINE c == thread[t].cmd
             g == thread[t].born
  <2>1. PICK to \in {"chat", "relay"}, ok \in BOOLEAN :
          /\ thread[t].at = "run" /\ thread' = [thread EXCEPT ![t] = [thread[t] EXCEPT !.at = to, !.ok = ok]]
          /\ \/ effects' = [effects EXCEPT ![c][g] = @ + 1]
             \/ ~ok /\ UNCHANGED effects
    <3>1. CASE \E ok \in BOOLEAN :
                 Steps(t, "run", [thread[t] EXCEPT !.at = IF ok /\ c \in Chats THEN "chat" ELSE "relay", !.ok = ok])
                 /\ effects' = [effects EXCEPT ![c][g] = @ + 1]
      BY <3>1 DEF Steps
    <3>2. CASE Steps(t, "run", [thread[t] EXCEPT !.at = "relay", !.ok = FALSE]) /\ UNCHANGED effects
      BY <3>2 DEF Steps
    <3> QED
      BY <1>8, <3>1, <3>2 DEF Runs
  <2> DEFINE e == [thread[t] EXCEPT !.at = to, !.ok = ok]
  <2>2. c \in Commands /\ g \in Instances /\ TowardRun(thread[t]) /\ effects[c][g] = 0
    BY <2>1 DEF PathTypes, ThreadOf, OnceInv, TowardRun
  <2>3. /\ e \in ThreadOf /\ e.at = to /\ e.cmd = c /\ e.born = g /\ e.ok = ok /\ ~TowardRun(e)
    BY DEF PathTypes, ThreadOf, ThreadPlaces, TowardRun
  <2>4. thread' = [thread EXCEPT ![t] = e]
    BY <2>1
  <2> HIDE DEF e
  <2>5. \A u \in Arrivals : thread'[u] = IF u = t THEN e ELSE thread[u]
    BY <2>4 DEF PathTypes
  <2>6. UNCHANGED <<adapter, outbound, inbound, instance, seen, receipts, recorded>>
    BY <1>8 DEF receiptStore, Runs
  <2>7. /\ effects' \in [Commands -> [Instances -> {0, 1}]]
        /\ \A d \in Commands, h \in Instances : d # c \/ h # g => effects'[d][h] = effects[d][h]
        /\ ok => effects'[c][g] = 1
    BY <2>1, <2>2 DEF PathTypes
  <2>8. PathTypes'
    <3>1. thread' \in [Arrivals -> ThreadOf]
      BY <2>3, <2>4 DEF PathTypes
    <3>2. \A u \in Arrivals : thread'[u].at # "idle" => thread'[u].cmd \in Commands
      BY <2>2, <2>3, <2>5 DEF PathTypes
    <3> QED
      BY <2>6, <2>7, <3>1, <3>2 DEF PathTypes
  <2>9. OnceInv'
    <3>1. c \in seen[g]
      BY <2>2 DEF OnceInv
    <3>2. \A d \in Commands, h \in Instances : effects'[d][h] = 1 => d \in seen'[h]
      BY <2>6, <2>7, <3>1 DEF OnceInv
    <3>3. ASSUME NEW u \in Arrivals, TowardRun(thread'[u])
          PROVE  /\ u # t /\ thread'[u] = thread[u]
                 /\ thread'[u].cmd \in seen'[thread'[u].born] /\ effects'[thread'[u].cmd][thread'[u].born] = 0
      <4>1. u # t /\ thread'[u] = thread[u]
        BY <2>3, <2>5, <3>3
      <4>2. thread[u].cmd # c \/ thread[u].born # g
        BY <2>2, <3>3, <4>1 DEF OnceInv
      <4>3. thread[u].cmd \in Commands /\ thread[u].born \in Instances
        BY <3>3, <4>1 DEF PathTypes, ThreadOf, TowardRun
      <4> QED
        BY <2>6, <2>7, <3>3, <4>1, <4>2, <4>3 DEF OnceInv
    <3> QED
      BY <3>2, <3>3 DEF OnceInv
  <2>10. \A d \in Commands : Happened(d) => Happened(d)'
    BY <2>2, <2>7 DEF Happened
  <2>11. OkInv'
    <3>1. ASSUME NEW u \in Arrivals, thread'[u].ok
          PROVE  thread'[u].at # "idle" /\ Happened(thread[u].cmd)'
      <4>1. CASE u = t
        <5>1. thread'[u] = e /\ ok
          BY <2>3, <2>5, <3>1, <4>1
        <5>2. Happened(c)'
          BY <2>2, <2>3, <2>7, <5>1, <4>1 DEF Happened
        <5>3. thread'[u].cmd = c /\ thread'[u].at # "idle"
          BY <2>3, <5>1
        <5> QED
          BY <4>1, <5>2, <5>3
      <4>2. CASE u # t
        BY <2>5, <2>10, <3>1, <4>2 DEF OkInv, PathTypes
      <4> QED
        BY <4>1, <4>2
    <3>2. ASSUME NEW r \in inbound, r.ok PROVE Happened(r.cmd)'
      BY <2>10, <3>2 DEF OkInv, PathTypes
    <3> QED
      BY <2>6, <3>1, <3>2 DEF OkInv
  <2> QED
    BY <2>8, <2>9, <2>11
<1>9. ASSUME NEW t \in Arrivals, ReadsList(t) \/ WritesList(t) PROVE RelayInv'
  <2>1. thread[t] \in ThreadOf /\ thread[t].at \in {"chat", "relay"} /\ thread[t].cmd \in Commands
    BY <1>9 DEF ReadsList, WritesList, RelayInv, PathTypes
  <2>2. UNCHANGED <<adapter, outbound, inbound, instance, seen, effects>>
    BY <1>9 DEF ReadsList, WritesList
  <2>3. receipts' \union recorded' \subseteq Entries
    BY <1>9, <2>1 DEF ReadsList, WritesList, Extended, RelayInv, PathTypes, ThreadOf, Entries
  <2>4. PICK e \in ThreadOf :
          /\ thread' = [thread EXCEPT ![t] = e]
          /\ e.at \in {"chat", "relay", "send"} /\ e.cmd = thread[t].cmd /\ e.born = thread[t].born
          /\ e.ok = thread[t].ok
    <3>1. CASE ReadsList(t)
      <4> DEFINE e == [thread[t] EXCEPT !.reading = TRUE, !.list = receipts]
      <4>1. thread' = [thread EXCEPT ![t] = e]
        BY <3>1 DEF ReadsList, RelayInv, PathTypes
      <4>2. /\ e \in ThreadOf /\ e.at = thread[t].at /\ e.cmd = thread[t].cmd /\ e.born = thread[t].born
            /\ e.ok = thread[t].ok
        BY <2>1 DEF RelayInv, PathTypes, ThreadOf
      <4> QED
        BY <2>1, <4>1, <4>2
    <3>2. CASE WritesList(t)
      <4> DEFINE to == IF thread[t].at = "chat" THEN "relay" ELSE "send"
                 e == [thread[t] EXCEPT !.reading = FALSE, !.list = {}, !.at = to]
      <4>1. thread' = [thread EXCEPT ![t] = e]
        BY <3>2 DEF WritesList, RelayInv, PathTypes
      <4>2. to \in {"relay", "send"} /\ to \in ThreadPlaces
        BY DEF ThreadPlaces
      <4> HIDE DEF to
      <4>3. /\ e \in ThreadOf /\ e.at = to /\ e.cmd = thread[t].cmd /\ e.born = thread[t].born
            /\ e.ok = thread[t].ok
        BY <2>1, <4>2 DEF ThreadOf
      <4> QED
        BY <4>1, <4>2, <4>3
    <3> QED
      BY <1>9, <3>1, <3>2
  <2>5. ~TowardRun(e)
    BY <2>4 DEF TowardRun
  <2> QED
    BY <2>1, <2>2, <2>3, <2>4, <2>5, ThreadMoves
<1>10. ASSUME NEW t \in Arrivals, SendsResult(t) PROVE RelayInv'
  <2> DEFINE r == [cmd |-> thread[t].cmd, ok |-> thread[t].ok]
             e == [thread[t] EXCEPT !.at = "gone"]
  <2>1. thread[t] \in ThreadOf /\ thread[t].at = "send" /\ thread[t].cmd \in Commands
    BY <1>10 DEF SendsResult, Steps, RelayInv, PathTypes
  <2>2. /\ thread' = [thread EXCEPT ![t] = e] /\ inbound' \in {inbound, inbound \union {r}}
        /\ UNCHANGED <<adapter, outbound, instance, seen, receipts, recorded, effects>>
    BY <1>10 DEF receiptStore, SendsResult, Steps
  <2>3. e \in ThreadOf /\ e.at = "gone" /\ e.cmd = thread[t].cmd /\ e.ok = thread[t].ok /\ ~TowardRun(e)
    BY <2>1 DEF ThreadOf, ThreadPlaces, TowardRun
  <2>4. r \in [cmd : Commands, ok : BOOLEAN] /\ (r.ok => Happened(r.cmd))
    BY <2>1 DEF ThreadOf, RelayInv, OkInv
  <2> HIDE DEF r, e
  <2>5. \A u \in Arrivals : thread'[u] = IF u = t THEN e ELSE thread[u]
    BY <2>2 DEF RelayInv, PathTypes
  <2>6. PathTypes'
    BY <2>1, <2>2, <2>3, <2>4, <2>5 DEF RelayInv, PathTypes
  <2>7. OnceInv'
    BY <2>2, <2>3, <2>5 DEF RelayInv, OnceInv
  <2>8. OkInv'
    BY <2>1, <2>2, <2>3, <2>4, <2>5 DEF RelayInv, OkInv, Happened
  <2> QED
    BY <2>6, <2>7, <2>8 DEF RelayInv
<1> QED
  BY <1>1, <1>2, <1>3, <1>4, <1>5, <1>6, <1>7, <1>8, <1>9, <1>10 DEF RelayNext, ThreadStep

-------------------------------------------------------------------------------
(* A state of the invariant is one the promise knows: effects and answers have its   *)
(* types, and the initial state is its initial state.                              *)
LEMMA PromiseInit == RelayInit => Promise!Init
<1> SUFFICES ASSUME RelayInit PROVE Promise!Init
  OBVIOUS
<1>1. answers = [c \in Commands |-> "none"]
  BY DEF RelayInit, answers
<1> QED
  BY <1>1 DEF RelayInit, Promise!Init

(* Every step is a step of the promise, or none. *)
LEMMA PromiseNext == RelayInv /\ [RelayNext]_relayVars => [Promise!Next]_<<effects, answers>>
<1> SUFFICES ASSUME RelayInv, [RelayNext]_relayVars PROVE [Promise!Next]_<<effects, answers>>
  OBVIOUS
<1>1. CASE UNCHANGED <<adapter, effects>>
  BY <1>1 DEF answers
<1>2. ASSUME NEW t \in Arrivals, Runs(t), effects' # effects PROVE Promise!Next
  <2> DEFINE c == thread[t].cmd
             g == thread[t].born
  <2>1. thread[t].at = "run" /\ effects' = [effects EXCEPT ![c][g] = @ + 1] /\ UNCHANGED adapter
    BY <1>2 DEF Runs, Steps
  <2>2. c \in Commands /\ g \in Instances /\ effects[c][g] = 0
    BY <2>1 DEF RelayInv, PathTypes, ThreadOf, OnceInv, TowardRun
  <2>3. effects' = [effects EXCEPT ![c][g] = 1]
    BY <2>1, <2>2 DEF RelayInv, PathTypes
  <2>4. UNCHANGED answers
    BY <2>1 DEF answers
  <2>5. Promise!TakesEffect(c, g)
    BY <2>2, <2>3, <2>4 DEF Promise!TakesEffect
  <2> QED
    BY <2>2, <2>5 DEF Promise!Next
<1>3. ASSUME NEW c \in Commands, NEW a \in {"ok", "error"}, adapter[c] \in {"hello", "sent"},
             adapter' = [adapter EXCEPT ![c] = a], UNCHANGED effects, a = "ok" => Happened(c)
      PROVE  Promise!Next
  <2>1. answers[c] = "none"
    BY <1>3 DEF answers
  <2>2. answers' = [answers EXCEPT ![c] = a]
    BY <1>3 DEF answers, RelayInv, PathTypes
  <2>3. Promise!Answered(c, a)
    BY <1>3, <2>1, <2>2 DEF Promise!Answered, Happened
  <2> QED
    BY <2>3 DEF Promise!Next
<1>4. ASSUME NEW c \in Commands, AdapterStep(c) PROVE [Promise!Next]_<<effects, answers>>
  <2>1. CASE Hello(c) \/ HelloAck(c)
    <3>1. answers' = answers
      BY <2>1 DEF Hello, HelloAck, answers, RelayInv, PathTypes
    <3> QED
      BY <2>1, <3>1 DEF Hello, HelloAck, phone
  <2>2. CASE GivesUp(c)
    BY <1>3, <2>2 DEF GivesUp, phone
  <2>3. CASE LosesCommand(c)
    BY <1>1, <2>3 DEF LosesCommand, phone
  <2>4. ASSUME NEW ok \in BOOLEAN, Result(c, [cmd |-> c, ok |-> ok]) PROVE Promise!Next
    <3>1. ok => Happened(c)
      BY <2>4 DEF Result, RelayInv, OkInv
    <3> QED
      BY <1>3, <2>4, <3>1 DEF Result, phone
  <2> QED
    BY <1>4, <2>1, <2>2, <2>3, <2>4 DEF AdapterStep
<1>5. ASSUME NEW t \in Arrivals, ThreadStep(t) PROVE [Promise!Next]_<<effects, answers>>
  <2>1. UNCHANGED adapter /\ (UNCHANGED effects \/ Runs(t))
    BY <1>5 DEF ThreadStep, Marks, Gate, Runs, ReadsList, WritesList, SendsResult
  <2> QED
    BY <1>1, <1>2, <2>1
<1>6. ASSUME SwitchAccess \/ ServiceRestarts \/ PhoneKilled
             \/ (\E r \in [cmd : Commands, ok : BOOLEAN] : LosesResult(r))
             \/ \E t \in Arrivals, c \in Commands : Arrives(t, c)
      PROVE  UNCHANGED <<adapter, effects>>
  BY <1>6 DEF SwitchAccess, ServiceRestarts, PhoneKilled, LosesResult, Arrives, phone
<1> QED
  BY <1>1, <1>4, <1>5, <1>6 DEF RelayNext, relayVars, phone

(* The path keeps its promise (RelayCommand): however often the relay repeats or      *)
(* loses a command, however threads interleave and the phone restarts, a command    *)
(* takes effect once in the life of an instance, and is answered ok only after.     *)
THEOREM PromiseTheorem == RelaySpec => KeepsDevicePromise
  BY RelayInitInv, RelayNextInv, PromiseInit, PromiseNext, PTL
     DEF RelaySpec, KeepsDevicePromise, Promise!Spec

-------------------------------------------------------------------------------
(* The workstation worker.  Every result the relay holds has its receipt on the phone,  *)
(* and what is over stays as it was.                                             *)
ReceiptInv ==
  /\ WorkTypeOK /\ PrintedIsReceipted
  /\ \A t \in Handlings : handling[t].at = "execute" => handling[t].cmd \in Controllers
  /\ \A r \in results : Proven(r.cmd, r.ok)
OverStays ==
  kept \subseteq kept' /\ \A t \in Handlings : handling[t].at = "over" => handling'[t] = handling[t]

(* What is proven stays so. *)
LEMMA ProvenStays == ASSUME OverStays, NEW c, NEW ok \in BOOLEAN, Proven(c, ok) PROVE Proven(c, ok)'
  BY DEF OverStays, Proven

(* A step that prints nothing keeps the invariant if it keeps what is over, and adds    *)
(* proven results only.                                                         *)
LEMMA ReceiptsStay ==
  ASSUME ReceiptInv, WorkTypeOK', OverStays,
         \A c \in Controllers : console'[c] \in {"ok", "failed"} => console'[c] = console[c],
         \A t \in Handlings : handling'[t].at = "execute" => handling'[t].cmd \in Controllers,
         \A r \in results' : r \in results \/ Proven(r.cmd, r.ok)'
  PROVE  ReceiptInv'
<1>1. \A r \in results : r.ok \in BOOLEAN
  BY DEF ReceiptInv, WorkTypeOK
<1>2. \A r \in results' : Proven(r.cmd, r.ok)'
  BY <1>1, ProvenStays DEF ReceiptInv
<1>3. PrintedIsReceipted'
  BY ProvenStays DEF ReceiptInv, PrintedIsReceipted
<1> QED
  BY <1>2, <1>3 DEF ReceiptInv

(* Every initial state satisfies the invariant. *)
LEMMA WorkInitInv == WorkInit => ReceiptInv
<1> SUFFICES ASSUME WorkInit PROVE ReceiptInv
  OBVIOUS
<1>1. [at |-> "idle", cmd |-> "none", socket |-> 0, did |-> FALSE] \in HandlingOf
  BY WorkstationAssumption DEF HandlingOf
<1> QED
  BY <1>1, WorkstationAssumption DEF WorkInit, ReceiptInv, WorkTypeOK, PrintedIsReceipted

(* Every step keeps the invariant. *)
LEMMA WorkNextInv == ReceiptInv /\ [WorkNext]_workVars => ReceiptInv'
<1> SUFFICES ASSUME ReceiptInv, [WorkNext]_workVars PROVE ReceiptInv'
  OBVIOUS
<1>0. /\ WorkTypeOK /\ handling \in [Handlings -> HandlingOf]
      /\ \A t \in Handlings : handling[t].at = "execute" => handling[t].cmd \in Controllers
  BY DEF ReceiptInv, WorkTypeOK
<1>1. ASSUME UNCHANGED <<handling, kept, results>>, WorkTypeOK',
             \A c \in Controllers : console'[c] \in {"ok", "failed"} => console'[c] = console[c]
      PROVE  ReceiptInv'
  <2>1. OverStays /\ \A r \in results' : r \in results
    BY <1>1 DEF OverStays
  <2> QED
    BY <1>0, <1>1, <2>1, ReceiptsStay
<1>2. CASE WorkerStarts \/ SocketOpens \/ SocketCloses \/ UNCHANGED workVars
  <2>1. UNCHANGED <<console, commands, results, handling, kept>>
    BY <1>2 DEF WorkerStarts, SocketOpens, SocketCloses, workVars
  <2>2. station' \in [alive : BOOLEAN, socket : 0 .. MaxSockets, open : BOOLEAN]
    <3>1. station \in [alive : BOOLEAN, socket : 0 .. MaxSockets, open : BOOLEAN]
      BY <1>0 DEF WorkTypeOK
    <3>2. CASE SocketOpens
      <4>1. station.socket + 1 \in 0 .. MaxSockets
        BY <3>1, <3>2, WorkstationAssumption DEF SocketOpens
      <4> QED
        BY <3>1, <3>2, <4>1 DEF SocketOpens
    <3>3. CASE WorkerStarts \/ SocketCloses \/ UNCHANGED workVars
      BY <3>1, <3>3 DEF WorkerStarts, SocketCloses, workVars
    <3> QED
      BY <1>2, <3>2, <3>3
  <2> QED
    BY <1>0, <1>1, <2>1, <2>2 DEF WorkTypeOK
<1>3. ASSUME NEW c \in Controllers, ControllerHello(c) \/ ControllerSends(c) \/ ControllerExits(c) PROVE ReceiptInv'
  <2>1. PICK at \in {"hello", "sent", "exit"} : console' = [console EXCEPT ![c] = at]
    BY <1>3 DEF ControllerHello, ControllerSends, ControllerExits
  <2>2. UNCHANGED <<results, station, handling, kept>> /\ commands' \subseteq Controllers
    BY <1>0, <1>3 DEF WorkTypeOK, ControllerHello, ControllerSends, ControllerExits
  <2>3. WorkTypeOK' /\ \A d \in Controllers : console'[d] \in {"ok", "failed"} => console'[d] = console[d]
    BY <1>0, <2>1, <2>2 DEF WorkTypeOK
  <2> QED
    BY <1>1, <2>2, <2>3
<1>4. ASSUME NEW c \in Controllers, NEW ok \in BOOLEAN, ControllerPrints(c, ok) PROVE ReceiptInv'
  <2>1. /\ Proven(c, ok) /\ console' = [console EXCEPT ![c] = IF ok THEN "ok" ELSE "failed"]
        /\ UNCHANGED <<commands, results, station, handling, kept>>
    BY <1>4 DEF ControllerPrints, ReceiptInv
  <2>2. WorkTypeOK' /\ \A d \in Controllers : d # c => console'[d] = console[d]
    BY <1>0, <2>1 DEF WorkTypeOK
  <2>3. console'[c] = IF ok THEN "ok" ELSE "failed"
    BY <1>0, <2>1 DEF WorkTypeOK
  <2>4. \A d \in Controllers, o \in BOOLEAN : Proven(d, o) => Proven(d, o)'
    BY <2>1 DEF Proven
  <2>5. PrintedIsReceipted'
    <3>1. /\ console'[c] = "ok" => ok = TRUE
          /\ console'[c] = "failed" => ok = FALSE
      BY <2>3
    <3>2. /\ console'[c] = "ok" => Proven(c, TRUE)'
          /\ console'[c] = "failed" => Proven(c, FALSE)'
      BY <2>1, <2>4, <3>1
    <3>3. ASSUME NEW d \in Controllers, d # c
          PROVE  /\ console'[d] = "ok" => Proven(d, TRUE)'
                 /\ console'[d] = "failed" => Proven(d, FALSE)'
      BY <2>2, <2>4, <3>3 DEF ReceiptInv, PrintedIsReceipted
    <3> QED
      BY <3>2, <3>3 DEF PrintedIsReceipted
  <2>6. \A r \in results' : Proven(r.cmd, r.ok)'
    BY <2>1 DEF ReceiptInv, Proven
  <2> QED
    BY <1>0, <2>1, <2>2, <2>5, <2>6 DEF ReceiptInv
<1>5. CASE WorkerEnds
  <2>1. /\ handling' = Gone /\ UNCHANGED <<console, commands, results, kept>>
        /\ station' \in [alive : BOOLEAN, socket : 0 .. MaxSockets, open : BOOLEAN]
    BY <1>0, <1>5 DEF WorkerEnds, WorkTypeOK
  <2>2. ASSUME NEW t \in Handlings
        PROVE  /\ handling'[t] \in HandlingOf /\ handling'[t].at # "execute"
               /\ handling[t].at = "over" => handling'[t] = handling[t]
    BY <1>0, <2>1 DEF Gone, HandlingOf
  <2>3. WorkTypeOK' /\ OverStays
    BY <1>0, <2>1, <2>2 DEF WorkTypeOK, OverStays, Gone
  <2> QED
    BY <2>1, <2>2, <2>3, ReceiptsStay
<1>6. ASSUME NEW t \in Handlings, NEW h \in HandlingOf, handling' = [handling EXCEPT ![t] = h],
             handling[t].at # "over", h.at = "execute" => h.cmd \in Controllers,
             kept \subseteq kept', kept' \subseteq Handlings \X Statuses,
             results' \subseteq [cmd : Controllers, ok : BOOLEAN],
             \A r \in results' : r \in results \/ Proven(r.cmd, r.ok)',
             UNCHANGED <<console, commands, station>>
      PROVE  ReceiptInv'
  <2>1. WorkTypeOK' /\ OverStays
    BY <1>0, <1>6 DEF WorkTypeOK, OverStays
  <2>2. \A u \in Handlings : handling'[u].at = "execute" => handling'[u].cmd \in Controllers
    BY <1>0, <1>6
  <2> QED
    BY <1>6, <2>1, <2>2, ReceiptsStay
<1>7. ASSUME NEW t \in Handlings, NEW c \in Controllers, CommandArrives(t, c) PROVE ReceiptInv'
  <2>1. [at |-> "execute", cmd |-> c, socket |-> station.socket, did |-> FALSE] \in HandlingOf
    BY <1>0 DEF WorkTypeOK, HandlingOf
  <2> QED
    BY <1>0, <1>6, <1>7, <2>1 DEF CommandArrives, WorkTypeOK
<1>8. ASSUME NEW t \in Handlings, Execute(t) PROVE ReceiptInv'
  <2>1. PICK h : h = [handling[t] EXCEPT !.did = TRUE]
    OBVIOUS
  <2>2. h \in HandlingOf /\ h.at = "execute" /\ h.cmd \in Controllers
    BY <1>0, <1>8, <2>1 DEF Execute, HandlingOf
  <2>3. handling' = [handling EXCEPT ![t] = h]
    BY <1>0, <1>8, <2>1 DEF Execute
  <2> QED
    BY <1>0, <1>6, <1>8, <2>2, <2>3 DEF Execute, WorkTypeOK
<1>9. ASSUME NEW t \in Handlings, HandlingEnds(t) PROVE ReceiptInv'
  <2>1. PICK h : h = [handling[t] EXCEPT !.at = "over"]
    OBVIOUS
  <2>2. /\ h \in HandlingOf /\ h.at = "over" /\ h.cmd = handling[t].cmd /\ h.did = handling[t].did
        /\ handling[t].at = "execute" /\ h.cmd \in Controllers
    BY <1>0, <1>9, <2>1 DEF HandlingEnds, HandlingOf
  <2>3. handling' = [handling EXCEPT ![t] = h] /\ handling'[t] = h /\ UNCHANGED <<console, commands, station>>
    BY <1>0, <1>9, <2>1 DEF HandlingEnds
  <2>4. PICK status \in Outcomes(t) : ReceiptFirst(t, status)
    BY <1>9 DEF HandlingEnds
  <2>5. PICK told \in Statuses : /\ told = "PASS" => h.did
                                /\ kept' = kept \union {<<t, told>>} /\ Returns(t, told = "PASS")
    <3>1. CASE Returns(t, status = "PASS") /\ kept' = kept \union {<<t, status>>}
      BY <2>2, <2>4, <3>1 DEF Outcomes, Statuses
    <3>2. CASE Returns(t, FALSE) /\ kept' = kept \union {<<t, "BLOCKED">>}
      <4>1. "BLOCKED" \in Statuses /\ ("BLOCKED" = "PASS") = FALSE
        BY DEF Statuses
      <4> QED
        BY <3>2, <4>1
    <3> QED
      BY <2>4, <3>1, <3>2 DEF ReceiptFirst
  <2>6. Proven(h.cmd, told = "PASS")'
    <3>1. <<t, told>> \in kept' /\ told \in {"PASS", "FAIL", "BLOCKED"}
      BY <2>5 DEF Statuses
    <3>2. /\ handling'[t].at = "over" /\ handling'[t].cmd = h.cmd
          /\ IF told = "PASS" THEN handling'[t].did /\ <<t, "PASS">> \in kept'
             ELSE <<t, "FAIL">> \in kept' \/ <<t, "BLOCKED">> \in kept'
      BY <2>2, <2>3, <2>5, <3>1
    <3> QED
      BY <2>3, <3>2 DEF Proven
  <2>7. /\ results' \subseteq [cmd : Controllers, ok : BOOLEAN]
        /\ \A r \in results' : r \in results \/ r = [cmd |-> h.cmd, ok |-> told = "PASS"]
    <3>1. PICK b \in BOOLEAN : b = (told = "PASS") /\ Returns(t, b)
      BY <2>5
    <3>2. results' = results \/ results' = results \union {[cmd |-> h.cmd, ok |-> b]}
      BY <2>2, <3>1 DEF Returns
    <3>3. results \subseteq [cmd : Controllers, ok : BOOLEAN] /\ [cmd |-> h.cmd, ok |-> b] \in [cmd : Controllers, ok : BOOLEAN]
      BY <1>0, <2>2 DEF WorkTypeOK
    <3> QED
      BY <3>1, <3>2, <3>3
  <2>8. \A r \in results' : r \in results \/ Proven(r.cmd, r.ok)'
    BY <2>6, <2>7
  <2>9. kept' \subseteq Handlings \X Statuses /\ kept \subseteq kept'
    BY <1>0, <2>5 DEF WorkTypeOK
  <2> QED
    BY <1>6, <2>2, <2>3, <2>7, <2>8, <2>9
<1> QED
  BY <1>2, <1>3, <1>4, <1>5, <1>7, <1>8, <1>9 DEF WorkNext

(* What a controller prints has its receipt on the phone, and an ok its effect       *)
(* (PhoneWorkstation), for any commands, handlers, connections, failed receipts and   *)
(* restarts.                                                                   *)
THEOREM ReceiptedTheorem == WorkSpec => []PrintedIsReceipted
<1>1. ReceiptInv => PrintedIsReceipted
  BY DEF ReceiptInv
<1> QED
  BY <1>1, WorkInitInv, WorkNextInv, PTL DEF WorkSpec

-------------------------------------------------------------------------------
(* The read-aloud application.  What a sequence holds, and what taking its head and     *)
(* appending make of that.                                                      *)
Held(s) == {s[k] : k \in DOMAIN s}
(* The head and what is behind it. *)
LEMMA HeldTail ==
  ASSUME NEW S, NEW s \in Seq(S), s # <<>>
  PROVE  /\ Head(s) \in S /\ Tail(s) \in Seq(S) /\ Held(s) = {Head(s)} \union Held(Tail(s)) /\ Held(s) \subseteq S
         /\ Tail(s) # <<>> => Tail(s)[Len(Tail(s))] = s[Len(s)]
         /\ Tail(s) = <<>> => Head(s) = s[Len(s)] /\ Held(Tail(s)) = {}
<1>1. /\ Head(s) = s[1] /\ Tail(s) \in Seq(S) /\ Len(Tail(s)) = Len(s) - 1 /\ Len(s) \in Nat /\ Len(s) >= 1
      /\ \A k \in 1 .. Len(s) - 1 : Tail(s)[k] = s[k + 1]
      /\ DOMAIN s = 1 .. Len(s) /\ DOMAIN Tail(s) = 1 .. Len(s) - 1
      /\ \A k \in 1 .. Len(s) : s[k] \in S
  OBVIOUS
<1>2. ASSUME NEW x \in Held(s) PROVE x = Head(s) \/ x \in Held(Tail(s))
  <2>1. PICK k \in 1 .. Len(s) : x = s[k]
    BY <1>1 DEF Held
  <2>2. CASE k # 1
    <3>1. PICK j \in 1 .. Len(s) - 1 : k = j + 1
      BY <1>1, <2>2
    <3>2. x = Tail(s)[j] /\ j \in DOMAIN Tail(s)
      BY <1>1, <2>1, <3>1
    <3> QED
      BY <3>2 DEF Held
  <2> QED
    BY <1>1, <2>1, <2>2
<1>3. Head(s) \in Held(s) /\ Held(Tail(s)) \subseteq Held(s)
  BY <1>1 DEF Held
<1>4. Held(s) \subseteq S
  BY <1>1 DEF Held
<1>5. Tail(s) # <<>> => Tail(s)[Len(Tail(s))] = s[Len(s)]
  BY <1>1
<1>6. Tail(s) = <<>> => Head(s) = s[Len(s)] /\ Held(Tail(s)) = {}
  BY <1>1 DEF Held
<1> QED
  BY <1>1, <1>2, <1>3, <1>4, <1>5, <1>6

(* One element more. *)
LEMMA HeldAppend ==
  ASSUME NEW S, NEW s \in Seq(S), NEW e \in S
  PROVE  Append(s, e) \in Seq(S) /\ Held(Append(s, e)) = Held(s) \union {e}
<1>1. /\ Append(s, e) \in Seq(S) /\ DOMAIN Append(s, e) = 1 .. Len(s) + 1 /\ DOMAIN s = 1 .. Len(s) /\ Len(s) \in Nat
      /\ \A k \in 1 .. Len(s) : Append(s, e)[k] = s[k]
      /\ Append(s, e)[Len(s) + 1] = e
  OBVIOUS
<1> QED
  BY <1>1 DEF Held

(* Short sequences. *)
LEMMA HeldOne == ASSUME NEW S, NEW a \in S PROVE <<a>> \in Seq(S) /\ Held(<<a>>) = {a}
  BY DEF Held
(* Two elements. *)
LEMMA HeldTwo == ASSUME NEW S, NEW a \in S, NEW b \in S PROVE <<a, b>> \in Seq(S) /\ Held(<<a, b>>) = {a, b}
<1>1. DOMAIN <<a, b>> = 1 .. 2
  OBVIOUS
<1> QED
  BY <1>1 DEF Held
(* Three elements. *)
LEMMA HeldThree ==
  ASSUME NEW S, NEW a \in S, NEW b \in S, NEW c \in S
  PROVE  <<a, b, c>> \in Seq(S) /\ Held(<<a, b, c>>) = {a, b, c}
<1>1. DOMAIN <<a, b, c>> = 1 .. 3
  OBVIOUS
<1> QED
  BY <1>1 DEF Held

-------------------------------------------------------------------------------
(* The steps of requests and callbacks: only a request sets speaking, and then its last *)
(* step posts something to play.                                                *)
Ids == Streams \union {NoStream}
Quiet ==
  [do : {"speaking"}, arg : {FALSE}] \union [do : {"streaming", "muted"}, arg : BOOLEAN]
    \union [do : {"active"}, arg : Ids] \union [do : {"post"}, arg : [js : {"prepare", "chunk", "end", "stop"}, id : Ids]]
Loud == [do : {"speaking"}, arg : {TRUE}] \union [do : {"post"}, arg : [js : {"speak", "start"}, id : Ids]]
Readies == [do : {"ready"}, arg : {TRUE}]
HandlerSteps == Quiet \union Readies
Scripts == [js : {"prepare", "chunk", "end", "stop", "speak", "start", "destroy"}, id : Ids]
Reported == {"bridge", "ready", "spoken", "streamed", "stopped", "error"}
PostsPlay(step) == step.do = "post" /\ Plays(step.arg)
Speaks(step) == step.do = "speaking" /\ step.arg = TRUE
Falls(step) == step.do = "speaking" /\ step.arg = FALSE
ReadTypes ==
  /\ muted \in BOOLEAN /\ voiceReady \in BOOLEAN
  /\ flags \in [speaking : BOOLEAN, streaming : BOOLEAN, active : Ids]
  /\ caller \in [Callers -> [route : Routes \union {"none"}, id : Ids, at : {"new", "host", "runs", "over"},
                             todo : Seq(Quiet \union Loud)]]
  /\ posted \in Seq(Scripts)
  /\ page \in {"absent", "loading", "quiet", "playing"}
  /\ callbacks \in Seq(Reported)
  /\ bridge \in Seq(Quiet \union Readies)
  /\ ended \in {"no", "posted", "yes"} /\ unheard \in BOOLEAN
CallersInv ==
  \A c \in Callers :
    /\ caller[c].at # "new" => caller[c].route \in Routes
    /\ caller[c].at # "runs" => caller[c].todo = <<>>
    /\ (\E step \in Held(caller[c].todo) : Speaks(step)) => PostsPlay(caller[c].todo[Len(caller[c].todo)])

(* Until the host is destroyed, whoever believes in a page has one. *)
Believed ==
  \/ voiceReady \/ "ready" \in Held(callbacks)
  \/ \E step \in Held(bridge) : step.do = "ready"
  \/ \E js \in Held(posted) : Plays(js)
  \/ \E c \in Callers : \E step \in Held(caller[c].todo) : PostsPlay(step)
PageInv == ended # "yes" /\ Believed => page \in {"quiet", "playing"}

(* What will clear speaking, or that nothing reported the failure that should have. *)
Awaited ==
  \/ page = "playing" \/ unheard \/ \E step \in Held(bridge) : Falls(step)
  \/ \E js \in Held(posted) : Plays(js)
  \/ \E cb \in Held(callbacks) : cb \in {"spoken", "streamed", "stopped", "error"}
  \/ \E c \in Callers : \E step \in Held(caller[c].todo) : Falls(step) \/ PostsPlay(step)
SpeakingInv == flags.speaking /\ ended # "yes" => Awaited
ReadInv == ReadTypes /\ CallersInv /\ PageInv /\ SpeakingInv

(* Every initial state satisfies the invariant. *)
LEMMA ReadInitInv == ReadInit => ReadInv
<1> SUFFICES ASSUME ReadInit PROVE ReadInv
  OBVIOUS
<1>1. Prepare.arg \in Scripts /\ ~Plays(Prepare.arg)
  BY DEF Prepare, Post, Ids, Plays, Scripts
<1>2. /\ <<>> \in Seq(Quiet \union Loud) /\ <<>> \in Seq(Quiet \union Readies)
      /\ <<>> \in Seq(Reported)
      /\ Held(<<>>) = {}
  BY DEF Held
<1>3. Held(posted) = {Prepare.arg} /\ posted \in Seq(Scripts)
  BY <1>1 DEF ReadInit, Held
<1>4. ReadTypes
  BY <1>2, <1>3 DEF ReadInit, ReadTypes, Ids
<1>5. CallersInv
  BY <1>2 DEF ReadInit, CallersInv
<1>6. ~Believed
  BY <1>1, <1>2, <1>3 DEF ReadInit, Believed
<1> QED
  BY <1>4, <1>5, <1>6 DEF ReadInit, ReadInv, PageInv, SpeakingInv

(* The invariant gives the property. *)
LEMMA ReadInvGives == ReadInv => SpeakingEnds
<1> SUFFICES ASSUME ReadInv, flags.speaking, ended # "yes" PROVE SpeakingEnds
  BY DEF SpeakingEnds
<1>1. Awaited
  BY DEF ReadInv, SpeakingInv
<1>2. ASSUME NEW s, NEW x \in Held(s), Falls(x), x \in Quiet \union Loud \union Readies PROVE Clears(s)
  <2>1. x = Set("speaking", FALSE)
    BY <1>2 DEF Falls, Quiet, Loud, Readies, Set
  <2> QED
    BY <1>2, <2>1 DEF Held, Clears
<1>3. CASE page = "playing" \/ unheard \/ (\E js \in Held(posted) : Plays(js))
           \/ \E cb \in Held(callbacks) : cb \in {"spoken", "streamed", "stopped", "error"}
  BY <1>3 DEF SpeakingEnds, Held
<1>4. CASE \E step \in Held(bridge) : Falls(step)
  <2>1. Held(bridge) \subseteq Quiet \union Readies
    BY DEF ReadInv, ReadTypes, Held
  <2> QED
    BY <1>2, <1>4, <2>1 DEF SpeakingEnds
<1>5. ASSUME NEW c \in Callers, NEW step \in Held(caller[c].todo), Falls(step) \/ PostsPlay(step) PROVE SpeakingEnds
  <2>1. caller[c].todo \in Seq(Quiet \union Loud)
    BY DEF ReadInv, ReadTypes
  <2>2. step \in Quiet \union Loud
    BY <2>1 DEF Held
  <2>3. CASE Falls(step)
    BY <1>2, <2>2, <2>3 DEF SpeakingEnds
  <2>4. CASE PostsPlay(step)
    BY <2>4 DEF SpeakingEnds, Held, PostsPlay
  <2> QED
    BY <1>5, <2>3, <2>4
<1> QED
  BY <1>1, <1>3, <1>4, <1>5 DEF Awaited

-------------------------------------------------------------------------------
(* A write or a post and what it makes of the flags and the main thread's queue. *)
LEMMA Performed ==
  ASSUME ReadTypes, NEW step \in Quiet \union Loud \union Readies, Performs(step)
  PROVE  /\ muted' \in BOOLEAN /\ voiceReady' \in BOOLEAN
         /\ flags' \in [speaking : BOOLEAN, streaming : BOOLEAN, active : Ids]
         /\ posted' \in Seq(Scripts)
         /\ voiceReady' => voiceReady \/ step.do = "ready"
         /\ flags'.speaking => Speaks(step) \/ (flags.speaking /\ ~Falls(step))
         /\ Held(posted) \subseteq Held(posted')
         /\ \A js \in Held(posted') : js \in Held(posted) \/ (step.do = "post" /\ js = step.arg)
         /\ step.do = "post" => step.arg \in Held(posted')
         /\ unheard' \in BOOLEAN /\ (unheard => unheard' \/ Speaks(step) \/ Falls(step))
<1>1. /\ step.do \in {"speaking", "streaming", "muted", "active", "post", "ready"}
      /\ step.do \in {"speaking", "streaming", "muted", "ready"} => step.arg \in BOOLEAN
      /\ step.do = "active" => step.arg \in Ids
      /\ step.do = "post" => step.arg \in Scripts
  BY DEF Quiet, Loud, Readies, Scripts
<1>2. muted' \in BOOLEAN /\ voiceReady' \in BOOLEAN /\ (voiceReady' => voiceReady \/ step.do = "ready")
  BY <1>1 DEF Performs, ReadTypes
<1>3. flags' \in [speaking : BOOLEAN, streaming : BOOLEAN, active : Ids]
      /\ (flags'.speaking => Speaks(step) \/ (flags.speaking /\ ~Falls(step)))
  <2>1. CASE step.do = "speaking"
    BY <1>1, <2>1 DEF Performs, ReadTypes, Speaks, Falls
  <2>2. CASE step.do = "streaming"
    BY <1>1, <2>2 DEF Performs, ReadTypes, Speaks, Falls
  <2>3. CASE step.do = "active"
    BY <1>1, <2>3 DEF Performs, ReadTypes, Speaks, Falls
  <2>4. CASE step.do \in {"muted", "post", "ready"}
    BY <1>1, <2>4 DEF Performs, ReadTypes, Speaks, Falls
  <2> QED
    BY <1>1, <2>1, <2>2, <2>3, <2>4
<1>4. /\ posted' \in Seq(Scripts)
      /\ step.do = "post" => Held(posted') = Held(posted) \union {step.arg}
      /\ step.do # "post" => Held(posted') = Held(posted)
  <2>1. posted \in Seq(Scripts)
    BY DEF ReadTypes
  <2>2. CASE step.do = "post"
    <3>1. posted' = Append(posted, step.arg)
      BY <2>2 DEF Performs
    <3> QED
      BY <1>1, <2>1, <2>2, <3>1, HeldAppend
  <2>3. CASE step.do # "post"
    BY <2>1, <2>3 DEF Performs
  <2> QED
    BY <2>2, <2>3
<1>5. unheard' \in BOOLEAN /\ (unheard => unheard' \/ Speaks(step) \/ Falls(step))
  BY <1>1 DEF Performs, ReadTypes, Speaks, Falls
<1> QED
  BY <1>2, <1>3, <1>4, <1>5

LEMMA CallerStepKeeps ==
  ASSUME ReadInv, NEW c \in Callers, CallerStep(c) PROVE ReadInv'
<1> DEFINE todo == caller[c].todo
           step == Head(todo)
<1>1. ReadTypes /\ todo \in Seq(Quiet \union Loud) /\ todo # <<>>
  BY DEF ReadInv, ReadTypes, CallerStep
<1>2. /\ step \in Quiet \union Loud /\ Tail(todo) \in Seq(Quiet \union Loud)
      /\ Held(todo) = {step} \union Held(Tail(todo))
      /\ Tail(todo) # <<>> => Tail(todo)[Len(Tail(todo))] = todo[Len(todo)]
      /\ Tail(todo) = <<>> => step = todo[Len(todo)] /\ Held(Tail(todo)) = {}
  BY <1>1, HeldTail
<1>3. Performs(step) /\ UNCHANGED <<page, callbacks, bridge, ended>>
  BY DEF CallerStep
<1>4. PICK r \in [route : Routes \union {"none"}, id : Ids, at : {"new", "host", "runs", "over"}, todo : Seq(Quiet \union Loud)] :
        r.todo = Tail(todo) /\ r.at = caller[c].at /\ r.route = caller[c].route /\ caller' = [caller EXCEPT ![c] = r]
  <2>1. caller[c] \in [route : Routes \union {"none"}, id : Ids, at : {"new", "host", "runs", "over"}, todo : Seq(Quiet \union Loud)]
    BY <1>1 DEF ReadTypes
  <2>2. caller' = [caller EXCEPT ![c] = [caller[c] EXCEPT !.todo = Tail(todo)]]
    BY DEF CallerStep
  <2>3. [caller[c] EXCEPT !.todo = Tail(todo)] \in
          [route : Routes \union {"none"}, id : Ids, at : {"new", "host", "runs", "over"}, todo : Seq(Quiet \union Loud)]
        /\ [caller[c] EXCEPT !.todo = Tail(todo)].todo = Tail(todo)
        /\ [caller[c] EXCEPT !.todo = Tail(todo)].at = caller[c].at
        /\ [caller[c] EXCEPT !.todo = Tail(todo)].route = caller[c].route
    BY <1>2, <2>1
  <2> QED
    BY <2>2, <2>3
<1>5. /\ caller'[c].todo = Tail(todo) /\ caller'[c].at = caller[c].at /\ caller'[c].route = caller[c].route
      /\ \A k \in Callers \ {c} : caller'[k] = caller[k]
  BY <1>1, <1>4 DEF ReadTypes
<1>6. /\ muted' \in BOOLEAN /\ voiceReady' \in BOOLEAN
      /\ flags' \in [speaking : BOOLEAN, streaming : BOOLEAN, active : Ids]
      /\ posted' \in Seq(Scripts)
      /\ voiceReady' => voiceReady
      /\ flags'.speaking => Speaks(step) \/ (flags.speaking /\ ~Falls(step))
      /\ Held(posted) \subseteq Held(posted')
      /\ \A js \in Held(posted') : js \in Held(posted) \/ (step.do = "post" /\ js = step.arg)
      /\ step.do = "post" => step.arg \in Held(posted')
      /\ unheard' \in BOOLEAN /\ (unheard => unheard' \/ Speaks(step) \/ Falls(step))
  <2>1. step.do # "ready"
    BY <1>2 DEF Quiet, Loud
  <2> QED
    BY <1>1, <1>2, <1>3, <2>1, Performed
<1>7. ReadTypes'
  <2>1. caller' \in [Callers -> [route : Routes \union {"none"}, id : Ids, at : {"new", "host", "runs", "over"},
                                 todo : Seq(Quiet \union Loud)]]
    BY <1>1, <1>4 DEF ReadTypes
  <2> QED
    BY <1>1, <1>3, <1>6, <2>1 DEF ReadTypes
<1> HIDE DEF todo, step
<1>8. CallersInv'
  <2> SUFFICES ASSUME NEW k \in Callers
               PROVE  /\ caller'[k].at # "new" => caller'[k].route \in Routes
                      /\ caller'[k].at # "runs" => caller'[k].todo = <<>>
                      /\ (\E s \in Held(caller'[k].todo) : Speaks(s)) => PostsPlay(caller'[k].todo[Len(caller'[k].todo)])
    BY DEF CallersInv
  <2>1. CASE k # c
    BY <1>5, <2>1 DEF ReadInv, CallersInv
  <2>2. CASE k = c
    <3>1. caller[c].at = "runs" /\ caller[c].route \in Routes
      BY <1>1 DEF ReadInv, CallersInv, todo
    <3>2. (\E s \in Held(todo) : Speaks(s)) => PostsPlay(todo[Len(todo)])
      BY DEF ReadInv, CallersInv, todo
    <3> QED
      BY <1>2, <1>5, <2>2, <3>1, <3>2
  <2> QED
    BY <2>1, <2>2
<1>9. Held(caller[c].todo) = {step} \union Held(caller'[c].todo)
  BY <1>2, <1>5 DEF todo
<1>10. PageInv'
  <2>1. Believed' => Believed
    <3> SUFFICES ASSUME Believed' PROVE Believed
      OBVIOUS
    <3>1. CASE voiceReady' \/ "ready" \in Held(callbacks') \/ \E s \in Held(bridge') : s.do = "ready"
      BY <1>3, <1>6, <3>1 DEF Believed
    <3>2. ASSUME NEW js \in Held(posted'), Plays(js) PROVE Believed
      BY <1>6, <1>9, <3>2 DEF Believed, PostsPlay
    <3>3. ASSUME NEW k \in Callers, NEW s \in Held(caller'[k].todo), PostsPlay(s) PROVE Believed
      BY <1>5, <1>9, <3>3 DEF Believed
    <3> QED
      BY <3>1, <3>2, <3>3 DEF Believed
  <2> QED
    BY <1>3, <2>1 DEF ReadInv, PageInv
<1>11. SpeakingInv'
  <2> SUFFICES ASSUME flags'.speaking, ended' # "yes" PROVE Awaited'
    BY DEF SpeakingInv
  <2>1. CASE Speaks(step)
    <3>1. PostsPlay(todo[Len(todo)])
      BY <1>2, <2>1 DEF ReadInv, CallersInv, todo
    <3>2. Tail(todo) # <<>>
      BY <1>2, <2>1, <3>1 DEF Speaks, PostsPlay
    <3>3. Tail(todo)[Len(Tail(todo))] \in Held(Tail(todo))
      <4>1. Tail(todo) \in Seq(Quiet \union Loud) /\ Tail(todo) # <<>>
        BY <1>2, <3>2
      <4>2. Len(Tail(todo)) \in DOMAIN Tail(todo)
        BY <4>1
      <4> QED
        BY <4>2 DEF Held
    <3>4. caller'[c].todo[Len(caller'[c].todo)] \in Held(caller'[c].todo) /\ PostsPlay(caller'[c].todo[Len(caller'[c].todo)])
      BY <1>2, <1>5, <3>1, <3>2, <3>3
    <3> QED
      BY <3>4 DEF Awaited
  <2>2. CASE flags.speaking /\ ~Speaks(step) /\ ~Falls(step)
    <3>1. Awaited
      BY <1>3, <2>2 DEF ReadInv, SpeakingInv
    <3>2. CASE \/ page = "playing" \/ unheard \/ \E s \in Held(bridge) : Falls(s)
               \/ \E js \in Held(posted) : Plays(js)
               \/ \E cb \in Held(callbacks) : cb \in {"spoken", "streamed", "stopped", "error"}
      BY <1>3, <1>6, <2>2, <3>2 DEF Awaited
    <3>3. ASSUME NEW k \in Callers, NEW s \in Held(caller[k].todo), Falls(s) \/ PostsPlay(s) PROVE Awaited'
      <4>1. CASE k # c
        BY <1>5, <3>3, <4>1 DEF Awaited
      <4>2. CASE k = c /\ s # step
        BY <1>9, <3>3, <4>2 DEF Awaited
      <4>3. CASE s = step
        BY <1>6, <2>2, <3>3, <4>3 DEF Awaited, PostsPlay
      <4> QED
        BY <4>1, <4>2, <4>3
    <3> QED
      BY <3>1, <3>2, <3>3 DEF Awaited
  <2> QED
    BY <1>6, <2>1, <2>2
<1> QED
  BY <1>7, <1>8, <1>10, <1>11 DEF ReadInv

(* Steps that leave the requests alone. *)
LEMMA CallersStay == ASSUME CallersInv, UNCHANGED caller PROVE CallersInv'
  BY DEF CallersInv

LEMMA BridgeStepKeeps == ASSUME ReadInv, BridgeStep PROVE ReadInv'
<1>1. /\ ReadTypes /\ bridge \in Seq(Quiet \union Readies) /\ bridge # <<>>
      /\ Performs(Head(bridge)) /\ bridge' = Tail(bridge) /\ UNCHANGED <<caller, page, callbacks, ended>>
  BY DEF ReadInv, ReadTypes, BridgeStep
<1>2. PICK step \in Quiet \union Readies :
        step = Head(bridge) /\ Held(bridge) = {step} \union Held(bridge') /\ bridge' \in Seq(Quiet \union Readies)
  BY <1>1, HeldTail
<1>3. /\ muted' \in BOOLEAN /\ voiceReady' \in BOOLEAN
      /\ flags' \in [speaking : BOOLEAN, streaming : BOOLEAN, active : Ids]
      /\ posted' \in Seq(Scripts)
      /\ voiceReady' => voiceReady \/ step.do = "ready"
      /\ flags'.speaking => Speaks(step) \/ (flags.speaking /\ ~Falls(step))
      /\ Held(posted) \subseteq Held(posted')
      /\ \A js \in Held(posted') : js \in Held(posted) \/ (step.do = "post" /\ js = step.arg)
      /\ unheard' \in BOOLEAN /\ (unheard => unheard' \/ Speaks(step) \/ Falls(step))
  BY <1>1, <1>2, Performed
<1>4. ~Speaks(step) /\ (step.do = "post" => ~Plays(step.arg))
  BY <1>2 DEF Quiet, Readies, Speaks, Plays
<1>5. ReadTypes'
  BY <1>1, <1>2, <1>3 DEF ReadTypes
<1>6. PageInv'
  <2>1. Believed' => Believed
    BY <1>1, <1>2, <1>3, <1>4 DEF Believed
  <2> QED
    BY <1>1, <2>1 DEF ReadInv, PageInv
<1>7. SpeakingInv'
  <2> SUFFICES ASSUME flags'.speaking, ended' # "yes" PROVE Awaited'
    BY DEF SpeakingInv
  <2>1. Awaited /\ ~Falls(step)
    BY <1>1, <1>3, <1>4 DEF ReadInv, SpeakingInv
  <2> QED
    BY <1>1, <1>2, <1>3, <1>4, <2>1 DEF Awaited
<1> QED
  BY <1>1, <1>5, <1>6, <1>7, CallersStay DEF ReadInv

LEMMA BridgeTakesKeeps == ASSUME ReadInv, BridgeTakes PROVE ReadInv'
<1>1. /\ ReadTypes /\ bridge = <<>> /\ callbacks # <<>> /\ bridge' = Handler(Head(callbacks))
      /\ callbacks' = Tail(callbacks)
      /\ UNCHANGED <<muted, voiceReady, flags, caller, posted, page, ended, unheard>>
  BY DEF ReadInv, BridgeTakes
<1>2. /\ Head(callbacks) \in Reported
      /\ callbacks' \in Seq(Reported)
      /\ Held(callbacks) = {Head(callbacks)} \union Held(callbacks')
  BY <1>1, HeldTail DEF ReadTypes, Reported
<1>3. PICK p, r, f, g, h \in HandlerSteps :
        /\ p = Prepare /\ r = Set("ready", TRUE) /\ f = Set("speaking", FALSE) /\ g = Set("streaming", FALSE)
        /\ h = Set("active", NoStream) /\ Falls(f)
        /\ p.do # "ready" /\ f.do # "ready" /\ g.do # "ready" /\ h.do # "ready"
  <2>1. Prepare \in Quiet /\ Prepare.do # "ready"
    BY DEF Prepare, Post, Quiet, Ids
  <2>2. Set("ready", TRUE) \in Readies
    BY DEF Set, Readies
  <2>3. /\ Set("speaking", FALSE) \in Quiet /\ Set("speaking", FALSE).do # "ready" /\ Falls(Set("speaking", FALSE))
        /\ Set("streaming", FALSE) \in Quiet /\ Set("streaming", FALSE).do # "ready"
    BY DEF Set, Quiet, Falls
  <2>4. Set("active", NoStream) \in Quiet /\ Set("active", NoStream).do # "ready"
    BY DEF Set, Quiet, Ids
  <2> QED
    BY <2>1, <2>2, <2>3, <2>4 DEF HandlerSteps
<1>4. /\ bridge' \in Seq(HandlerSteps)
      /\ (\E step \in Held(bridge') : step.do = "ready") => Head(callbacks) = "ready"
      /\ Head(callbacks) \in {"spoken", "streamed", "stopped", "error"} => \E step \in Held(bridge') : Falls(step)
  <2>0. /\ <<p>> \in Seq(HandlerSteps) /\ Held(<<p>>) = {p}
        /\ <<f>> \in Seq(HandlerSteps) /\ Held(<<f>>) = {f}
        /\ <<f, g>> \in Seq(HandlerSteps) /\ Held(<<f, g>>) = {f, g}
        /\ <<f, g, h>> \in Seq(HandlerSteps) /\ Held(<<f, g, h>>) = {f, g, h}
    BY HeldOne, HeldTwo, HeldThree
  <2>1. CASE bridge' = <<p>> /\ Head(callbacks) = "bridge"
    BY <1>3, <2>0, <2>1
  <2>2. CASE bridge' = <<r>> /\ Head(callbacks) = "ready"
    BY <1>3, <2>2, HeldOne
  <2>3. CASE bridge' = <<f>> \/ bridge' = <<f, g>> \/ bridge' = <<f, g, h>>
    <3>1. Held(bridge') \in {{f}, {f, g}, {f, g, h}} /\ bridge' \in Seq(HandlerSteps)
      BY <2>0, <2>3
    <3> QED
      BY <1>3, <3>1
  <2>4. \/ Head(callbacks) = "bridge" /\ bridge' = <<p>>
        \/ Head(callbacks) = "ready" /\ bridge' = <<r>>
        \/ bridge' = <<f>> \/ bridge' = <<f, g>> \/ bridge' = <<f, g, h>>
    BY <1>1, <1>2, <1>3 DEF Handler, Silenced, ErrorNoticed, Reported
  <2> QED
    BY <2>1, <2>2, <2>3, <2>4
<1>5. ReadTypes'
  BY <1>1, <1>2, <1>4 DEF ReadTypes, HandlerSteps
<1>6. PageInv'
  <2>1. Believed' => Believed
    BY <1>1, <1>2, <1>4 DEF Believed
  <2> QED
    BY <1>1, <2>1 DEF ReadInv, PageInv
<1>7. SpeakingInv'
  <2> SUFFICES ASSUME flags'.speaking, ended' # "yes" PROVE Awaited'
    BY DEF SpeakingInv
  <2>1. Awaited /\ Held(bridge) = {}
    BY <1>1 DEF ReadInv, SpeakingInv, Held
  <2> QED
    BY <1>1, <1>2, <1>4, <2>1 DEF Awaited
<1> QED
  BY <1>1, <1>5, <1>6, <1>7, CallersStay DEF ReadInv

(* The page reports, and the main thread takes the head of its queue. *)
LEMMA PageKeeps ==
  ASSUME ReadInv, NEW cb \in {"bridge", "spoken", "streamed", "error"}, Reports(cb), page' = "quiet",
         page = "playing" => cb # "bridge", page \in {"loading", "playing"},
         UNCHANGED <<muted, voiceReady, flags, caller, posted, bridge, ended, unheard>>
  PROVE  ReadInv'
<1>0. cb \in Reported /\ callbacks \in Seq(Reported) /\ callbacks' = Append(callbacks, cb)
  BY DEF ReadInv, ReadTypes, Reports, Reported
<1>1. callbacks' \in Seq(Reported) /\ Held(callbacks') = Held(callbacks) \union {cb}
  BY <1>0, HeldAppend
<1>2. ReadTypes'
  BY <1>1 DEF ReadInv, ReadTypes
<1>3. PageInv'
  BY DEF PageInv
<1>4. SpeakingInv'
  BY <1>1 DEF ReadInv, SpeakingInv, Awaited
<1> QED
  BY <1>2, <1>3, <1>4, CallersStay DEF ReadInv

LEMMA MainRunsKeeps == ASSUME ReadInv, MainRuns PROVE ReadInv'
<1>1. /\ ReadTypes /\ posted # <<>> /\ posted' = Tail(posted)
      /\ UNCHANGED <<muted, voiceReady, flags, caller, bridge, ended, unheard>>
  BY DEF ReadInv, MainRuns
<1>2. PICK it \in Scripts :
        /\ it = Head(posted) /\ Held(posted) = {it} \union Held(posted')
        /\ posted' \in Seq(Scripts)
  BY <1>1, HeldTail DEF ReadTypes
<1>3. ASSUME NEW cb \in {"ready", "stopped"}, Reports(cb)
      PROVE  /\ callbacks' \in Seq(Reported)
             /\ Held(callbacks') = Held(callbacks) \union {cb}
  <2>1. cb \in Reported /\ callbacks \in Seq(Reported) /\ callbacks' = Append(callbacks, cb)
    BY <1>1, <1>3 DEF ReadTypes, Reports, Reported
  <2> QED
    BY <2>1, HeldAppend
<1>4. \/ it.js = "prepare" /\ page = "absent" /\ page' \in {"loading", "absent"} /\ UNCHANGED callbacks
      \/ it.js = "prepare" /\ page \in {"quiet", "playing"} /\ UNCHANGED page /\ Reports("ready")
      \/ it.js \in {"speak", "start"} /\ page \in {"quiet", "playing"} /\ page' = "playing" /\ UNCHANGED callbacks
      \/ it.js = "stop" /\ page \in {"quiet", "playing"} /\ page' = "quiet" /\ Reports("stopped")
      \/ /\ it.js \in {"chunk", "end"} \/ page = "loading" \/ (page = "absent" /\ it.js # "prepare")
         /\ it.js # "destroy" /\ UNCHANGED <<page, callbacks>>
  BY <1>2 DEF MainRuns
<1>5. /\ page' \in {"absent", "loading", "quiet", "playing"}
      /\ page \in {"quiet", "playing"} => page' \in {"quiet", "playing"}
      /\ callbacks' \in Seq(Reported)
      /\ Held(callbacks) \subseteq Held(callbacks')
      /\ "ready" \in Held(callbacks') => "ready" \in Held(callbacks) \/ page' \in {"quiet", "playing"}
      /\ page = "playing" => page' = "playing" \/ "stopped" \in Held(callbacks')
      /\ page \in {"quiet", "playing"} /\ Plays(it) => page' = "playing"
  BY <1>1, <1>3, <1>4 DEF ReadTypes, Plays
<1>6. ReadTypes'
  BY <1>1, <1>2, <1>5 DEF ReadTypes
<1>7. PageInv'
  <2>1. Believed' => Believed \/ page' \in {"quiet", "playing"}
    BY <1>1, <1>2, <1>5 DEF Believed
  <2> QED
    BY <1>1, <1>5, <2>1 DEF ReadInv, PageInv
<1>8. SpeakingInv'
  <2> SUFFICES ASSUME flags'.speaking, ended' # "yes" PROVE Awaited'
    BY DEF SpeakingInv
  <2>1. Awaited /\ (Believed => page \in {"quiet", "playing"})
    BY <1>1 DEF ReadInv, SpeakingInv, PageInv
  <2>2. Plays(it) => page \in {"quiet", "playing"}
    BY <1>2, <2>1 DEF Believed
  <2> QED
    BY <1>1, <1>2, <1>5, <2>1, <2>2 DEF Awaited
<1> QED
  BY <1>1, <1>6, <1>7, <1>8, CallersStay DEF ReadInv

LEMMA ScriptFailsKeeps == ASSUME ReadInv, ScriptFails PROVE ReadInv'
<1>1. /\ ReadTypes /\ posted # <<>> /\ posted' = Tail(posted)
      /\ unheard' = (unheard \/ Plays(Head(posted)))
      /\ UNCHANGED <<muted, voiceReady, flags, caller, page, callbacks, bridge, ended>>
  BY DEF ReadInv, ScriptFails
<1>2. posted' \in Seq(Scripts) /\ Held(posted) = {Head(posted)} \union Held(posted')
  BY <1>1, HeldTail DEF ReadTypes
<1>3. ReadTypes'
  BY <1>1, <1>2 DEF ReadTypes, Plays
<1>4. Believed' => Believed
  BY <1>1, <1>2 DEF Believed
<1>5. Awaited => Awaited'
  BY <1>1, <1>2 DEF Awaited
<1> QED
  BY <1>1, <1>3, <1>4, <1>5, CallersStay DEF ReadInv, PageInv, SpeakingInv

LEMMA PageGivesUpKeeps == ASSUME ReadInv, PageGivesUp PROVE ReadInv'
<1>1. ReadTypes' /\ Awaited'
  BY DEF PageGivesUp, ReadInv, ReadTypes, Awaited
<1> QED
  BY <1>1, CallersStay DEF PageGivesUp, ReadInv, PageInv, SpeakingInv

LEMMA MainDestroysKeeps == ASSUME ReadInv, MainDestroys PROVE ReadInv'
<1>1. posted' \in Seq(Scripts)
  BY HeldTail DEF MainDestroys, ReadInv, ReadTypes
<1>2. ReadTypes'
  BY <1>1, EmptySeq DEF MainDestroys, ReadInv, ReadTypes, Ids
<1> QED
  BY <1>2, CallersStay DEF MainDestroys, ReadInv, PageInv, SpeakingInv

LEMMA DestroyHostKeeps == ASSUME ReadInv, DestroyHost PROVE ReadInv'
<1>1. PICK it \in Scripts : posted' = Append(posted, it) /\ ~Plays(it)
  BY DEF DestroyHost, Scripts, Post, Ids, Plays
<1>2. posted' \in Seq(Scripts) /\ Held(posted') = Held(posted) \union {it}
  BY <1>1, HeldAppend DEF ReadInv, ReadTypes
<1>3. ReadTypes'
  BY <1>2 DEF DestroyHost, ReadInv, ReadTypes
<1>4. Believed' => Believed
  BY <1>1, <1>2 DEF DestroyHost, Believed
<1>5. Awaited => Awaited'
  BY <1>2 DEF DestroyHost, Awaited
<1> QED
  BY <1>3, <1>4, <1>5, CallersStay DEF DestroyHost, ReadInv, PageInv, SpeakingInv

(* A request whose next steps change: nothing but what they hold does. *)
LEMMA CallerMoves ==
  ASSUME ReadInv, NEW c \in Callers, caller[c].todo = <<>>,
         NEW route \in Routes \union {"none"}, NEW id \in Ids, NEW at \in {"new", "host", "runs", "over"},
         NEW todo \in Seq(Quiet \union Loud),
         caller' = [caller EXCEPT ![c] = [route |-> route, id |-> id, at |-> at, todo |-> todo]],
         at # "new" => route \in Routes, at # "runs" => todo = <<>>,
         (\E step \in Held(todo) : Speaks(step)) => PostsPlay(todo[Len(todo)]),
         (\E step \in Held(todo) : PostsPlay(step)) => voiceReady,
         UNCHANGED <<muted, voiceReady, flags, posted, page, callbacks, bridge, ended, unheard>>
  PROVE  ReadInv'
<1>1. /\ caller'[c].todo = todo /\ caller'[c].at = at /\ caller'[c].route = route
      /\ \A k \in Callers \ {c} : caller'[k] = caller[k]
      /\ Held(caller[c].todo) = {}
  BY DEF ReadInv, ReadTypes, Held
<1>2. ReadTypes'
  BY DEF ReadInv, ReadTypes
<1>3. CallersInv'
  BY <1>1 DEF ReadInv, CallersInv
<1>4. Believed' => Believed
  <2>1. ASSUME NEW k \in Callers, NEW step \in Held(caller'[k].todo), PostsPlay(step) PROVE Believed
    BY <1>1, <2>1 DEF Believed
  <2> QED
    BY <2>1 DEF Believed
<1>5. Awaited => Awaited'
  <2>1. ASSUME NEW k \in Callers, NEW step \in Held(caller[k].todo), Falls(step) \/ PostsPlay(step) PROVE Awaited'
    BY <1>1, <2>1 DEF Awaited
  <2> QED
    BY <2>1 DEF Awaited
<1> QED
  BY <1>2, <1>3, <1>4, <1>5 DEF ReadInv, PageInv, SpeakingInv

LEMMA ArriveKeeps ==
  ASSUME ReadInv, NEW c \in Callers, NEW route \in Routes, NEW id \in Streams \union {NoStream}, Arrive(c, route, id)
  PROVE  ReadInv'
<1>1. caller[c].at = "new" /\ caller[c].todo = <<>>
  BY DEF Arrive, ReadInv, CallersInv
<1>2. PICK at \in {"new", "host", "runs", "over"} :
        at # "runs" /\ caller' = [caller EXCEPT ![c] = [route |-> route, id |-> id, at |-> at, todo |-> <<>>]]
  BY DEF Arrive
<1>3. <<>> \in Seq(Quiet \union Loud) /\ Held(<<>>) = {} /\ id \in Ids
  BY DEF Held, Ids
<1>4. UNCHANGED <<muted, voiceReady, flags, posted, page, callbacks, bridge, ended, unheard>>
  BY DEF Arrive
<1>5. route \in Routes \union {"none"}
  OBVIOUS
<1> QED
  BY <1>1, <1>2, <1>3, <1>4, <1>5, CallerMoves

(* What a request does is quiet unless it speaks or starts a stream, which it does last. *)
LEMMA QuietSteps ==
  /\ Prepare \in Quiet /\ Set("speaking", FALSE) \in Quiet
  /\ \A flag \in {"streaming", "muted"}, b \in BOOLEAN : Set(flag, b) \in Quiet
  /\ \A id \in Ids : Set("active", id) \in Quiet
  /\ \A js \in {"chunk", "end", "stop"}, id \in Ids : Post(js, id) \in Quiet
  /\ \A step \in Quiet : ~Speaks(step) /\ ~PostsPlay(step)
<1>1. Prepare \in Quiet
  BY DEF Prepare, Post, Quiet, Ids
<1>2. Set("speaking", FALSE) \in Quiet /\ \A flag \in {"streaming", "muted"}, b \in BOOLEAN : Set(flag, b) \in Quiet
  BY DEF Set, Quiet
<1>3. \A id \in Ids : Set("active", id) \in Quiet
  BY DEF Set, Quiet
<1>4. \A js \in {"chunk", "end", "stop"}, id \in Ids : Post(js, id) \in Quiet
  BY DEF Post, Quiet
<1>5. \A step \in Quiet : ~Speaks(step) /\ ~PostsPlay(step)
  BY DEF Quiet, Speaks, PostsPlay, Plays
<1> QED
  BY <1>1, <1>2, <1>3, <1>4, <1>5

LEMMA Programs ==
  ASSUME ReadInv, NEW c \in Callers, caller[c].route \in Routes
  PROVE  /\ Program(c) \in Seq(Quiet \union Loud)
         /\ (\E step \in Held(Program(c)) : Speaks(step)) => PostsPlay(Program(c)[Len(Program(c))])
         /\ (\E step \in Held(Program(c)) : PostsPlay(step)) => voiceReady
<1> DEFINE r == caller[c].route
           id == caller[c].id
<1>1. r \in Routes /\ id \in Ids /\ NoStream \in Ids
  BY DEF ReadInv, ReadTypes, Ids
<1>2. ASSUME Program(c) \in Seq(Quiet)
      PROVE  /\ Program(c) \in Seq(Quiet \union Loud)
             /\ \A step \in Held(Program(c)) : ~Speaks(step) /\ ~PostsPlay(step)
  BY <1>2, QuietSteps DEF Held
<1>3. CASE r = "prepare" \/ (r \in {"speak", "start"} /\ ~Admitted(c))
  <2>1. Program(c) = <<Prepare>>
    BY <1>3 DEF Program
  <2> QED
    BY <1>2, <2>1, QuietSteps, HeldOne
<1>4. CASE r = "resume"
  <2>1. Program(c) = <<Set("muted", FALSE), Prepare>>
    BY <1>4 DEF Program
  <2>2. <<Set("muted", FALSE), Prepare>> \in Seq(Quiet)
    BY QuietSteps, HeldTwo
  <2> QED
    BY <1>2, <2>1, <2>2
<1>5. CASE r = "stop"
  <2>1. Program(c) = <<Set("muted", TRUE)>> \o Silenced \o <<Post("stop", NoStream)>>
    BY <1>5 DEF Program
  <2>2. <<Set("muted", TRUE)>> \in Seq(Quiet) /\ <<Post("stop", NoStream)>> \in Seq(Quiet)
    BY <1>1, QuietSteps, HeldOne
  <2>3. Silenced \in Seq(Quiet)
    BY <1>1, QuietSteps, HeldThree DEF Silenced
  <2>4. \A s, t \in Seq(Quiet) : s \o t \in Seq(Quiet)
    BY ConcatProperties
  <2>5. Program(c) \in Seq(Quiet)
    BY <2>1, <2>2, <2>3, <2>4
  <2> QED
    BY <1>2, <2>5
<1>6. ASSUME NEW a \in Quiet \union Loud, NEW b \in Quiet \union Loud, NEW d \in Quiet \union Loud, NEW e \in Quiet \union Loud,
             Program(c) = <<a, b, d, e>>, PostsPlay(e), Admitted(c)
      PROVE  /\ Program(c) \in Seq(Quiet \union Loud)
             /\ (\E step \in Held(Program(c)) : Speaks(step)) => PostsPlay(Program(c)[Len(Program(c))])
             /\ (\E step \in Held(Program(c)) : PostsPlay(step)) => voiceReady
  BY <1>6 DEF Admitted
<1>7. CASE r = "speak" /\ Admitted(c)
  <2>1. Program(c) = <<Set("speaking", TRUE), Set("streaming", FALSE), Set("active", NoStream), Post("speak", NoStream)>>
    BY <1>7 DEF Program, Speak
  <2>2. Set("speaking", TRUE) \in Loud /\ Post("speak", NoStream) \in Loud /\ PostsPlay(Post("speak", NoStream))
    BY <1>1 DEF Set, Post, Loud, PostsPlay, Plays
  <2> QED
    BY <1>1, <1>6, <1>7, <2>1, <2>2, QuietSteps
<1>8. CASE r = "start" /\ Admitted(c)
  <2>1. Program(c) = <<Set("active", id), Set("speaking", TRUE), Set("streaming", TRUE), Post("start", id)>>
    BY <1>8 DEF Program, StreamStart
  <2>2. Set("speaking", TRUE) \in Loud /\ Post("start", id) \in Loud /\ PostsPlay(Post("start", id))
    BY <1>1 DEF Set, Post, Loud, PostsPlay, Plays
  <2> QED
    BY <1>1, <1>6, <1>8, <2>1, <2>2, QuietSteps
<1>9. CASE r \in {"chunk", "end"}
  <2>1. Program(c) = (IF Admitted(c) THEN <<Post(r, id)>> ELSE <<>>)
    BY <1>9 DEF Program
  <2>2. Post(r, id) \in Quiet
    BY <1>1, <1>9, QuietSteps
  <2>3. <<Post(r, id)>> \in Seq(Quiet) /\ <<>> \in Seq(Quiet)
    BY <2>2, HeldOne
  <2> QED
    BY <1>2, <2>1, <2>3
<1> QED
  BY <1>1, <1>3, <1>4, <1>5, <1>7, <1>8, <1>9 DEF Routes

LEMMA DecidesKeeps == ASSUME ReadInv, NEW c \in Callers, Decides(c) PROVE ReadInv'
<1>1. caller[c].at = "host" /\ caller[c].todo = <<>> /\ caller[c].route \in Routes
  BY DEF Decides, ReadInv, CallersInv
<1>2. caller[c] \in [route : Routes \union {"none"}, id : Ids, at : {"new", "host", "runs", "over"}, todo : Seq(Quiet \union Loud)]
  BY DEF ReadInv, ReadTypes
<1>3. caller' = [caller EXCEPT ![c] = [caller[c] EXCEPT !.at = "runs", !.todo = Program(c)]]
  BY DEF Decides
<1>4. PICK todo : todo = Program(c)
  OBVIOUS
<1>5. /\ todo \in Seq(Quiet \union Loud)
      /\ (\E step \in Held(todo) : Speaks(step)) => PostsPlay(todo[Len(todo)])
      /\ (\E step \in Held(todo) : PostsPlay(step)) => voiceReady
  BY <1>1, <1>4, Programs
<1>6. PICK r \in [route : Routes, id : Ids, at : {"runs"}, todo : Seq(Quiet \union Loud)] :
        r.todo = todo /\ caller' = [caller EXCEPT ![c] = r]
  <2>1. [caller[c] EXCEPT !.at = "runs", !.todo = Program(c)] \in
          [route : Routes, id : Ids, at : {"runs"}, todo : Seq(Quiet \union Loud)]
    BY <1>1, <1>2, <1>4, <1>5
  <2>2. [caller[c] EXCEPT !.at = "runs", !.todo = Program(c)].todo = todo
    BY <1>2, <1>4
  <2> QED
    BY <1>3, <2>1, <2>2
<1>7. r = [route |-> r.route, id |-> r.id, at |-> "runs", todo |-> todo] /\ r.route \in Routes /\ r.id \in Ids
  BY <1>6
<1>8. /\ caller' = [caller EXCEPT ![c] = [route |-> r.route, id |-> r.id, at |-> "runs", todo |-> todo]]
      /\ UNCHANGED <<muted, voiceReady, flags, posted, page, callbacks, bridge, ended, unheard>>
  BY <1>6, <1>7 DEF Decides
<1> QED
  BY <1>1, <1>5, <1>7, <1>8, CallerMoves

(* Every step keeps the invariant. *)
LEMMA ReadNextInv == ReadInv /\ [ReadNext]_readVars => ReadInv'
<1> SUFFICES ASSUME ReadInv, [ReadNext]_readVars PROVE ReadInv'
  OBVIOUS
<1>1. CASE PageLoads
  BY <1>1, PageKeeps DEF PageLoads
<1>2. ASSUME NEW cb \in {"spoken", "streamed", "error"}, PageEnds(cb) PROVE ReadInv'
  BY <1>2, PageKeeps DEF PageEnds
<1>3. CASE UNCHANGED readVars
  BY <1>3 DEF readVars, ReadInv, ReadTypes, CallersInv, PageInv, Believed, SpeakingInv, Awaited
<1> QED
  BY <1>1, <1>2, <1>3, MainRunsKeeps, ScriptFailsKeeps, PageGivesUpKeeps, MainDestroysKeeps, BridgeTakesKeeps, BridgeStepKeeps, DestroyHostKeeps,
     DecidesKeeps, CallerStepKeeps, ArriveKeeps DEF ReadNext

(* While the host lives, whenever speaking is true something is left that will clear it, *)
(* unless speech failed since it was last written and nothing reported that; however     *)
(* requests, callbacks and the main thread interleave (VoiceOneHost.java), for any        *)
(* requests and streams.                                                        *)
THEOREM SpeakingTheorem == ReadSpec => []SpeakingEnds
  BY ReadInitInv, ReadNextInv, ReadInvGives, PTL DEF ReadSpec
-------------------------------------------------------------------------------
(* The receipts of the relay path.  As long as no two calls of record overlapped, at *)
(* most one thread is between its reading and its writing, and the list it holds has  *)
(* every receipt of the store, so that its write takes none away.                  *)
RecordsInv == \A t \in Arrivals : thread[t].reading => thread[t].at \in {"chat", "relay"}
AloneInv ==
  /\ recorded \subseteq receipts
  /\ \A t \in Arrivals : thread[t].reading => receipts \subseteq thread[t].list
  /\ \A t, u \in Arrivals : thread[t].reading /\ thread[u].reading => t = u
KeptInv == RecordsInv /\ (~clashed => AloneInv)

(* A thread that is not about to record keeps the invariant as it moves on. *)
LEMMA KeptMoves ==
  ASSUME PathTypes, KeptInv, NEW t \in Arrivals, NEW from, from \notin {"chat", "relay"}, NEW new, Steps(t, from, new),
         new.reading = thread[t].reading, new.list = thread[t].list, UNCHANGED receiptStore
  PROVE  KeptInv'
<1>1. ~thread[t].reading
  BY DEF KeptInv, RecordsInv, Steps
<1>2. \A u \in Arrivals : thread'[u] = IF u = t THEN new ELSE thread[u]
  BY DEF PathTypes, Steps
<1>3. RecordsInv'
  BY <1>1, <1>2 DEF KeptInv, RecordsInv
<1>4. AloneInv => AloneInv'
  BY <1>1, <1>2 DEF AloneInv, receiptStore
<1> QED
  BY <1>3, <1>4 DEF KeptInv, receiptStore

(* Every initial state satisfies the invariant. *)
LEMMA KeptInitInv == RelayInit => KeptInv
  BY DEF RelayInit, KeptInv, RecordsInv, AloneInv

(* Every step keeps the invariant. *)
LEMMA KeptNextInv == RelayInv /\ KeptInv /\ [RelayNext]_relayVars => KeptInv'
<1> SUFFICES ASSUME PathTypes, KeptInv, [RelayNext]_relayVars PROVE KeptInv'
  BY DEF RelayInv
<1>1. CASE UNCHANGED <<thread, receiptStore>>
  BY <1>1 DEF KeptInv, RecordsInv, AloneInv, receiptStore
<1>2. ASSUME SwitchAccess \/ ServiceRestarts \/ UNCHANGED relayVars PROVE KeptInv'
  BY <1>1, <1>2 DEF SwitchAccess, ServiceRestarts, relayVars, phone
<1>3. ASSUME NEW c \in Commands, AdapterStep(c) \/ \E ok \in BOOLEAN : LosesResult([cmd |-> c, ok |-> ok])
      PROVE KeptInv'
  BY <1>1, <1>3 DEF AdapterStep, Hello, HelloAck, GivesUp, LosesCommand, Result, LosesResult, phone
<1>4. CASE PhoneKilled
  <2>1. \A t \in Arrivals : ~thread'[t].reading
    <3> SUFFICES ASSUME NEW t \in Arrivals PROVE ~thread'[t].reading
      OBVIOUS
    <3>1. CASE thread[t].at = "idle"
      BY <1>4, <3>1 DEF PhoneKilled, KeptInv, RecordsInv
    <3>2. CASE thread[t].at # "idle"
      <4>1. thread'[t] = [thread[t] EXCEPT !.at = "gone", !.reading = FALSE, !.list = {}]
        BY <1>4, <3>2 DEF PhoneKilled
      <4> QED
        BY <4>1 DEF PathTypes, ThreadOf
    <3> QED
      BY <3>1, <3>2
  <2> QED
    BY <1>4, <2>1 DEF PhoneKilled, KeptInv, RecordsInv, AloneInv
<1>5. ASSUME NEW t \in Arrivals, NEW c \in Commands, Arrives(t, c) PROVE KeptInv'
  <2> DEFINE new == [thread[t] EXCEPT !.at = "new", !.cmd = c, !.born = instance]
  <2>1. thread[t] \in ThreadOf /\ Steps(t, "idle", new) /\ UNCHANGED receiptStore
    BY <1>5 DEF Arrives, PathTypes
  <2>2. new.reading = thread[t].reading /\ new.list = thread[t].list
    BY <2>1 DEF ThreadOf
  <2> QED
    BY <2>1, <2>2, KeptMoves
<1>6. ASSUME NEW t \in Arrivals, Marks(t) PROVE KeptInv'
  <2> DEFINE new == [thread[t] EXCEPT !.at = "gate", !.first = FirstSeen(t)]
  <2>1. thread[t] \in ThreadOf /\ Steps(t, "new", new) /\ UNCHANGED receiptStore
    BY <1>6 DEF Marks, PathTypes
  <2>2. new.reading = thread[t].reading /\ new.list = thread[t].list
    BY <2>1 DEF ThreadOf
  <2> QED
    BY <2>1, <2>2, KeptMoves
<1>7. ASSUME NEW t \in Arrivals, Gate(t) \/ SendsResult(t) PROVE KeptInv'
  <2>1. PICK from \in {"gate", "send"}, to \in {"run", "relay", "gone"} :
          Steps(t, from, [thread[t] EXCEPT !.at = to])
    BY <1>7 DEF Gate, SendsResult
  <2>2. thread[t] \in ThreadOf /\ UNCHANGED receiptStore
    BY <1>7 DEF Gate, SendsResult, PathTypes
  <2>3. [thread[t] EXCEPT !.at = to].reading = thread[t].reading /\ [thread[t] EXCEPT !.at = to].list = thread[t].list
    BY <2>2 DEF ThreadOf
  <2> QED
    BY <2>1, <2>2, <2>3, KeptMoves
<1>8. ASSUME NEW t \in Arrivals, Runs(t) PROVE KeptInv'
  <2> DEFINE New(ok) == [thread[t] EXCEPT !.at = IF ok /\ thread[t].cmd \in Chats THEN "chat" ELSE "relay", !.ok = ok]
  <2>1. PICK ok \in BOOLEAN : Steps(t, "run", New(ok))
    BY <1>8 DEF Runs
  <2>2. thread[t] \in ThreadOf /\ UNCHANGED receiptStore
    BY <1>8 DEF Runs, PathTypes
  <2>3. New(ok).reading = thread[t].reading /\ New(ok).list = thread[t].list
    BY <2>2 DEF ThreadOf
  <2> QED
    BY <2>1, <2>2, <2>3, KeptMoves
<1>9. ASSUME NEW t \in Arrivals, ReadsList(t) PROVE KeptInv'
  <2> DEFINE new == [thread[t] EXCEPT !.reading = TRUE, !.list = receipts]
  <2>1. thread[t] \in ThreadOf /\ thread' = [thread EXCEPT ![t] = new] /\ UNCHANGED <<receipts, recorded>>
    BY <1>9 DEF ReadsList, PathTypes
  <2>2. new.list = receipts /\ new.at = thread[t].at
    BY <2>1 DEF ThreadOf
  <2> HIDE DEF new
  <2>3. \A u \in Arrivals : thread'[u] = IF u = t THEN new ELSE thread[u]
    BY <2>1 DEF PathTypes
  <2>4. RecordsInv'
    BY <1>9, <2>2, <2>3 DEF ReadsList, KeptInv, RecordsInv
  <2>5. ASSUME ~clashed' PROVE AloneInv'
    <3>1. AloneInv /\ \A u \in Arrivals : ~thread[u].reading
      BY <1>9, <2>5 DEF ReadsList, KeptInv
    <3> QED
      BY <2>1, <2>2, <2>3, <3>1 DEF AloneInv
  <2> QED
    BY <2>4, <2>5 DEF KeptInv
<1>10. ASSUME NEW t \in Arrivals, WritesList(t) PROVE KeptInv'
  <2> DEFINE to == IF thread[t].at = "chat" THEN "relay" ELSE "send"
             new == [thread[t] EXCEPT !.reading = FALSE, !.list = {}, !.at = to]
  <2>1. /\ thread[t] \in ThreadOf /\ thread' = [thread EXCEPT ![t] = new] /\ thread[t].reading
        /\ receipts' = Extended(t) /\ recorded' = recorded \union {<<t, thread[t].at>>} /\ UNCHANGED clashed
    BY <1>10 DEF WritesList, PathTypes
  <2>2. ~new.reading
    BY <2>1 DEF ThreadOf
  <2> HIDE DEF new
  <2>3. \A u \in Arrivals : thread'[u] = IF u = t THEN new ELSE thread[u]
    BY <2>1 DEF PathTypes
  <2>4. RecordsInv'
    BY <2>2, <2>3 DEF KeptInv, RecordsInv
  <2>5. ASSUME ~clashed' PROVE AloneInv'
    <3>1. AloneInv
      BY <2>1, <2>5 DEF KeptInv
    <3>2. \A u \in Arrivals : ~thread'[u].reading
      BY <2>1, <2>2, <2>3, <3>1 DEF AloneInv
    <3>3. recorded' \subseteq receipts'
      BY <2>1, <3>1 DEF AloneInv, Extended
    <3> QED
      BY <3>2, <3>3 DEF AloneInv
  <2> QED
    BY <2>4, <2>5 DEF KeptInv
<1> QED
  BY <1>2, <1>3, <1>4, <1>5, <1>6, <1>7, <1>8, <1>9, <1>10 DEF RelayNext, ThreadStep

(* A receipt that ReceiptStore.record wrote stays in the list while the process lives *)
(* and no two calls of record overlap, for any commands, threads and instances.     *)
THEOREM ReceiptsTheorem == RelaySpec => []ReceiptsAreKept
<1>1. KeptInv => ReceiptsAreKept
  BY DEF KeptInv, AloneInv, ReceiptsAreKept
<1> QED
  BY <1>1, RelayInitInv, RelayNextInv, KeptInitInv, KeptNextInv, PTL DEF RelaySpec
-------------------------------------------------------------------------------
(* The types that the invariants above leave out, because no property needs them. *)
RelayRest == access \in BOOLEAN /\ clashed \in BOOLEAN
PocketRest ==
  service \in Services /\ bound \in BOOLEAN /\ mail \subseteq Orders \X Services /\ sends \in Nat
InstallRest == engine \in {"idle", "verify", "open", "whole", "partial", "broken"} /\ passed \in BOOLEAN /\ shared \in BOOLEAN

(* The relay path keeps its variables in their types. *)
LEMMA RelayTypes == RelaySpec => []RelayTypeOK
<1>1. RelayInit => RelayRest
  BY DEF RelayInit, RelayRest
<1>2. RelayRest /\ [RelayNext]_relayVars => RelayRest'
  <2> SUFFICES ASSUME RelayRest, [RelayNext]_relayVars PROVE RelayRest'
    OBVIOUS
  <2>1. CASE UNCHANGED <<access, clashed>>
    BY <2>1 DEF RelayRest
  <2>2. CASE SwitchAccess
    BY <2>2 DEF SwitchAccess, receiptStore, RelayRest
  <2>3. CASE PhoneKilled
    BY <2>3 DEF PhoneKilled, RelayRest
  <2>4. ASSUME NEW t \in Arrivals, ReadsList(t) PROVE RelayRest'
    BY <2>4 DEF ReadsList, RelayRest
  <2>5. CASE ServiceRestarts \/ UNCHANGED relayVars
    BY <2>1, <2>5 DEF ServiceRestarts, relayVars, phone, receiptStore
  <2>6. ASSUME NEW c \in Commands, AdapterStep(c) \/ \E ok \in BOOLEAN : LosesResult([cmd |-> c, ok |-> ok])
        PROVE RelayRest'
    BY <2>1, <2>6 DEF AdapterStep, Hello, HelloAck, GivesUp, LosesCommand, Result, LosesResult, phone, receiptStore
  <2>7. ASSUME NEW t \in Arrivals, \/ Marks(t) \/ Gate(t) \/ Runs(t) \/ WritesList(t) \/ SendsResult(t)
                                   \/ \E c \in Commands : Arrives(t, c)
        PROVE RelayRest'
    BY <2>1, <2>7 DEF Marks, Gate, Runs, WritesList, SendsResult, Arrives, receiptStore
  <2> QED
    BY <2>2, <2>3, <2>4, <2>5, <2>6, <2>7 DEF RelayNext, ThreadStep
<1>3. RelayInv /\ RelayRest => RelayTypeOK
  <2> SUFFICES ASSUME PathTypes, RelayRest PROVE RelayTypeOK
    BY DEF RelayInv
  <2>1. effects \in [Commands -> [Instances -> Nat]]
    BY DEF PathTypes
  <2> QED
    BY <2>1 DEF PathTypes, RelayRest, RelayTypeOK, ThreadOf, ThreadPlaces
<1> QED
  BY <1>1, <1>2, <1>3, RelayInitInv, RelayNextInv, PTL DEF RelaySpec

(* The Pocket lease keeps its variables in their types. *)
LEMMA PocketTypesHold == PocketSpec => []PocketTypeOK
<1>1. PocketInit => PocketRest
  BY PocketAssumption DEF PocketInit, PocketRest, Services
<1>2. PocketRest /\ [PocketNext]_pocketVars => PocketRest'
  <2> SUFFICES ASSUME PocketRest, [PocketNext]_pocketVars PROVE PocketRest'
    OBVIOUS
  <2>1. CASE UNCHANGED <<service, bound, mail, sends>>
    BY <2>1 DEF PocketRest
  <2>2. CASE Destroyed \/ Created \/ ProcessDies
    <3>1. service' \in Services
      BY <2>2, PocketAssumption DEF Destroyed, Created, ProcessDies, PocketRest, Services
    <3>2. bound' \in BOOLEAN /\ sends' = sends /\ mail' \subseteq mail
      BY <2>2 DEF Destroyed, Created, ProcessDies
    <3> QED
      BY <3>1, <3>2 DEF PocketRest
  <2>3. ASSUME NEW o \in Orders, Sends(o) PROVE PocketRest'
    BY <2>3 DEF Sends, PocketRest
  <2>4. ASSUME NEW o \in Orders, NEW g \in Services, Rejects(o, g) \/ Takes(o, g) PROVE PocketRest'
    BY <2>4 DEF Rejects, Takes, PocketRest
  <2>5. ASSUME NEW g \in Services, LaneStep(g) PROVE PocketRest'
    BY <2>1, <2>5 DEF LaneStep, FindsTarget, ListsApps, CallsAction, Acts, Observes, LaneFails, Finishes, LaneGoes
  <2>6. CASE UNCHANGED pocketVars
    BY <2>1, <2>6 DEF pocketVars
  <2> QED
    BY <2>2, <2>3, <2>4, <2>5, <2>6 DEF PocketNext
<1>3. PocketInv /\ PocketRest => PocketTypeOK
  BY DEF PocketInv, PocketTypes, PocketRest, PocketTypeOK, LaneOf, LanePlaces
<1> QED
  BY <1>1, <1>2, <1>3, PocketInitInv, PocketNextInv, PTL DEF PocketSpec

(* The installation keeps its variables in their types. *)
LEMMA InstallTypes == InstallSpec => []InstallTypeOK
<1>1. InstallInit => InstallRest
  BY DEF InstallInit, InstallRest
<1>2. InstallRest /\ [InstallNext]_installVars => InstallRest'
  <2> SUFFICES ASSUME InstallRest, [InstallNext]_installVars PROVE InstallRest'
    OBVIOUS
  <2>1. CASE TryAcquire \/ VerifyModel \/ OpenEngine \/ ReleaseGuard
    BY <2>1 DEF TryAcquire, VerifyModel, OpenEngine, ReleaseGuard, InstallRest
  <2>2. CASE RuntimeKilled \/ UNCHANGED installVars
    BY <2>2 DEF RuntimeKilled, installVars, InstallRest
  <2>3. ASSUME NEW d \in Downloads, BeginDownload(d) PROVE InstallRest'
    BY <2>3 DEF BeginDownload, InstallRest
  <2>4. ASSUME NEW d \in Downloads, RenamePart(d) \/ CopyPart(d) \/ DeletePart(d) \/ RecordInstall(d)
        PROVE InstallRest'
    BY <2>4 DEF RenamePart, CopyPart, DeletePart, RecordInstall, InstallRest
  <2>5. ASSUME NEW d \in Downloads, ClearPart(d) \/ OpenPart(d) \/ CheckStream(d) \/ DeleteFinal(d) \/ DownloadFails(d)
        PROVE InstallRest'
    BY <2>5 DEF ClearPart, OpenPart, CheckStream, DeleteFinal, DownloadFails, InstallRest
  <2>6. ASSUME NEW d \in Downloads, NEW b \in Blocks, NEW right \in BOOLEAN, Receive(d, b, right) PROVE InstallRest'
    BY <2>6 DEF Receive, InstallRest
  <2>7. ASSUME NEW d \in Downloads, NEW b \in Blocks, CopyBlock(d, b) PROVE InstallRest'
    BY <2>7 DEF CopyBlock, InstallRest
  <2> QED
    BY <2>1, <2>2, <2>3, <2>4, <2>5, <2>6, <2>7 DEF InstallNext
<1>3. InstallInv /\ InstallRest => InstallTypeOK
  BY DEF InstallInv, StoreTypes, LoadTypes, LoadOf, InstallRest, InstallTypeOK
<1> QED
  BY <1>1, <1>2, <1>3, InstallInitInv, InstallNextInv, PTL DEF InstallSpec

(* The read-aloud host keeps its variables in their types. *)
LEMMA ReadTypesHold == ReadSpec => []ReadTypeOK
<1>1. ReadInv => ReadTypeOK
  <2> SUFFICES ASSUME ReadTypes PROVE ReadTypeOK
    BY DEF ReadInv
  <2>1. \A k \in DOMAIN callbacks : callbacks[k] \in Reported
    BY DEF ReadTypes
  <2> QED
    BY <2>1 DEF ReadTypes, ReadTypeOK, Ids, Reported
<1> QED
  BY <1>1, ReadInitInv, ReadNextInv, PTL DEF ReadSpec

-------------------------------------------------------------------------------
(* A behaviour of the services side by side is one of each of them: what a theorem says   *)
(* of a service holds in the run that checks them together.                          *)
LEMMA SideBySide ==
  PhoneSpec => RelaySpec /\ PocketSpec /\ BootSpec /\ InstallSpec /\ ReadSpec /\ WorkSpec
<1>1. PhoneInit => RelayInit /\ PocketInit /\ BootInit /\ InstallInit /\ ReadInit /\ WorkInit
  BY DEF PhoneInit
<1>2. [PhoneNext]_<<side, allVars>> =>
        /\ [RelayNext]_relayVars /\ [PocketNext]_pocketVars /\ [BootNext]_bootVars
        /\ [InstallNext]_installVars /\ [ReadNext]_readVars /\ [WorkNext]_workVars
  BY DEF PhoneNext, allVars
<1> QED
  BY <1>1, <1>2, PTL DEF PhoneSpec, RelaySpec, PocketSpec, BootSpec, InstallSpec, ReadSpec, WorkSpec

(* The services keep the types of their variables in the run that checks them side by   *)
(* side (MCPhoneServices).                                                       *)
THEOREM PhoneTypesTheorem == PhoneSpec => []PhoneTypes
<1>1. BootSpec => []BootTypeOK
  BY BootInitInv, BootNextInv, PTL DEF BootSpec, BootInv
<1>2. WorkSpec => []WorkTypeOK
  BY WorkInitInv, WorkNextInv, PTL DEF WorkSpec, ReceiptInv
<1> QED
  BY <1>1, <1>2, SideBySide, RelayTypes, PocketTypesHold, InstallTypes, ReadTypesHold, PTL DEF PhoneTypes

(* What the run checks of the services side by side holds for all values of the constants: *)
(* PhoneSpec is what the theorems of the services say, all at once.                    *)
THEOREM PhoneServicesTheorem ==
  PhoneSpec => /\ [](ActsOnce /\ HandedOncePerArm /\ LoneInstallsAreWhole)
               /\ [](SpeakingEnds /\ PrintedIsReceipted /\ ReceiptsAreKept)
               /\ KeepsDevicePromise
  BY SideBySide, ActsOnceTheorem, HandedTheorem, LoneInstallTheorem, SpeakingTheorem, ReceiptedTheorem,
     ReceiptsTheorem, PromiseTheorem, PTL
===============================================================================
