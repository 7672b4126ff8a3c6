---------------------------- MODULE MCPhoneServices ----------------------------
(* The phones' services that share no state, checked side by side: a behaviour  *)
(* is one of a single service, and the others stay in their initial states.    *)
EXTENDS RelayCommand, PocketCommand, OwnerBootstrap, ModelInstall, ReadAloud,
        PhoneWorkstation, TLC

VARIABLE side

PhoneSymmetry == Permutations(Arrivals) \union Permutations(Handlings)

allVars == <<relayVars, pocketVars, bootVars, installVars, readVars, workVars>>
Sides == {"relay", "pocket", "bootstrap", "install", "read aloud", "workstation"}
PhoneInit ==
  /\ side \in Sides
  /\ RelayInit /\ PocketInit /\ BootInit /\ InstallInit /\ ReadInit /\ WorkInit
  /\ side # "relay" => access

PhoneNext ==
  /\ UNCHANGED side
  /\ \/ side = "relay" /\ RelayNext /\ UNCHANGED <<pocketVars, bootVars, installVars, readVars, workVars>>
     \/ side = "pocket" /\ PocketNext /\ UNCHANGED <<relayVars, bootVars, installVars, readVars, workVars>>
     \/ side = "bootstrap" /\ BootNext /\ UNCHANGED <<relayVars, pocketVars, installVars, readVars, workVars>>
     \/ side = "install" /\ InstallNext /\ UNCHANGED <<relayVars, pocketVars, bootVars, readVars, workVars>>
     \/ side = "read aloud" /\ ReadNext /\ UNCHANGED <<relayVars, pocketVars, bootVars, installVars, workVars>>
     \/ side = "workstation" /\ WorkNext
        /\ UNCHANGED <<relayVars, pocketVars, bootVars, installVars, readVars>>

PhoneSpec == PhoneInit /\ [][PhoneNext]_<<side, allVars>>

(* Every service keeps its variables in their types.                           *)
PhoneTypes ==
  RelayTypeOK /\ PocketTypeOK /\ BootTypeOK /\ InstallTypeOK /\ ReadTypeOK /\ WorkTypeOK
===============================================================================
