----------------------------- MODULE MCBridgeCall -----------------------------
(* Concurrent calls over one capability of each tier and an undeclared one, a *)
(* token for the mutating capability and one for the operate-tier one.        *)
EXTENDS BridgeCall, TLC

CONSTANTS c1, c2, c3, t1, t2

MCCaps == {"read", "operate", "mutate", "undeclared"}
MCTier == "read" :> "READ" @@ "operate" :> "OPERATE" @@ "mutate" :> "MUTATE"
          @@ "undeclared" :> "READ"
MCDeclared == MCCaps \ {"undeclared"}
MCBound == t1 :> "mutate" @@ t2 :> "operate"

Symmetry == Permutations(Calls)

===============================================================================
