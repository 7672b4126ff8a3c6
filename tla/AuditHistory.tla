----------------------------- MODULE AuditHistory -----------------------------
(***************************************************************************)
(* The audit of the controller's receipts (apps/desktop/audit-parity.mjs):  *)
(* the tail of the receipt file, read while receipts are appended to it and  *)
(* after writes that a crash tore.  A receipt is two units of the file, the  *)
(* second of which holds the end of its line.                                *)
(***************************************************************************)
EXTENDS Naturals, FiniteSets, Sequences

CONSTANTS
  WindowLimit, RowLimit,   \* MAX_BYTES, in units, and MAX_ROWS
  MaxReceipts              \* bound of the model: receipts that are begun

ASSUME AuditAssumption == WindowLimit \in Nat \ {0} /\ RowLimit \in Nat \ {0} /\ MaxReceipts \in Nat

Unit == [receipt : 1 .. MaxReceipts, ends : BOOLEAN]

VARIABLES
  ledger,        \* the receipt file's units
  issued,        \* receipts begun so far
  audit,         \* readHistory: "none", "stat" or its end; the size it saw, the lines of its rows
  readOf         \* history: the ledger at the read

auditVars == <<ledger, issued, audit, readOf>>

AuditTypeOK ==
  /\ ledger \in Seq(Unit) /\ readOf \in Seq(Unit) /\ issued \in 0 .. MaxReceipts
  /\ audit \in [at : {"none", "stat", "ok", "error"}, size : Nat, rows : SUBSET Nat]

AuditInit ==
  /\ ledger = <<>> /\ readOf = <<>> /\ issued = 0
  /\ audit = [at |-> "none", size |-> 0, rows |-> {}]

-------------------------------------------------------------------------------
Receipt(r) == <<[receipt |-> r, ends |-> FALSE], [receipt |-> r, ends |-> TRUE]>>
(* The receipt sink's append, whole or torn.                                    *)
RecordReceipt(whole) ==
  /\ issued < MaxReceipts /\ issued' = issued + 1
  /\ ledger' = ledger \o (IF whole THEN Receipt(issued') ELSE <<Head(Receipt(issued'))>>)
  /\ UNCHANGED <<audit, readOf>>

(* Open and stat; without a file the history is empty.                           *)
OpenHistory ==
  /\ audit.at = "none"
  /\ \/ audit' = [audit EXCEPT !.at = "stat", !.size = Len(ledger)]
     \/ audit' = [audit EXCEPT !.at = "error"]
  /\ UNCHANGED <<ledger, issued, readOf>>

(* The window's lines, each known by the unit that ends it: the one the window begins  *)
(* in is shifted off unless the file begins there, the piece that has not ended is     *)
(* popped, and RowLimit counts the empty piece after the last newline too.           *)
WindowStart == IF audit.size > WindowLimit THEN audit.size - WindowLimit ELSE 0
LineEnds(first, last) == {e \in first .. last : ledger[e].ends}
ShiftsCut(ends) == IF WindowStart > 0 THEN {e \in ends : \E d \in ends : d < e} ELSE ends
AuditRows ==
  LET lines == ShiftsCut(LineEnds(WindowStart + 1, audit.size))
      most == IF audit.size > 0 /\ ledger[audit.size].ends THEN RowLimit - 1 ELSE RowLimit
  IN {e \in lines : Cardinality({d \in lines : d > e}) < most}
AnyLine(e) == TRUE     \* mutant: a line is parsed as far as it goes
LineOf(e) == {k \in WindowStart + 1 .. e : LineEnds(k, e - 1) = {}}
WellFormed(e) == LineOf(e) = {e - 1, e} /\ SubSeq(ledger, e - 1, e) = Receipt(ledger[e].receipt)
ReadHistory ==
  /\ audit.at = "stat" /\ readOf' = ledger
  /\ audit' = IF \A e \in AuditRows : WellFormed(e)
              THEN [audit EXCEPT !.at = "ok", !.rows = AuditRows]
              ELSE [audit EXCEPT !.at = "error"]
  /\ UNCHANGED <<ledger, issued>>
(* recentAudit's and usageAudit's answers are views of the rows; another may follow.  *)
NextAudit ==
  /\ audit.at \in {"ok", "error"}
  /\ audit' = [at |-> "none", size |-> 0, rows |-> {}] /\ readOf' = <<>>
  /\ UNCHANGED <<ledger, issued>>

AuditNext == OpenHistory \/ ReadHistory \/ NextAudit \/ \E whole \in BOOLEAN : RecordReceipt(whole)
AuditSpec == AuditInit /\ [][AuditNext]_auditVars

-------------------------------------------------------------------------------
(* An audit that is answered tells the truth about the latest receipts: its rows are   *)
(* receipts that were written whole and have a line of their own, no receipt twice     *)
(* and in their order, without a gap up to the last that had been written when it      *)
(* looked, whatever was torn, cut off by the window or appended meanwhile; and without *)
(* a limit they are all.                                                        *)
HistoryIsTrue ==
  audit.at = "ok" =>
    LET whole == {e \in 2 .. audit.size : SubSeq(readOf, e - 1, e) = Receipt(readOf[e].receipt)}
        apart == {e \in whole : e > 2 => readOf[e - 2].ends}
        lines == {e \in 1 .. audit.size : readOf[e].ends}
    IN /\ audit.rows \subseteq apart
       /\ \A d, e \in audit.rows : d < e => readOf[d].receipt < readOf[e].receipt
       /\ \A e \in audit.rows, d \in whole : d > e => d \in audit.rows
       /\ audit.size <= WindowLimit /\ Cardinality(lines) < RowLimit => audit.rows = whole
===============================================================================
