--------------------------- MODULE RuntimeLedger ---------------------------
(***************************************************************************)
(* What the runtime storage promises, with no transactions, rows or locks: *)
(* a snapshot is recorded in one step, with all of its databases, and the  *)
(* board shows for each cluster the latest snapshot recorded, whole.       *)
(***************************************************************************)
EXTENDS RuntimeSnapshots

VARIABLES
  ledger,   \* the snapshots recorded
  board     \* for each cluster: the snapshot shown, and its database rows

ledgerVars == <<ledger, board>>

Shown(s) == [state |-> s, rows |-> RowsOf(s)]

LedgerInit ==
  /\ ledger = {}
  /\ board = [d \in Targets |-> Shown(NoSnapshot)]

Record(s) ==
  /\ s \notin ledger
  /\ ledger' = ledger \cup {s}
  /\ board' = IF Supersedes(s, board[s.target].state)
                THEN [board EXCEPT ![s.target] = Shown(s)]
                ELSE board

LedgerNext == \E s \in Snapshots : Record(s)

LedgerSpec == LedgerInit /\ [][LedgerNext]_ledgerVars

=============================================================================
