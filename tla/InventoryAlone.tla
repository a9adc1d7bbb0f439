--------------------------- MODULE InventoryAlone ---------------------------
(***************************************************************************)
(* Inventory, with handlers that overlap or without: what holds only when  *)
(* no handler commits between the validation of another and its write.     *)
(***************************************************************************)
EXTENDS Inventory

VARIABLE alone   \* one handler at a time; never changes

OneAtATime == \A r, q \in Requests : request[r] # Idle /\ request[q] # Idle => r = q

AloneInit == Init /\ alone \in BOOLEAN
AloneNext == Next /\ UNCHANGED alone /\ (alone => OneAtATime')
AloneSpec == AloneInit /\ [][AloneNext]_<<vars, alone>>

-----------------------------------------------------------------------------
(* Properties.                                                             *)

\* What deleteItem and deleteBranch counted when they validated.
DeletionHolds(o) ==
  /\ o.op = "deleteItem" => MovementsOfItem(o.item) = {}
  /\ o.op = "deleteBranch" =>
       MovementsAtBranch(o.branch) = {} /\ \A i \in Items : balance[<<i, o.branch>>] <= 0

\* The inductive invariant.
AloneInv == alone => OneAtATime /\ \A r \in Requests : DeletionHolds(request[r])

\* With one handler at a time a row of the ledger keeps everything it was written with:
\* the checks of deleteItem and deleteBranch keep the cascades from ever touching one.
MovementsImmutable ==
  [][alone => \A n \in 1..Len(movements) :
       n <= Len(movements') /\ movements'[n] = movements[n]]_<<vars, alone>>

\* branch.service.ts:102, "No se puede eliminar una sucursal con movimientos o stock
\* registrado": with one handler at a time a branch that goes away takes no stock with it.
BranchesDeletedEmpty ==
  [][alone => \A b \in Branches : branchStatus[b] = "live" /\ branchStatus'[b] = "deleted" =>
       \A i \in Items : balance[<<i, b>>] <= 0]_<<vars, alone>>
=============================================================================
