------------------------------ MODULE Inventory ------------------------------
(***************************************************************************)
(* The inventory of one commerce profile: products (inventory_items), the  *)
(* append-only stock ledger (stock_movements), branches and the            *)
(* denormalised stock of a product per branch (stock_balances).            *)
(*                                                                         *)
(* Every HTTP handler runs as a process of its own.  A handler first reads *)
(* and validates (outside any transaction) and then writes, in one         *)
(* Postgres transaction; between the two any other handler may commit.     *)
(* The transaction itself is one step: it runs at READ COMMITTED, none of  *)
(* its statements depends on a value read earlier in it, and its           *)
(* increments are serialised by the row lock of the product.               *)
(*                                                                         *)
(* Abstracted: names, units, prices, reasons, timestamps, the audit trail  *)
(* (fail-open) and the access check of ProfileAccessService; the summary   *)
(* cache these handlers invalidate is modelled in CacheAside.              *)
(***************************************************************************)
EXTENDS Integers, Sequences, IntegerSums

CONSTANTS
  Items,         \* product ids the database can hand out
  Branches,      \* branch ids the database can hand out
  Skus,          \* SKUs a client may send
  NoItem,        \* the product of a deleted movement row
  NoBranch,      \* NULL in branchId / targetBranchId
  NoSku,         \* NULL in sku
  NumRequests,   \* handlers that may be in flight at once
  Targets,       \* bound: the targetBranchId values createMovement is sent
  MaxQuantity,   \* bound: largest quantity of one request
  MaxMovements   \* bound: movement rows

ASSUME InventoryAssumption ==
  /\ NumRequests \in Nat \ {0}
  /\ MaxQuantity \in Nat \ {0}
  /\ MaxMovements \in Nat
  /\ NoItem \notin Items
  /\ NoBranch \notin Branches
  /\ NoSku \notin Skus
  /\ Targets \subseteq Branches \cup {NoBranch}

VARIABLES
  itemStatus,    \* [Items -> {"unused", "live", "deleted"}]
  sku,           \* [Items -> Skus or NoSku]
  currentStock,  \* [Items -> Int], the denormalised global stock
  branchStatus,  \* [Branches -> {"unused", "live", "deleted"}]
  balanceRows,   \* the (product, branch) pairs that have a stock_balances row
  balance,       \* [Items \X Branches -> Int], 0 where there is no row
  movements,     \* the movement rows in insertion order
  request        \* [Requests -> the operation each handler is about to write]

rows == <<itemStatus, sku, currentStock, branchStatus, balanceRows, balance, movements>>
vars == <<rows, request>>

Requests == 1..NumRequests
Quantities == 1..MaxQuantity
Status == {"unused", "live", "deleted"}
BranchOrNull == Branches \cup {NoBranch}
SkuOrNull == Skus \cup {NoSku}
Operations == {"idle", "createItem", "updateItem", "deleteItem", "deleteBranch",
               "movement", "transfer"}

Request == [op : Operations, item : Items \cup {NoItem}, branch : BranchOrNull,
            target : BranchOrNull, quantity : Int, sku : SkuOrNull]

\* relatedMovementId is the position of the paired row, 0 when it is NULL.
\* A row removed by a cascade keeps its position with item = NoItem.
Movement == [item : Items \cup {NoItem}, quantity : Int, branch : BranchOrNull,
             target : BranchOrNull, related : Nat]

Operation(op, i, b, t, q, s) ==
  [op |-> op, item |-> i, branch |-> b, target |-> t, quantity |-> q, sku |-> s]

Idle == Operation("idle", NoItem, NoBranch, NoBranch, 0, NoSku)

TypeOK ==
  /\ itemStatus \in [Items -> Status]
  /\ sku \in [Items -> SkuOrNull]
  /\ currentStock \in [Items -> Int]
  /\ branchStatus \in [Branches -> Status]
  /\ balanceRows \subseteq Items \X Branches
  /\ balance \in [Items \X Branches -> Int]
  /\ movements \in Seq(Movement)
  /\ request \in [Requests -> Request]

Init ==
  /\ itemStatus = [i \in Items |-> "unused"]
  /\ sku = [i \in Items |-> NoSku]
  /\ currentStock = [i \in Items |-> 0]
  /\ branchStatus = [b \in Branches |-> "unused"]
  /\ balanceRows = {}
  /\ balance = [ib \in Items \X Branches |-> 0]
  /\ movements = <<>>
  /\ request = [r \in Requests |-> Idle]

-----------------------------------------------------------------------------
(* Reads the handlers validate with.                                       *)

LiveItem(i) == i \in Items /\ itemStatus[i] = "live"
LiveBranch(b) == b \in Branches /\ branchStatus[b] = "live"

\* The foreign key branchId / targetBranchId of a movement.
BranchExists(b) == b = NoBranch \/ LiveBranch(b)

EntryTypes == {"PURCHASE", "INITIAL", "RETURN", "TRANSFER_IN"}
ExitTypes == {"SALE", "TRANSFER_OUT"}
MovementTypes == EntryTypes \cup ExitTypes \cup {"ADJUSTMENT"}

\* calculateSignedQuantity: the sign comes from the type, an adjustment keeps its own.
SignedQuantity(type, q) == IF type \in ExitTypes THEN -q ELSE q

\* Mutants: no check; a product with no row at the branch sells from the global stock.
UncheckedStock(i, q, b) == TRUE
GlobalWithoutRow(i, q, b) ==
  q >= 0 \/ (IF <<i, b>> \in balanceRows THEN balance[<<i, b>>] ELSE currentStock[i]) + q >= 0

\* validateNoNegativeStock: entries pass; an exit is checked against the branch's
\* balance (no row counts as 0) when it names a branch, else against the global stock.
NoNegativeStock(i, q, b) ==
  \/ q >= 0
  \/ b = NoBranch /\ currentStock[i] + q >= 0
  \/ b # NoBranch /\ <<i, b>> \in Items \X Branches /\ balance[<<i, b>>] + q >= 0

\* Mutant: only the movements made at a branch count.
MovementsSomewhere(i) ==
  {n \in 1..Len(movements) : movements[n].item = i /\ movements[n].branch # NoBranch}

MovementsOfItem(i) == {n \in 1..Len(movements) : movements[n].item = i}
MovementsAtBranch(b) ==
  {n \in 1..Len(movements) : movements[n].branch = b \/ movements[n].target = b}

SkuTaken(s) == s # NoSku /\ \E i \in Items : itemStatus[i] = "live" /\ sku[i] = s

Start(r, operation) == request' = [request EXCEPT ![r] = operation]
Finish(r) == request' = [request EXCEPT ![r] = Idle]

-----------------------------------------------------------------------------
(* First halves of the handlers: read, validate, remember what to write.   *)
(* A handler whose validation fails answers 4xx and changes nothing.       *)

CreateItemCheck(r, s, q) ==
  /\ request[r].op = "idle"
  /\ ~SkuTaken(s)
  /\ Start(r, Operation("createItem", NoItem, NoBranch, NoBranch, q, s))
  /\ UNCHANGED rows

UpdateItemCheck(r, i, s) ==
  /\ request[r].op = "idle"
  /\ LiveItem(i)
  /\ s # sku[i] => ~SkuTaken(s)
  /\ Start(r, Operation("updateItem", i, NoBranch, NoBranch, 0, s))
  /\ UNCHANGED rows

DeleteItemCheck(r, i) ==
  /\ request[r].op = "idle"
  /\ LiveItem(i)
  /\ MovementsOfItem(i) = {}
  /\ currentStock[i] <= 0
  /\ Start(r, Operation("deleteItem", i, NoBranch, NoBranch, 0, NoSku))
  /\ UNCHANGED rows

\* Mutant: the counts of movements and of stock are not looked at.
UncheckedDeleteBranch(r, b) ==
  /\ request[r].op = "idle"
  /\ LiveBranch(b)
  /\ Start(r, Operation("deleteBranch", NoItem, b, NoBranch, 0, NoSku))
  /\ UNCHANGED rows

DeleteBranchCheck(r, b) ==
  /\ request[r].op = "idle"
  /\ LiveBranch(b)
  /\ MovementsAtBranch(b) = {}
  /\ \A i \in Items : balance[<<i, b>>] <= 0
  /\ Start(r, Operation("deleteBranch", NoItem, b, NoBranch, 0, NoSku))
  /\ UNCHANGED rows

\* targetBranchId is stored as sent, it moves no stock here.
CreateMovementCheck(r, i, type, q, b, t) ==
  /\ request[r].op = "idle"
  /\ LiveItem(i)
  /\ NoNegativeStock(i, SignedQuantity(type, q), b)
  /\ Start(r, Operation("movement", i, b, t, SignedQuantity(type, q), NoSku))
  /\ UNCHANGED rows

\* adjustStock names no branch: it always validates against the global stock.
AdjustStockCheck(r, i, q) ==
  /\ request[r].op = "idle"
  /\ LiveItem(i)
  /\ NoNegativeStock(i, q, NoBranch)
  /\ Start(r, Operation("movement", i, NoBranch, NoBranch, q, NoSku))
  /\ UNCHANGED rows

TransferCheck(r, i, src, dst, q) ==
  /\ request[r].op = "idle"
  /\ LiveItem(i)
  /\ src # dst
  /\ q > 0
  /\ NoNegativeStock(i, -q, src)
  /\ Start(r, Operation("transfer", i, src, dst, q, NoSku))
  /\ UNCHANGED rows

-----------------------------------------------------------------------------
(* Second halves: the writes.                                              *)

\* createBranch reads nothing but the access check.
CreateBranch(b) ==
  /\ branchStatus[b] = "unused"
  /\ branchStatus' = [branchStatus EXCEPT ![b] = "live"]
  /\ UNCHANGED <<itemStatus, sku, currentStock, balanceRows, balance, movements, request>>

\* Mutants: the row stores the request's quantity, not the signed one; the OUT row is
\* never told the id of its IN row.
UnsignedMovement(i, q, b, t, related) ==
  [item |-> i, quantity |-> IF q < 0 THEN -q ELSE q, branch |-> b, target |-> t, related |-> related]
HalfPairedMovement(i, q, b, t, related) ==
  [item |-> i, quantity |-> q, branch |-> b, target |-> t, related |-> IF q < 0 THEN 0 ELSE related]

NewMovement(i, q, b, t, related) ==
  [item |-> i, quantity |-> q, branch |-> b, target |-> t, related |-> related]

\* The unique index (profileId, sku) refuses the insert or update (P2002).
SkuIndexAllows(i, s) == s = NoSku \/ \A j \in Items \ {i} : itemStatus[j] = "live" => sku[j] # s

CreateItemCommit(r, i) ==
  /\ request[r].op = "createItem"
  /\ itemStatus[i] = "unused"
  /\ SkuIndexAllows(i, request[r].sku)
  /\ Len(movements) < MaxMovements
  /\ itemStatus' = [itemStatus EXCEPT ![i] = "live"]
  /\ sku' = [sku EXCEPT ![i] = request[r].sku]
  /\ currentStock' = [currentStock EXCEPT ![i] = request[r].quantity]
  /\ movements' = IF request[r].quantity > 0
                  THEN Append(movements, NewMovement(i, request[r].quantity, NoBranch, NoBranch, 0))
                  ELSE movements
  /\ Finish(r)
  /\ UNCHANGED <<branchStatus, balanceRows, balance>>

UpdateItemCommit(r) ==
  /\ request[r].op = "updateItem"
  /\ LiveItem(request[r].item)
  /\ SkuIndexAllows(request[r].item, request[r].sku)
  /\ sku' = [sku EXCEPT ![request[r].item] = request[r].sku]
  /\ Finish(r)
  /\ UNCHANGED <<itemStatus, currentStock, branchStatus, balanceRows, balance, movements>>

\* Mutant: max(0, ...) on the update too.
ClampedBalance(bal, present, ib, q) == [bal EXCEPT ![ib] = IF @ + q > 0 THEN @ + q ELSE 0]

\* upsertStockBalance: the row is created with max(0, change) or incremented.
UpsertedBalance(bal, present, ib, q) ==
  [bal EXCEPT ![ib] = IF present THEN @ + q ELSE IF q > 0 THEN q ELSE 0]

CreateMovementCommit(r) ==
  LET i == request[r].item
      q == request[r].quantity
      b == request[r].branch
  IN
  /\ request[r].op = "movement"
  /\ LiveItem(i)
  /\ BranchExists(b)
  /\ BranchExists(request[r].target)
  /\ Len(movements) < MaxMovements
  /\ movements' = Append(movements, NewMovement(i, q, b, request[r].target, 0))
  /\ currentStock' = [currentStock EXCEPT ![i] = @ + q]
  /\ balanceRows' = IF b = NoBranch THEN balanceRows ELSE balanceRows \cup {<<i, b>>}
  /\ balance' = IF b = NoBranch THEN balance
                ELSE UpsertedBalance(balance, <<i, b>> \in balanceRows, <<i, b>>, q)
  /\ Finish(r)
  /\ UNCHANGED <<itemStatus, sku, branchStatus>>

\* The pair: OUT at the source, IN at the target, each naming the other; the
\* global stock is incremented by 0.
TransferCommit(r) ==
  LET i == request[r].item
      q == request[r].quantity
      src == request[r].branch
      dst == request[r].target
      out == Len(movements) + 1
  IN
  /\ request[r].op = "transfer"
  /\ LiveItem(i)
  /\ LiveBranch(src)
  /\ LiveBranch(dst)
  /\ Len(movements) + 1 < MaxMovements
  /\ movements' = Append(Append(movements, NewMovement(i, -q, src, dst, out + 1)),
                         NewMovement(i, q, dst, src, out))
  /\ balanceRows' = balanceRows \cup {<<i, src>>, <<i, dst>>}
  /\ balance' = UpsertedBalance(
                  UpsertedBalance(balance, <<i, src>> \in balanceRows, <<i, src>>, -q),
                  <<i, dst>> \in balanceRows, <<i, dst>>, q)
  /\ Finish(r)
  /\ UNCHANGED <<itemStatus, sku, currentStock, branchStatus>>

\* ON DELETE CASCADE / SET NULL on a movement row.
WithoutItem(m, i) ==
  NewMovement(IF m.item = i THEN NoItem ELSE m.item, m.quantity, m.branch, m.target, m.related)
WithoutBranch(m, b) ==
  NewMovement(m.item, m.quantity, IF m.branch = b THEN NoBranch ELSE m.branch,
              IF m.target = b THEN NoBranch ELSE m.target, m.related)

\* DELETE of a product cascades to its movements and balances.
DeleteItemCommit(r) ==
  LET i == request[r].item IN
  /\ request[r].op = "deleteItem"
  /\ LiveItem(i)
  /\ itemStatus' = [itemStatus EXCEPT ![i] = "deleted"]
  /\ movements' = [n \in 1..Len(movements) |-> WithoutItem(movements[n], i)]
  /\ balanceRows' = {ib \in balanceRows : ib[1] # i}
  /\ balance' = [ib \in Items \X Branches |-> IF ib[1] = i THEN 0 ELSE balance[ib]]
  /\ Finish(r)
  /\ UNCHANGED <<sku, currentStock, branchStatus>>

\* DELETE of a branch cascades to its balances and nulls it out of the movements.
DeleteBranchCommit(r) ==
  LET b == request[r].branch IN
  /\ request[r].op = "deleteBranch"
  /\ LiveBranch(b)
  /\ branchStatus' = [branchStatus EXCEPT ![b] = "deleted"]
  /\ movements' = [n \in 1..Len(movements) |-> WithoutBranch(movements[n], b)]
  /\ balanceRows' = {ib \in balanceRows : ib[2] # b}
  /\ balance' = [ib \in Items \X Branches |-> IF ib[2] = b THEN 0 ELSE balance[ib]]
  /\ Finish(r)
  /\ UNCHANGED <<itemStatus, sku, currentStock>>

\* The write fails and rolls back (foreign key, unique index, row gone, transaction
\* timeout) or the process dies before it.
Abandon(r) ==
  /\ request[r].op # "idle"
  /\ Finish(r)
  /\ UNCHANGED rows

-----------------------------------------------------------------------------
Check(r) ==
  \/ \E s \in SkuOrNull, q \in 0..MaxQuantity : CreateItemCheck(r, s, q)
  \/ \E i \in Items, s \in SkuOrNull : UpdateItemCheck(r, i, s)
  \/ \E i \in Items : DeleteItemCheck(r, i)
  \/ \E b \in Branches : DeleteBranchCheck(r, b)
  \/ \E i \in Items, type \in MovementTypes, q \in Quantities, b \in BranchOrNull, t \in Targets :
       CreateMovementCheck(r, i, type, q, b, t)
  \/ \E i \in Items, q \in -MaxQuantity..MaxQuantity : AdjustStockCheck(r, i, q)
  \/ \E i \in Items, src, dst \in Branches, q \in Quantities : TransferCheck(r, i, src, dst, q)

Commit(r) ==
  \/ \E i \in Items : CreateItemCommit(r, i)
  \/ UpdateItemCommit(r)
  \/ DeleteItemCommit(r)
  \/ DeleteBranchCommit(r)
  \/ CreateMovementCommit(r)
  \/ TransferCommit(r)

Next ==
  \/ \E b \in Branches : CreateBranch(b)
  \/ \E r \in Requests : Check(r) \/ Commit(r) \/ Abandon(r)

Spec == Init /\ [][Next]_vars

-----------------------------------------------------------------------------
(* Properties.                                                             *)

\* The quantities recorded in a ledger for a product, and at a branch.
QuantityOf(ledger, i) ==
  [n \in 1..Len(ledger) |-> IF ledger[n].item = i THEN ledger[n].quantity ELSE 0]
QuantityAt(ledger, i, b) ==
  [n \in 1..Len(ledger) |->
    IF ledger[n].item = i /\ ledger[n].branch = b THEN ledger[n].quantity ELSE 0]

LedgerSum(ledger, i) == SumOf(QuantityOf(ledger, i), Len(ledger))
BranchSum(ledger, i, b) == SumOf(QuantityAt(ledger, i, b), Len(ledger))

\* The denormalised stock of a product is the sum of its ledger (schema.prisma:392,
\* "calculado desde movimientos"), whatever handlers interleave.
LedgerTotal ==
  \A i \in Items : itemStatus[i] = "live" => currentStock[i] = LedgerSum(movements, i)

\* The balance of a product at a branch is the sum of the movements recorded there:
\* the max(0, change) of upsertStockBalance never swallows a quantity.
BranchLedger ==
  \A i \in Items, b \in Branches : itemStatus[i] = "live" /\ branchStatus[b] = "live" =>
    balance[<<i, b>>] = BranchSum(movements, i, b)

\* Validation happens outside the transaction, so concurrent exits can oversell a
\* branch; but never by more than the other handlers in flight had validated.
\* With one handler at a time a branch is never oversold.
OversellBounded ==
  \A i \in Items, b \in Branches : balance[<<i, b>>] >= -((NumRequests - 1) * MaxQuantity)

\* A transfer leaves two rows that name each other, of one product, of opposite
\* quantities, and they live and die together: goods never vanish in transit.
TransfersPaired ==
  \A n \in 1..Len(movements) : movements[n].related # 0 =>
    LET m == movements[n].related IN
    /\ m \in 1..Len(movements) /\ m # n
    /\ movements[m].related = n
    /\ movements[m].item = movements[n].item
    /\ movements[m].quantity = -movements[n].quantity

\* Two live products never share a SKU, although createItem and updateItem check it
\* in a read that another handler can overtake.
SkuUnique ==
  \A i, j \in Items : i # j /\ itemStatus[i] = "live" /\ itemStatus[j] = "live" =>
    sku[i] = NoSku \/ sku[i] # sku[j]

\* stock-movement.service.ts:33, "Stock nunca puede quedar negativo", for the global
\* stock of a product.
GlobalStockNeverNegative == \A i \in Items : currentStock[i] >= 0

-----------------------------------------------------------------------------
(* The inductive invariant behind LedgerTotal, BranchLedger and            *)
(* OversellBounded.                                                        *)

\* A handler that validated an exit from a branch saw a balance row there, and the
\* row stays until the product or the branch goes.
RowSeen(i, b) ==
  <<i, b>> \in balanceRows \/ itemStatus[i] = "deleted" \/ branchStatus[b] = "deleted"

\* What the validation of a handler in flight still guarantees when it writes.
RequestSound(o) ==
  /\ o.op = "createItem" => o.quantity \in 0..MaxQuantity
  /\ o.op = "movement" =>
       /\ o.item \in Items
       /\ o.quantity \in -MaxQuantity..MaxQuantity
       /\ o.quantity < 0 /\ o.branch # NoBranch => RowSeen(o.item, o.branch)
  /\ o.op = "transfer" =>
       /\ o.item \in Items
       /\ o.quantity \in Quantities
       /\ o.branch \in Branches
       /\ o.target \in Branches
       /\ o.branch # o.target
       /\ RowSeen(o.item, o.branch)

RequestsSound == \A r \in Requests : RequestSound(request[r])

\* A product that was never created has no stock, and no row means no balance.
NothingUnrecorded ==
  /\ \A i \in Items : itemStatus[i] = "unused" => currentStock[i] = 0
  /\ \A ib \in (Items \X Branches) \ balanceRows : balance[ib] = 0

LedgerInv ==
  \A i \in Items : itemStatus[i] # "deleted" => currentStock[i] = LedgerSum(movements, i)

BranchLedgerInv ==
  \A i \in Items, b \in Branches : itemStatus[i] # "deleted" /\ branchStatus[b] # "deleted" =>
    balance[<<i, b>>] = BranchSum(movements, i, b)

\* What the handlers in flight may still take from a branch.
ExitInFlight(o, i, b) ==
  IF o.item # i \/ o.branch # b THEN 0
  ELSE IF o.op = "movement" /\ o.quantity < 0 THEN -o.quantity
  ELSE IF o.op = "transfer" THEN o.quantity ELSE 0
ExitsInFlight(i, b) == [r \in Requests |-> ExitInFlight(request[r], i, b)]

OversellInv ==
  \A i \in Items, b \in Branches :
    balance[<<i, b>>] >= SumOf(ExitsInFlight(i, b), NumRequests) - (NumRequests - 1) * MaxQuantity

\* The inductive invariant: the counters are sums of the ledger, and an oversell is bounded with
\* the exits that a check let through and no transaction has committed yet.
IInv == TypeOK /\ RequestsSound /\ NothingUnrecorded /\ LedgerInv /\ BranchLedgerInv /\ OversellInv
=============================================================================
