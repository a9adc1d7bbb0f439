--------------------------- MODULE InventoryProofs ---------------------------
(***************************************************************************)
(* Proofs about the inventory and the cached reads in front of it, for any *)
(* number of products, branches and handlers in flight.                    *)
(***************************************************************************)
EXTENDS InventoryAlone, CacheAside, WellFoundedInduction, SequenceTheorems, TLAPS

-----------------------------------------------------------------------------
(* Sums.  Induction over 0..n is carried out by minimal counterexample:    *)
(* the least element of a set of naturals comes from the well-foundedness  *)
(* of < on Nat.                                                            *)

\* Every non-empty set of naturals has a least element; all inductions below use it.
LEMMA LeastNatural ==
  ASSUME NEW T \in SUBSET Nat, T # {}
  PROVE  \E x \in T : \A y \in T : x <= y
<1>1. PICK x \in T : \A y \in T : ~ (<<y, x>> \in OpToRel(<, Nat))
  BY NatLessThanWellFounded, WFMin
<1>2. ASSUME NEW y \in T PROVE x <= y
  <2>1. x \in Nat /\ y \in Nat
    OBVIOUS
  <2>2. ~ (y < x)
    BY <1>1, <2>1 DEF OpToRel
  <2>3. QED BY <2>1, <2>2
<1>3. QED BY <1>2

\* The functions that satisfy the recursion of PartialSums.
IsPartialSums(s, f, n) ==
  /\ s \in [0..n -> Int]
  /\ s[0] = 0
  /\ \A k \in 1..n : s[k] = s[k-1] + f[k]

\* Two functions that satisfy the recursion agree where both are defined.
LEMMA PartialSumsAgree ==
  ASSUME NEW n \in Nat, NEW m \in Nat, NEW f, NEW g, NEW s, NEW t,
         IsPartialSums(s, f, n), IsPartialSums(t, g, m), m <= n,
         \A k \in 1..m : f[k] = g[k]
  PROVE  \A k \in 0..m : s[k] = t[k]
<1> DEFINE Bad == {k \in 0..m : s[k] # t[k]}
<1>1. SUFFICES ASSUME Bad # {} PROVE FALSE
  OBVIOUS
<1>2. PICK x \in Bad : \A y \in Bad : x <= y
  <2>1. Bad \in SUBSET Nat
    OBVIOUS
  <2>2. QED BY <1>1, <2>1, LeastNatural
<1>3. x # 0
  BY DEF IsPartialSums
<1>4. x \in 1..m /\ x \in 1..n /\ x - 1 \in 0..m /\ x - 1 \in 0..n
  BY <1>3
<1>5. s[x-1] = t[x-1]
  <2>1. x - 1 \notin Bad
    BY <1>2, <1>4
  <2>2. QED BY <2>1, <1>4
<1>6. s[x] = s[x-1] + f[x] /\ t[x] = t[x-1] + g[x]
  BY <1>4 DEF IsPartialSums
<1>7. QED BY <1>4, <1>5, <1>6

\* The recursion has a solution for every n.
LEMMA PartialSumsExist ==
  ASSUME NEW n \in Nat, NEW f \in [1..n -> Int]
  PROVE  \E s : IsPartialSums(s, f, n)
<1> DEFINE Bad == {k \in 0..n : ~ \E s : IsPartialSums(s, f, k)}
<1>1. SUFFICES ASSUME Bad # {} PROVE FALSE
  <2>1. n \in 0..n
    OBVIOUS
  <2>2. QED BY <2>1
<1>2. PICK x \in Bad : \A y \in Bad : x <= y
  <2>1. Bad \in SUBSET Nat
    OBVIOUS
  <2>2. QED BY <1>1, <2>1, LeastNatural
<1>3. x # 0
  <2>1. IsPartialSums([k \in 0..0 |-> 0], f, 0)
    BY DEF IsPartialSums
  <2>2. QED BY <2>1
<1>4. x \in Nat /\ x - 1 \in 0..n /\ x \in 1..n
  BY <1>3
<1>5. PICK s : IsPartialSums(s, f, x - 1)
  BY <1>2, <1>4
<1> DEFINE t == [k \in 0..x |-> IF k = x THEN s[x-1] + f[x] ELSE s[k]]
<1>6. IsPartialSums(t, f, x)
  <2>1. f[x] \in Int /\ s[x-1] \in Int
    BY <1>4, <1>5 DEF IsPartialSums
  <2>2. t \in [0..x -> Int]
    BY <1>4, <1>5, <2>1 DEF IsPartialSums
  <2>3. t[0] = 0
    BY <1>4, <1>5 DEF IsPartialSums
  <2>4. ASSUME NEW k \in 1..x PROVE t[k] = t[k-1] + f[k]
    BY <1>4, <1>5 DEF IsPartialSums
  <2>5. QED BY <2>2, <2>3, <2>4 DEF IsPartialSums
<1>7. QED BY <1>2, <1>6

\* The recursive definition denotes such a solution.
LEMMA PartialSumsDef ==
  ASSUME NEW n \in Nat, NEW f \in [1..n -> Int]
  PROVE  IsPartialSums(PartialSums(f, n), f, n)
<1> DEFINE Def(s) == s = [k \in 0..n |-> IF k = 0 THEN 0 ELSE s[k-1] + f[k]]
<1>1. PICK s : IsPartialSums(s, f, n)
  BY PartialSumsExist
<1>2. Def(s)
  <2>1. s = [k \in 0..n |-> s[k]]
    BY <1>1 DEF IsPartialSums
  <2>2. \A k \in 0..n : s[k] = IF k = 0 THEN 0 ELSE s[k-1] + f[k]
    BY <1>1 DEF IsPartialSums
  <2>3. QED BY <2>1, <2>2
<1>3. PartialSums(f, n) = CHOOSE t : Def(t)
  BY DEF PartialSums
<1>4. Def(PartialSums(f, n))
  BY <1>2, <1>3
<1> DEFINE t == PartialSums(f, n)
<1> HIDE DEF t
<1>5. t = [k \in 0..n |-> IF k = 0 THEN 0 ELSE t[k-1] + f[k]]
  BY <1>4 DEF t
<1>6. t[0] = 0 /\ \A k \in 1..n : t[k] = t[k-1] + f[k]
  BY <1>5
<1>7. DOMAIN t = 0..n
  BY <1>5
<1>8. \A k \in 0..n : t[k] \in Int
  <2> DEFINE Bad == {k \in 0..n : t[k] \notin Int}
  <2>1. SUFFICES ASSUME Bad # {} PROVE FALSE
    OBVIOUS
  <2>2. PICK x \in Bad : \A y \in Bad : x <= y
    <3>1. Bad \in SUBSET Nat
      OBVIOUS
    <3>2. QED BY <2>1, <3>1, LeastNatural
  <2>3. x # 0
    BY <1>6
  <2>4. x \in 1..n /\ x - 1 \in 0..n /\ x - 1 \notin Bad
    BY <2>2, <2>3
  <2>5. t[x-1] \in Int /\ f[x] \in Int
    BY <2>4
  <2>6. t[x] = t[x-1] + f[x]
    BY <1>6, <2>4
  <2>7. QED BY <2>5, <2>6
<1>9. t \in [0..n -> Int]
  BY <1>5, <1>7, <1>8
<1>10. QED BY <1>6, <1>9 DEF IsPartialSums, t

-----------------------------------------------------------------------------
(* The facts the other modules cite.                                       *)

\* A sum of integers is an integer, and the empty sum is 0.
LEMMA SumType ==
  ASSUME NEW n \in Nat, NEW f \in [1..n -> Int]
  PROVE  SumOf(f, n) \in Int /\ (n = 0 => SumOf(f, n) = 0)
BY PartialSumsDef DEF SumOf, IsPartialSums

\* A sum depends only on the values summed.
LEMMA SumAgree ==
  ASSUME NEW n \in Nat, NEW f \in [1..n -> Int], NEW g \in [1..n -> Int],
         \A k \in 1..n : f[k] = g[k]
  PROVE  SumOf(f, n) = SumOf(g, n)
<1>1. f = g
  OBVIOUS
<1>2. QED BY <1>1

\* Appending one value adds it.
LEMMA SumExtend ==
  ASSUME NEW n \in Nat, NEW f \in [1..n -> Int], NEW g \in [1..(n+1) -> Int],
         \A k \in 1..n : g[k] = f[k]
  PROVE  SumOf(g, n+1) = SumOf(f, n) + g[n+1]
<1> DEFINE s == PartialSums(f, n)
           t == PartialSums(g, n+1)
<1>1. IsPartialSums(s, f, n) /\ IsPartialSums(t, g, n+1)
  BY PartialSumsDef
<1> HIDE DEF s, t
<1>2. \A k \in 0..n : t[k] = s[k]
  BY <1>1, PartialSumsAgree, n <= n+1, n+1 \in Nat
<1>3. t[n+1] = t[n] + g[n+1]
  BY <1>1 DEF IsPartialSums
<1>4. t[n+1] = s[n] + g[n+1]
  BY <1>2, <1>3
<1>5. QED BY <1>4 DEF SumOf, s, t

\* Changing one value changes the sum by the difference.
LEMMA SumUpdate ==
  ASSUME NEW n \in Nat, NEW f \in [1..n -> Int], NEW j \in 1..n, NEW v \in Int
  PROVE  SumOf([f EXCEPT ![j] = v], n) = SumOf(f, n) - f[j] + v
<1> DEFINE g == [f EXCEPT ![j] = v]
           s == PartialSums(f, n)
           t == PartialSums(g, n)
<1>1. g \in [1..n -> Int]
  OBVIOUS
<1>2. IsPartialSums(s, f, n) /\ IsPartialSums(t, g, n)
  BY <1>1, PartialSumsDef
<1> HIDE DEF s, t
<1> DEFINE Shift(k) == IF k < j THEN 0 ELSE v - f[j]
           Bad == {k \in 0..n : t[k] # s[k] + Shift(k)}
<1>3. Bad = {}
  <2>1. SUFFICES ASSUME Bad # {} PROVE FALSE
    OBVIOUS
  <2>2. PICK x \in Bad : \A y \in Bad : x <= y
    <3>1. Bad \in SUBSET Nat
      OBVIOUS
    <3>2. QED BY <2>1, <3>1, LeastNatural
  <2>3. x # 0
    BY <1>2 DEF IsPartialSums
  <2>4. x \in 1..n /\ x - 1 \in 0..n /\ x - 1 \notin Bad
    BY <2>2, <2>3
  <2>5. t[x-1] = s[x-1] + Shift(x-1)
    BY <2>4
  <2>6. s[x] = s[x-1] + f[x] /\ t[x] = t[x-1] + g[x] /\ s[x-1] \in Int
    BY <1>2, <2>4 DEF IsPartialSums
  <2>7. g[x] = IF x = j THEN v ELSE f[x]
    BY <2>4
  <2>8. f[x] \in Int /\ f[j] \in Int
    BY <2>4
  <2>9. t[x] = s[x] + Shift(x)
    BY <2>4, <2>5, <2>6, <2>7, <2>8
  <2>10. QED BY <2>9
<1>4. t[n] = s[n] + Shift(n)
  <2>1. n \in 0..n
    OBVIOUS
  <2>2. QED BY <1>3, <2>1
<1>5. s[n] \in Int /\ f[j] \in Int
  BY <1>2 DEF IsPartialSums
<1>6. t[n] = s[n] - f[j] + v
  BY <1>4, <1>5
<1>7. QED BY <1>6 DEF SumOf, s, t

\* n values of at most M sum to at most n * M.
LEMMA SumBound ==
  ASSUME NEW n \in Nat, NEW f \in [1..n -> Int], NEW M \in Int,
         \A k \in 1..n : f[k] <= M
  PROVE  SumOf(f, n) <= n * M
<1> DEFINE s == PartialSums(f, n)
           Bad == {k \in 0..n : ~ (s[k] <= k * M)}
<1>1. IsPartialSums(s, f, n)
  BY PartialSumsDef
<1> HIDE DEF s
<1>2. Bad = {}
  <2>1. SUFFICES ASSUME Bad # {} PROVE FALSE
    OBVIOUS
  <2>2. PICK x \in Bad : \A y \in Bad : x <= y
    <3>1. Bad \in SUBSET Nat
      OBVIOUS
    <3>2. QED BY <2>1, <3>1, LeastNatural
  <2>3. x # 0
    BY <1>1 DEF IsPartialSums
  <2>4. x \in 1..n /\ x - 1 \in 0..n /\ x - 1 \notin Bad
    BY <2>2, <2>3
  <2>5. s[x-1] <= (x-1) * M
    BY <2>4
  <2>6. s[x] = s[x-1] + f[x] /\ s[x-1] \in Int /\ f[x] <= M /\ f[x] \in Int
    BY <1>1, <2>4 DEF IsPartialSums
  <2>7. (x-1) * M + M = x * M
    BY <2>4
  <2>8. s[x] <= x * M
    <3>1. (x-1) * M \in Int /\ x * M \in Int
      BY <2>4
    <3> DEFINE a == (x-1) * M
               c == x * M
    <3> HIDE DEF a, c
    <3>2. a \in Int /\ c \in Int /\ s[x-1] <= a /\ a + M = c
      BY <2>5, <2>7, <3>1 DEF a, c
    <3>3. s[x] <= c
      BY <2>6, <3>2
    <3>4. QED BY <3>3 DEF c
  <2>9. QED BY <2>8
<1>3. s[n] <= n * M
  <2>1. n \in 0..n
    OBVIOUS
  <2>2. QED BY <1>2, <2>1
<1>4. QED BY <1>3 DEF SumOf, s

\* Naturals sum to at least 0.
LEMMA SumNonNegative ==
  ASSUME NEW n \in Nat, NEW f \in [1..n -> Int], \A k \in 1..n : f[k] \in Nat
  PROVE  SumOf(f, n) >= 0 /\ SumOf(f, n) \in Int
<1> DEFINE s == PartialSums(f, n)
           Bad == {k \in 0..n : ~ (s[k] >= 0)}
<1>1. IsPartialSums(s, f, n)
  BY PartialSumsDef
<1> HIDE DEF s
<1>2. Bad = {}
  <2>1. SUFFICES ASSUME Bad # {} PROVE FALSE
    OBVIOUS
  <2>2. PICK x \in Bad : \A y \in Bad : x <= y
    <3>1. Bad \in SUBSET Nat
      OBVIOUS
    <3>2. QED BY <2>1, <3>1, LeastNatural
  <2>3. x # 0
    BY <1>1 DEF IsPartialSums
  <2>4. x \in 1..n /\ x - 1 \in 0..n /\ x - 1 \notin Bad
    BY <2>2, <2>3
  <2>5. s[x] = s[x-1] + f[x] /\ s[x-1] \in Int /\ f[x] \in Nat
    BY <1>1, <2>4 DEF IsPartialSums
  <2>6. QED BY <2>4, <2>5
<1>3. s[n] >= 0 /\ s[n] \in Int
  <2>1. n \in 0..n
    OBVIOUS
  <2>2. QED BY <1>1, <1>2, <2>1 DEF IsPartialSums
<1>4. QED BY <1>3 DEF SumOf, s

-----------------------------------------------------------------------------
(* Types.                                                                  *)

\* What a handler remembers between its two halves is a Request.
LEMMA OperationType ==
  ASSUME NEW op \in Operations, NEW i \in Items \cup {NoItem}, NEW b \in BranchOrNull,
         NEW t \in BranchOrNull, NEW q \in Int, NEW s \in SkuOrNull
  PROVE  Operation(op, i, b, t, q, s) \in Request
BY DEF Operation, Request

\* So is the idle request.
LEMMA IdleType == Idle \in Request
BY OperationType DEF Idle, Operations, BranchOrNull, SkuOrNull

\* The database starts empty and every handler idle.
LEMMA InitTypeOK == Init => TypeOK
<1>1. <<>> \in Seq(Movement)
  OBVIOUS
<1>2. QED BY <1>1, IdleType DEF Init, TypeOK, Status, SkuOrNull, Requests

\* A validation only writes the handler's own request.
LEMMA CheckStep ==
  ASSUME TypeOK, NEW r \in Requests, Check(r)
  PROVE  UNCHANGED rows /\ request' \in [Requests -> Request]
<1> USE InventoryAssumption, OperationType DEF Start, Operations, TypeOK
<1>1. ASSUME NEW s \in SkuOrNull, NEW q \in 0..MaxQuantity, CreateItemCheck(r, s, q)
      PROVE  UNCHANGED rows /\ request' \in [Requests -> Request]
  BY <1>1 DEF CreateItemCheck, BranchOrNull
<1>2. ASSUME NEW i \in Items, NEW s \in SkuOrNull, UpdateItemCheck(r, i, s)
      PROVE  UNCHANGED rows /\ request' \in [Requests -> Request]
  BY <1>2 DEF UpdateItemCheck, BranchOrNull
<1>3. ASSUME NEW i \in Items, DeleteItemCheck(r, i)
      PROVE  UNCHANGED rows /\ request' \in [Requests -> Request]
  BY <1>3 DEF DeleteItemCheck, BranchOrNull, SkuOrNull
<1>4. ASSUME NEW b \in Branches, DeleteBranchCheck(r, b)
      PROVE  UNCHANGED rows /\ request' \in [Requests -> Request]
  BY <1>4 DEF DeleteBranchCheck, BranchOrNull, SkuOrNull
<1>5. ASSUME NEW i \in Items, NEW type \in MovementTypes, NEW q \in Quantities,
             NEW b \in BranchOrNull, NEW t \in Targets, CreateMovementCheck(r, i, type, q, b, t)
      PROVE  UNCHANGED rows /\ request' \in [Requests -> Request]
  <2>1. SignedQuantity(type, q) \in Int /\ t \in BranchOrNull
    BY DEF SignedQuantity, Quantities, BranchOrNull
  <2>2. QED BY <1>5, <2>1 DEF CreateMovementCheck, SkuOrNull
<1>6. ASSUME NEW i \in Items, NEW q \in -MaxQuantity..MaxQuantity, AdjustStockCheck(r, i, q)
      PROVE  UNCHANGED rows /\ request' \in [Requests -> Request]
  BY <1>6 DEF AdjustStockCheck, BranchOrNull, SkuOrNull
<1>7. ASSUME NEW i \in Items, NEW src \in Branches, NEW dst \in Branches, NEW q \in Quantities,
             TransferCheck(r, i, src, dst, q)
      PROVE  UNCHANGED rows /\ request' \in [Requests -> Request]
  BY <1>7 DEF TransferCheck, BranchOrNull, SkuOrNull, Quantities
<1>8. QED BY <1>1, <1>2, <1>3, <1>4, <1>5, <1>6, <1>7 DEF Check

\* A ledger row is a Movement.
LEMMA MovementType ==
  ASSUME NEW i \in Items, NEW q \in Int, NEW b \in BranchOrNull, NEW t \in BranchOrNull,
         NEW n \in Nat
  PROVE  NewMovement(i, q, b, t, n) \in Movement
BY DEF NewMovement, Movement

\* Cascades keep a row a Movement.
LEMMA CascadeType ==
  ASSUME NEW m \in Movement
  PROVE  /\ \A i \in Items : WithoutItem(m, i) \in Movement
         /\ \A b \in Branches : WithoutBranch(m, b) \in Movement
BY DEF WithoutItem, WithoutBranch, NewMovement, Movement, BranchOrNull

\* A balance stays an integer under an upsert.
LEMMA UpsertType ==
  ASSUME NEW bal \in [Items \X Branches -> Int], NEW present,
         NEW ib \in Items \X Branches, NEW q \in Int
  PROVE  UpsertedBalance(bal, present, ib, q) \in [Items \X Branches -> Int]
BY DEF UpsertedBalance

\* Mapping the rows of a ledger to rows gives a ledger.
LEMMA RowsSeq ==
  ASSUME NEW n \in Nat, NEW f \in [1..n -> Movement]
  PROVE  f \in Seq(Movement) /\ Len(f) = n
<1>1. f \in Seq(Movement)
  BY SeqDef
<1>2. QED BY <1>1, LenProperties

\* Every write keeps the types.
LEMMA CommitTypeOK ==
  ASSUME TypeOK, NEW r \in Requests, Commit(r)
  PROVE  TypeOK'
<1> USE InventoryAssumption, IdleType, MovementType DEF TypeOK, Finish
<1>0. /\ request[r] \in Request
      /\ request[r].quantity \in Int
      /\ request[r].sku \in SkuOrNull
      /\ request[r].branch \in BranchOrNull
      /\ request[r].target \in BranchOrNull
      /\ Len(movements) \in Nat
  BY DEF Request
<1>1. ASSUME NEW i \in Items, CreateItemCommit(r, i) PROVE TypeOK'
  <2>1. NewMovement(i, request[r].quantity, NoBranch, NoBranch, 0) \in Movement
    BY <1>0 DEF BranchOrNull
  <2>2. movements' \in Seq(Movement)
    BY <1>1, <2>1 DEF CreateItemCommit
  <2>3. QED BY <1>0, <1>1, <2>2 DEF CreateItemCommit, Status
<1>2. CASE UpdateItemCommit(r)
  BY <1>0, <1>2 DEF UpdateItemCommit
<1>3. CASE DeleteItemCommit(r)
  <2>1. movements' \in [1..Len(movements) -> Movement]
    BY <1>3, CascadeType DEF DeleteItemCommit, LiveItem
  <2>2. movements' \in Seq(Movement)
    BY <1>0, <2>1, RowsSeq
  <2>3. balance' \in [Items \X Branches -> Int]
    BY <1>3 DEF DeleteItemCommit
  <2>4. itemStatus' \in [Items -> Status] /\ balanceRows' \subseteq Items \X Branches
    BY <1>3 DEF DeleteItemCommit, LiveItem, Status
  <2>5. QED BY <1>3, <2>2, <2>3, <2>4 DEF DeleteItemCommit
<1>4. CASE DeleteBranchCommit(r)
  <2>1. movements' \in [1..Len(movements) -> Movement]
    BY <1>4, CascadeType DEF DeleteBranchCommit, LiveBranch
  <2>2. movements' \in Seq(Movement)
    BY <1>0, <2>1, RowsSeq
  <2>3. balance' \in [Items \X Branches -> Int]
    BY <1>4 DEF DeleteBranchCommit
  <2>4. branchStatus' \in [Branches -> Status] /\ balanceRows' \subseteq Items \X Branches
    BY <1>4 DEF DeleteBranchCommit, LiveBranch, Status
  <2>5. QED BY <1>4, <2>2, <2>3, <2>4 DEF DeleteBranchCommit
<1>5. CASE CreateMovementCommit(r)
  <2> DEFINE i == request[r].item
             b == request[r].branch
             m == NewMovement(i, request[r].quantity, b, request[r].target, 0)
  <2>1. i \in Items /\ (b # NoBranch => b \in Branches)
    BY <1>5 DEF CreateMovementCommit, LiveItem, BranchExists, LiveBranch
  <2>2. m \in Movement
    BY <1>0, <2>1
  <2>3. movements' = Append(movements, m)
    BY <1>5 DEF CreateMovementCommit
  <2>4. movements' \in Seq(Movement)
    BY <2>2, <2>3
  <2>5. balance' \in [Items \X Branches -> Int] /\ balanceRows' \subseteq Items \X Branches
    BY <1>0, <1>5, <2>1 DEF CreateMovementCommit, UpsertedBalance
  <2>6. currentStock' \in [Items -> Int]
    BY <1>0, <1>5, <2>1 DEF CreateMovementCommit
  <2>7. QED BY <1>5, <2>4, <2>5, <2>6 DEF CreateMovementCommit
<1>6. CASE TransferCommit(r)
  <2> DEFINE i == request[r].item
             src == request[r].branch
             dst == request[r].target
             q == request[r].quantity
             out == Len(movements) + 1
             m1 == NewMovement(i, -q, src, dst, out + 1)
             m2 == NewMovement(i, q, dst, src, out)
  <2>1. i \in Items /\ src \in Branches /\ dst \in Branches
    BY <1>6 DEF TransferCommit, LiveItem, LiveBranch
  <2>2. m1 \in Movement /\ m2 \in Movement
    BY <1>0, <2>1
  <2>3. movements' = Append(Append(movements, m1), m2)
    BY <1>6 DEF TransferCommit
  <2>4. movements' \in Seq(Movement)
    BY <2>2, <2>3
  <2>5. balance' \in [Items \X Branches -> Int]
    <3> DEFINE bal == UpsertedBalance(balance, <<i, src>> \in balanceRows, <<i, src>>, -q)
    <3>1. <<i, src>> \in Items \X Branches /\ <<i, dst>> \in Items \X Branches /\ -q \in Int
      BY <1>0, <2>1
    <3>2. bal \in [Items \X Branches -> Int]
      BY <3>1, UpsertType
    <3>3. balance' = UpsertedBalance(bal, <<i, dst>> \in balanceRows, <<i, dst>>, q)
      BY <1>6 DEF TransferCommit
    <3> HIDE DEF bal
    <3>4. QED BY <1>0, <3>1, <3>2, <3>3, UpsertType
  <2>6. balanceRows' \subseteq Items \X Branches
    BY <1>6, <2>1 DEF TransferCommit
  <2>7. QED BY <1>6, <2>4, <2>5, <2>6 DEF TransferCommit
<1>7. QED BY <1>1, <1>2, <1>3, <1>4, <1>5, <1>6 DEF Commit

\* Type correctness is preserved by every step.
LEMMA TypeOKStep == TypeOK /\ [Next]_vars => TypeOK'
<1> SUFFICES ASSUME TypeOK, [Next]_vars PROVE TypeOK'
  OBVIOUS
<1>1. ASSUME NEW b \in Branches, CreateBranch(b) PROVE TypeOK'
  BY <1>1 DEF CreateBranch, TypeOK, Status
<1>2. ASSUME NEW r \in Requests, Check(r) PROVE TypeOK'
  <2>1. UNCHANGED rows /\ request' \in [Requests -> Request]
    BY <1>2, CheckStep
  <2>2. QED BY <2>1 DEF rows, TypeOK
<1>3. ASSUME NEW r \in Requests, Commit(r) PROVE TypeOK'
  BY <1>3, CommitTypeOK
<1>4. ASSUME NEW r \in Requests, Abandon(r) PROVE TypeOK'
  BY <1>4, IdleType DEF Abandon, Finish, TypeOK, rows
<1>5. CASE UNCHANGED vars
  BY <1>5 DEF TypeOK, vars, rows
<1>6. QED BY <1>1, <1>2, <1>3, <1>4, <1>5 DEF Next

\* The rows and the requests always have the shape the handlers expect.
THEOREM TypeCorrect == Spec => []TypeOK
<1>1. QED BY InitTypeOK, TypeOKStep, PTL DEF Spec

-----------------------------------------------------------------------------
(* The ledger sums under the three ways the ledger changes.                *)

\* The summed functions are integer-valued.
LEMMA QuantityOfType ==
  ASSUME NEW L \in Seq(Movement), NEW i
  PROVE  Len(L) \in Nat /\ QuantityOf(L, i) \in [1..Len(L) -> Int]
<1>1. \A n \in 1..Len(L) : L[n] \in Movement
  OBVIOUS
<1>2. \A n \in 1..Len(L) : L[n].quantity \in Int
  BY <1>1 DEF Movement
<1>3. QED BY <1>2 DEF QuantityOf

\* So are those of one branch.
LEMMA QuantityAtType ==
  ASSUME NEW L \in Seq(Movement), NEW i, NEW b
  PROVE  Len(L) \in Nat /\ QuantityAt(L, i, b) \in [1..Len(L) -> Int]
<1>1. \A n \in 1..Len(L) : L[n] \in Movement
  OBVIOUS
<1>2. \A n \in 1..Len(L) : L[n].quantity \in Int
  BY <1>1 DEF Movement
<1>3. QED BY <1>2 DEF QuantityAt

\* Appending a row adds its quantity to the sum of its product.
LEMMA LedgerAppend ==
  ASSUME NEW L \in Seq(Movement), NEW m \in Movement, NEW i
  PROVE  /\ Append(L, m) \in Seq(Movement)
         /\ LedgerSum(L, i) \in Int
         /\ LedgerSum(Append(L, m), i) =
              LedgerSum(L, i) + IF m.item = i THEN m.quantity ELSE 0
<1> DEFINE A == Append(L, m)
           n == Len(L)
<1>1. A \in Seq(Movement) /\ Len(A) = n + 1 /\ n \in Nat
  OBVIOUS
<1>2. (\A k \in 1..n : A[k] = L[k]) /\ A[n+1] = m
  OBVIOUS
<1>3. QuantityOf(L, i) \in [1..n -> Int] /\ QuantityOf(A, i) \in [1..(n+1) -> Int]
  BY <1>1, QuantityOfType
<1> HIDE DEF A
<1>4. /\ \A k \in 1..n : QuantityOf(A, i)[k] = QuantityOf(L, i)[k]
      /\ QuantityOf(A, i)[n+1] = IF m.item = i THEN m.quantity ELSE 0
  BY <1>1, <1>2 DEF QuantityOf
<1>5. SumOf(QuantityOf(A, i), n+1) = SumOf(QuantityOf(L, i), n) + QuantityOf(A, i)[n+1]
  BY <1>1, <1>3, <1>4, SumExtend
<1>6. SumOf(QuantityOf(L, i), n) \in Int
  BY <1>1, <1>3, SumType
<1>7. QED BY <1>1, <1>4, <1>5, <1>6 DEF LedgerSum, A

\* Appending a row adds its quantity to the sum of its product at its branch.
LEMMA BranchAppend ==
  ASSUME NEW L \in Seq(Movement), NEW m \in Movement, NEW i, NEW b
  PROVE  /\ Append(L, m) \in Seq(Movement)
         /\ BranchSum(L, i, b) \in Int
         /\ BranchSum(Append(L, m), i, b) =
              BranchSum(L, i, b) + IF m.item = i /\ m.branch = b THEN m.quantity ELSE 0
<1> DEFINE A == Append(L, m)
           n == Len(L)
<1>1. A \in Seq(Movement) /\ Len(A) = n + 1 /\ n \in Nat
  OBVIOUS
<1>2. (\A k \in 1..n : A[k] = L[k]) /\ A[n+1] = m
  OBVIOUS
<1>3. QuantityAt(L, i, b) \in [1..n -> Int] /\ QuantityAt(A, i, b) \in [1..(n+1) -> Int]
  BY <1>1, QuantityAtType
<1> HIDE DEF A
<1>4. /\ \A k \in 1..n : QuantityAt(A, i, b)[k] = QuantityAt(L, i, b)[k]
      /\ QuantityAt(A, i, b)[n+1] = IF m.item = i /\ m.branch = b THEN m.quantity ELSE 0
  BY <1>1, <1>2 DEF QuantityAt
<1>5. SumOf(QuantityAt(A, i, b), n+1) = SumOf(QuantityAt(L, i, b), n) + QuantityAt(A, i, b)[n+1]
  BY <1>1, <1>3, <1>4, SumExtend
<1>6. SumOf(QuantityAt(L, i, b), n) \in Int
  BY <1>1, <1>3, SumType
<1>7. QED BY <1>1, <1>4, <1>5, <1>6 DEF BranchSum, A

\* Deleting a product leaves the sums of the others alone.
LEMMA SumsWithoutItem ==
  ASSUME NEW L \in Seq(Movement), NEW i \in Items, NEW j \in Items, j # i, NEW b
  PROVE  LET C == [n \in 1..Len(L) |-> WithoutItem(L[n], i)]
         IN  LedgerSum(C, j) = LedgerSum(L, j) /\ BranchSum(C, j, b) = BranchSum(L, j, b)
<1> DEFINE C == [n \in 1..Len(L) |-> WithoutItem(L[n], i)]
<1>1. Len(L) \in Nat /\ \A n \in 1..Len(L) : L[n] \in Movement
  OBVIOUS
<1>2. C \in [1..Len(L) -> Movement]
  BY <1>1, CascadeType
<1>3. C \in Seq(Movement) /\ Len(C) = Len(L)
  BY <1>1, <1>2, RowsSeq
<1>4. NoItem # j
  BY InventoryAssumption
<1>5. \A n \in 1..Len(L) : /\ QuantityOf(C, j)[n] = QuantityOf(L, j)[n]
                           /\ QuantityAt(C, j, b)[n] = QuantityAt(L, j, b)[n]
  BY <1>3, <1>4 DEF QuantityOf, QuantityAt, WithoutItem, NewMovement
<1> HIDE DEF C
<1>6. QuantityOf(C, j) = QuantityOf(L, j) /\ QuantityAt(C, j, b) = QuantityAt(L, j, b)
  BY <1>3, <1>5 DEF QuantityOf, QuantityAt
<1>7. QED BY <1>3, <1>6 DEF LedgerSum, BranchSum, C

\* Deleting a branch leaves every product's sum alone, and the sums at other branches.
LEMMA SumsWithoutBranch ==
  ASSUME NEW L \in Seq(Movement), NEW i \in Items, NEW b \in Branches, NEW c \in Branches,
         c # b
  PROVE  LET C == [n \in 1..Len(L) |-> WithoutBranch(L[n], b)]
         IN  LedgerSum(C, i) = LedgerSum(L, i) /\ BranchSum(C, i, c) = BranchSum(L, i, c)
<1> DEFINE C == [n \in 1..Len(L) |-> WithoutBranch(L[n], b)]
<1>1. Len(L) \in Nat /\ \A n \in 1..Len(L) : L[n] \in Movement
  OBVIOUS
<1>2. C \in [1..Len(L) -> Movement]
  BY <1>1, CascadeType
<1>3. C \in Seq(Movement) /\ Len(C) = Len(L)
  BY <1>1, <1>2, RowsSeq
<1>4. NoBranch # c
  BY InventoryAssumption
<1>5. \A n \in 1..Len(L) : /\ QuantityOf(C, i)[n] = QuantityOf(L, i)[n]
                           /\ QuantityAt(C, i, c)[n] = QuantityAt(L, i, c)[n]
  BY <1>3, <1>4 DEF QuantityOf, QuantityAt, WithoutBranch, NewMovement
<1> HIDE DEF C
<1>6. QuantityOf(C, i) = QuantityOf(L, i) /\ QuantityAt(C, i, c) = QuantityAt(L, i, c)
  BY <1>3, <1>5 DEF QuantityOf, QuantityAt
<1>7. QED BY <1>3, <1>6 DEF LedgerSum, BranchSum, C

-----------------------------------------------------------------------------
(* Each conjunct of IInv is inductive.                                     *)

\* The ledger, the balances and the requests start out empty.
LEMMA InitIInv == Init => IInv
<1> SUFFICES ASSUME Init PROVE IInv
  OBVIOUS
<1> USE InventoryAssumption
<1>1. TypeOK
  BY InitTypeOK
<1>2. /\ \A i \in Items : LedgerSum(<<>>, i) = 0
      /\ \A i \in Items, b \in Branches : BranchSum(<<>>, i, b) = 0
  <2>1. <<>> \in Seq(Movement) /\ Len(<<>>) = 0
    OBVIOUS
  <2>2. QED BY <2>1, QuantityOfType, QuantityAtType, SumType DEF LedgerSum, BranchSum
<1>3. \A r \in Requests : request[r].op = "idle"
  BY DEF Init, Idle, Operation
<1>4. RequestsSound
  BY <1>3 DEF RequestsSound, RequestSound
<1>5. NothingUnrecorded /\ LedgerInv /\ BranchLedgerInv
  BY <1>2 DEF Init, NothingUnrecorded, LedgerInv, BranchLedgerInv
<1>6. OversellInv
  <2> SUFFICES ASSUME NEW i \in Items, NEW b \in Branches
               PROVE  balance[<<i, b>>] >= SumOf(ExitsInFlight(i, b), NumRequests)
                                            - (NumRequests - 1) * MaxQuantity
    BY DEF OversellInv
  <2>1. /\ ExitsInFlight(i, b) \in [1..NumRequests -> Int]
        /\ \A r \in 1..NumRequests : ExitsInFlight(i, b)[r] <= 0
    BY <1>3 DEF ExitsInFlight, ExitInFlight, Requests
  <2>2. SumOf(ExitsInFlight(i, b), NumRequests) <= NumRequests * 0
    BY <2>1, SumBound
  <2>3. SumOf(ExitsInFlight(i, b), NumRequests) \in Int
    BY <2>1, SumType
  <2>4. (NumRequests - 1) * MaxQuantity >= 0 /\ (NumRequests - 1) * MaxQuantity \in Int
    <3>1. NumRequests - 1 \in Nat
      OBVIOUS
    <3>2. QED BY <3>1
  <2>5. balance[<<i, b>>] = 0
    BY DEF Init
  <2>6. QED BY <2>2, <2>3, <2>4, <2>5
<1>7. QED BY <1>1, <1>4, <1>5, <1>6 DEF IInv

\* The fields of the request a handler writes with.
LEMMA RequestFields ==
  ASSUME TypeOK, NEW r \in Requests
  PROVE  /\ request[r] \in Request
         /\ request[r].quantity \in Int
         /\ request[r].sku \in SkuOrNull
         /\ request[r].branch \in BranchOrNull
         /\ request[r].target \in BranchOrNull
BY DEF TypeOK, Request

\* The global stock follows the ledger through every write.
LEMMA LedgerCommit ==
  ASSUME IInv, NEW r \in Requests, Commit(r)
  PROVE  LedgerInv'
<1> USE InventoryAssumption, RequestFields DEF IInv
<1>0. /\ movements \in Seq(Movement) /\ currentStock \in [Items -> Int]
      /\ itemStatus \in [Items -> Status]
      /\ \A i \in Items : itemStatus[i] # "deleted" => currentStock[i] = LedgerSum(movements, i)
  BY DEF TypeOK, LedgerInv
<1> SUFFICES ASSUME NEW j \in Items, itemStatus'[j] # "deleted"
             PROVE  currentStock'[j] = LedgerSum(movements', j)
  BY DEF LedgerInv
<1>1. ASSUME NEW i \in Items, CreateItemCommit(r, i)
      PROVE  currentStock'[j] = LedgerSum(movements', j)
  <2> DEFINE m == NewMovement(i, request[r].quantity, NoBranch, NoBranch, 0)
  <2>1. request[r].quantity \in 0..MaxQuantity /\ currentStock[i] = 0
    BY <1>1 DEF CreateItemCommit, RequestsSound, RequestSound, NothingUnrecorded
  <2>2. m \in Movement /\ m.item = i /\ m.quantity = request[r].quantity
    BY MovementType DEF BranchOrNull, NewMovement
  <2>3. itemStatus[j] # "deleted"
    BY <1>0, <1>1 DEF CreateItemCommit
  <2>4. currentStock'[j] = IF j = i THEN request[r].quantity ELSE currentStock[j]
    BY <1>0, <1>1 DEF CreateItemCommit
  <2>5. CASE request[r].quantity > 0
    <3>1. movements' = Append(movements, m)
      BY <1>1, <2>5 DEF CreateItemCommit
    <3>2. LedgerSum(movements', j) = LedgerSum(movements, j) + IF m.item = j THEN m.quantity ELSE 0
      BY <1>0, <2>2, <3>1, LedgerAppend
    <3>3. QED BY <1>0, <2>1, <2>2, <2>3, <2>4, <3>2
  <2>6. CASE ~ (request[r].quantity > 0)
    BY <1>0, <1>1, <2>1, <2>3, <2>4, <2>6 DEF CreateItemCommit
  <2>7. QED BY <2>5, <2>6
<1>2. CASE UpdateItemCommit(r)
  BY <1>0, <1>2 DEF UpdateItemCommit
<1>3. CASE DeleteItemCommit(r)
  <2>1. request[r].item \in Items /\ j # request[r].item /\ itemStatus[j] # "deleted"
    BY <1>0, <1>3 DEF DeleteItemCommit, LiveItem
  <2>2. QED BY <1>0, <1>3, <2>1, SumsWithoutItem DEF DeleteItemCommit
<1>4. CASE DeleteBranchCommit(r)
  <2>1. request[r].branch \in Branches /\ itemStatus[j] # "deleted"
    BY <1>4 DEF DeleteBranchCommit, LiveBranch
  <2>2. LedgerSum(movements', j) = LedgerSum(movements, j)
    <3>1. \A n \in 1..Len(movements) : movements[n] \in Movement
      BY <1>0
    <3>2. movements' \in [1..Len(movements) -> Movement]
      BY <1>4, <2>1, <3>1, CascadeType DEF DeleteBranchCommit
    <3>3. Len(movements') = Len(movements)
      BY <1>0, <3>2, RowsSeq
    <3>4. \A n \in 1..Len(movements) : /\ movements'[n].item = movements[n].item
                                       /\ movements'[n].quantity = movements[n].quantity
      BY <1>4 DEF DeleteBranchCommit, WithoutBranch, NewMovement
    <3>5. QuantityOf(movements', j) = QuantityOf(movements, j)
      BY <3>3, <3>4 DEF QuantityOf
    <3>6. QED BY <3>3, <3>5 DEF LedgerSum
  <2>3. QED BY <1>0, <1>4, <2>1, <2>2 DEF DeleteBranchCommit
<1>5. CASE CreateMovementCommit(r)
  <2> DEFINE i == request[r].item
             m == NewMovement(i, request[r].quantity, request[r].branch, request[r].target, 0)
  <2>1. i \in Items /\ itemStatus' = itemStatus /\ movements' = Append(movements, m)
    BY <1>5 DEF CreateMovementCommit, LiveItem
  <2>2. m \in Movement /\ m.item = i /\ m.quantity = request[r].quantity
    BY <2>1, MovementType DEF NewMovement
  <2>3. LedgerSum(movements', j) = LedgerSum(movements, j) + IF m.item = j THEN m.quantity ELSE 0
    BY <1>0, <2>1, <2>2, LedgerAppend
  <2>4. currentStock'[j] = currentStock[j] + IF i = j THEN request[r].quantity ELSE 0
    BY <1>0, <1>5 DEF CreateMovementCommit
  <2>5. QED BY <1>0, <2>1, <2>2, <2>3, <2>4
<1>6. CASE TransferCommit(r)
  <2> DEFINE i == request[r].item
             q == request[r].quantity
             src == request[r].branch
             dst == request[r].target
             out == Len(movements) + 1
             m1 == NewMovement(i, -q, src, dst, out + 1)
             m2 == NewMovement(i, q, dst, src, out)
             L1 == Append(movements, m1)
  <2>1. i \in Items /\ itemStatus' = itemStatus /\ currentStock' = currentStock
        /\ movements' = Append(L1, m2)
    BY <1>6 DEF TransferCommit, LiveItem
  <2>2. m1 \in Movement /\ m2 \in Movement
    <3>1. out \in Nat /\ -q \in Int
      BY <1>0
    <3>2. QED BY <2>1, <3>1, MovementType
  <2>3. m1.item = i /\ m2.item = i /\ m1.quantity = -q /\ m2.quantity = q
    BY DEF NewMovement
  <2>4. L1 \in Seq(Movement) /\ LedgerSum(movements, j) \in Int
        /\ LedgerSum(L1, j) = LedgerSum(movements, j) + IF m1.item = j THEN m1.quantity ELSE 0
    BY <1>0, <2>2, LedgerAppend
  <2> HIDE DEF L1, m1, m2
  <2>5. LedgerSum(movements', j) = LedgerSum(L1, j) + IF m2.item = j THEN m2.quantity ELSE 0
    BY <2>1, <2>2, <2>4, LedgerAppend
  <2>6. LedgerSum(movements', j) = LedgerSum(movements, j)
    BY <2>3, <2>4, <2>5
  <2>7. QED BY <1>0, <2>1, <2>6
<1>7. QED BY <1>1, <1>2, <1>3, <1>4, <1>5, <1>6 DEF Commit

\* The balances before and after the two upserts of a transfer.
LEMMA TransferBalances ==
  ASSUME IInv, NEW r \in Requests, TransferCommit(r),
         NEW j \in Items, NEW c \in Branches
  PROVE  balance'[<<j, c>>] = balance[<<j, c>>]
           + (IF <<j, c>> = <<request[r].item, request[r].branch>>
              THEN -request[r].quantity ELSE 0)
           + (IF <<j, c>> = <<request[r].item, request[r].target>>
              THEN request[r].quantity ELSE 0)
<1> USE InventoryAssumption, RequestFields DEF IInv
<1> DEFINE i == request[r].item
           q == request[r].quantity
           src == request[r].branch
           dst == request[r].target
           bal == UpsertedBalance(balance, <<i, src>> \in balanceRows, <<i, src>>, -q)
           new == UpsertedBalance(bal, <<i, dst>> \in balanceRows, <<i, dst>>, q)
<1>1. /\ i \in Items /\ src \in Branches /\ dst \in Branches /\ src # dst
      /\ q \in Int /\ q >= 0 /\ -q \in Int
      /\ <<i, src>> \in balanceRows
  BY DEF TransferCommit, RequestsSound, RequestSound, LiveItem, LiveBranch, RowSeen, Quantities
<1>2. /\ balance \in [Items \X Branches -> Int]
      /\ \A ib \in (Items \X Branches) \ balanceRows : balance[ib] = 0
  BY DEF TypeOK, NothingUnrecorded
<1>3. balance' = new
  BY DEF TransferCommit
<1>4. <<i, src>> \in Items \X Branches /\ <<i, dst>> \in Items \X Branches
      /\ <<j, c>> \in Items \X Branches /\ <<i, src>> # <<i, dst>>
  BY <1>1
<1>5. bal \in [Items \X Branches -> Int]
  BY <1>1, <1>2, <1>4, UpsertType
<1>6. /\ \A jc \in Items \X Branches : jc # <<i, src>> => bal[jc] = balance[jc]
      /\ bal[<<i, src>>] = balance[<<i, src>>] - q
  BY <1>1, <1>2, <1>4 DEF UpsertedBalance
<1> HIDE DEF bal
<1>7. /\ \A jc \in Items \X Branches : jc # <<i, dst>> => new[jc] = bal[jc]
      /\ new[<<i, dst>>] = bal[<<i, dst>>] + q
  <2>1. <<i, dst>> \notin balanceRows => bal[<<i, dst>>] = 0
    BY <1>2, <1>4, <1>6
  <2>2. QED BY <1>1, <1>4, <1>5, <2>1 DEF UpsertedBalance
<1> HIDE DEF new
<1>8. /\ new[<<j, c>>] \in Int /\ bal[<<j, c>>] \in Int /\ balance[<<j, c>>] \in Int
  BY <1>2, <1>4, <1>5, <1>7, <1>1
<1>9. CASE <<j, c>> = <<i, src>>
  BY <1>1, <1>3, <1>4, <1>6, <1>7, <1>8, <1>9
<1>10. CASE <<j, c>> = <<i, dst>>
  BY <1>1, <1>3, <1>4, <1>6, <1>7, <1>8, <1>10
<1>11. CASE <<j, c>> # <<i, src>> /\ <<j, c>> # <<i, dst>>
  BY <1>1, <1>3, <1>4, <1>6, <1>7, <1>8, <1>11
<1>12. QED BY <1>9, <1>10, <1>11

\* The balance before and after the upsert of a movement.
LEMMA MovementBalances ==
  ASSUME IInv, NEW r \in Requests, CreateMovementCommit(r),
         NEW j \in Items, NEW c \in Branches
  PROVE  balance'[<<j, c>>] = balance[<<j, c>>]
           + (IF <<j, c>> = <<request[r].item, request[r].branch>>
              THEN request[r].quantity ELSE 0)
<1> USE InventoryAssumption, RequestFields DEF IInv
<1> DEFINE i == request[r].item
           q == request[r].quantity
           b == request[r].branch
<1>1. /\ i \in Items /\ q \in Int /\ (b # NoBranch => b \in Branches)
      /\ (q < 0 /\ b # NoBranch => <<i, b>> \in balanceRows)
  BY DEF CreateMovementCommit, RequestsSound, RequestSound, LiveItem, BranchExists, LiveBranch, RowSeen
<1>2. /\ balance \in [Items \X Branches -> Int]
      /\ \A ib \in (Items \X Branches) \ balanceRows : balance[ib] = 0
  BY DEF TypeOK, NothingUnrecorded
<1>3. CASE b = NoBranch
  <2>1. balance' = balance /\ c # b
    BY <1>3 DEF CreateMovementCommit
  <2>2. balance[<<j, c>>] \in Int /\ <<j, c>> # <<i, b>>
    BY <1>2, <2>1
  <2>3. QED BY <2>1, <2>2
<1>4. CASE b # NoBranch
  <2>1. <<i, b>> \in Items \X Branches /\ <<j, c>> \in Items \X Branches
    BY <1>1, <1>4
  <2>2. balance' = UpsertedBalance(balance, <<i, b>> \in balanceRows, <<i, b>>, q)
    BY <1>4 DEF CreateMovementCommit
  <2>3. /\ <<j, c>> # <<i, b>> => balance'[<<j, c>>] = balance[<<j, c>>]
        /\ balance'[<<i, b>>] = balance[<<i, b>>] + q
    <3>1. <<i, b>> \in balanceRows \/ q >= 0
      BY <1>1, <1>4
    <3>2. <<i, b>> \notin balanceRows => balance[<<i, b>>] = 0
      BY <1>2, <2>1
    <3>3. QED BY <1>1, <1>2, <2>1, <2>2, <3>1, <3>2 DEF UpsertedBalance
  <2>4. balance[<<j, c>>] \in Int /\ balance[<<i, b>>] \in Int
    BY <1>2, <2>1
  <2>5. CASE <<j, c>> = <<i, b>>
    BY <1>1, <2>3, <2>4, <2>5
  <2>6. CASE <<j, c>> # <<i, b>>
    BY <1>1, <2>3, <2>4, <2>6
  <2>7. QED BY <2>5, <2>6
<1>5. QED BY <1>3, <1>4

\* The balances follow the ledger of their branch through every write.
LEMMA BranchLedgerCommit ==
  ASSUME IInv, NEW r \in Requests, Commit(r)
  PROVE  BranchLedgerInv'
<1> USE InventoryAssumption, RequestFields DEF IInv
<1>0. /\ movements \in Seq(Movement) /\ balance \in [Items \X Branches -> Int]
      /\ itemStatus \in [Items -> Status] /\ branchStatus \in [Branches -> Status]
      /\ Len(movements) \in Nat
      /\ \A i \in Items, b \in Branches :
           itemStatus[i] # "deleted" /\ branchStatus[b] # "deleted" =>
             balance[<<i, b>>] = BranchSum(movements, i, b)
  BY DEF TypeOK, BranchLedgerInv
<1> SUFFICES ASSUME NEW j \in Items, NEW c \in Branches,
                    itemStatus'[j] # "deleted", branchStatus'[c] # "deleted"
             PROVE  balance'[<<j, c>>] = BranchSum(movements', j, c)
  BY DEF BranchLedgerInv
<1>1. ASSUME NEW i \in Items, CreateItemCommit(r, i)
      PROVE  balance'[<<j, c>>] = BranchSum(movements', j, c)
  <2> DEFINE m == NewMovement(i, request[r].quantity, NoBranch, NoBranch, 0)
  <2>1. m \in Movement /\ m.branch # c
    BY MovementType DEF BranchOrNull, NewMovement
  <2>2. /\ itemStatus[j] # "deleted" /\ branchStatus[c] # "deleted" /\ balance' = balance
        /\ movements' = Append(movements, m) \/ movements' = movements
    BY <1>0, <1>1 DEF CreateItemCommit
  <2>3. BranchSum(movements', j, c) = BranchSum(movements, j, c)
    <3> HIDE DEF m
    <3>1. BranchSum(Append(movements, m), j, c) = BranchSum(movements, j, c)
      BY <1>0, <2>1, BranchAppend
    <3>2. QED BY <2>2, <3>1
  <2>4. QED BY <1>0, <2>2, <2>3
<1>2. CASE UpdateItemCommit(r)
  BY <1>0, <1>2 DEF UpdateItemCommit
<1>3. CASE DeleteItemCommit(r)
  <2>1. /\ request[r].item \in Items /\ j # request[r].item
        /\ itemStatus[j] # "deleted" /\ branchStatus[c] # "deleted"
    BY <1>0, <1>3 DEF DeleteItemCommit, LiveItem
  <2>2. balance'[<<j, c>>] = balance[<<j, c>>]
    BY <1>3, <2>1 DEF DeleteItemCommit
  <2>3. BranchSum(movements', j, c) = BranchSum(movements, j, c)
    BY <1>0, <1>3, <2>1, SumsWithoutItem DEF DeleteItemCommit
  <2>4. QED BY <1>0, <2>1, <2>2, <2>3
<1>4. CASE DeleteBranchCommit(r)
  <2>1. /\ request[r].branch \in Branches /\ c # request[r].branch
        /\ itemStatus[j] # "deleted" /\ branchStatus[c] # "deleted"
    BY <1>0, <1>4 DEF DeleteBranchCommit, LiveBranch
  <2>2. balance'[<<j, c>>] = balance[<<j, c>>]
    BY <1>4, <2>1 DEF DeleteBranchCommit
  <2>3. BranchSum(movements', j, c) = BranchSum(movements, j, c)
    <3>1. movements' = [n \in 1..Len(movements) |-> WithoutBranch(movements[n], request[r].branch)]
      BY <1>4 DEF DeleteBranchCommit
    <3>2. QED BY <1>0, <2>1, <3>1, SumsWithoutBranch
  <2>4. QED BY <1>0, <2>1, <2>2, <2>3
<1>5. CASE CreateMovementCommit(r)
  <2> DEFINE i == request[r].item
             q == request[r].quantity
             b == request[r].branch
             m == NewMovement(i, q, b, request[r].target, 0)
  <2>1. i \in Items /\ itemStatus' = itemStatus /\ branchStatus' = branchStatus
        /\ movements' = Append(movements, m)
    BY <1>5 DEF CreateMovementCommit, LiveItem
  <2>2. m \in Movement /\ m.item = i /\ m.quantity = q /\ m.branch = b
    BY <2>1, MovementType DEF NewMovement
  <2>3. BranchSum(movements', j, c) =
          BranchSum(movements, j, c) + IF m.item = j /\ m.branch = c THEN m.quantity ELSE 0
    BY <1>0, <2>1, <2>2, BranchAppend
  <2>4. balance'[<<j, c>>] = balance[<<j, c>>] + (IF <<j, c>> = <<i, b>> THEN q ELSE 0)
    BY <1>5, MovementBalances
  <2>5. <<j, c>> = <<i, b>> <=> i = j /\ b = c
    OBVIOUS
  <2> HIDE DEF m
  <2>6. QED BY <1>0, <2>1, <2>2, <2>3, <2>4, <2>5
<1>6. CASE TransferCommit(r)
  <2> DEFINE i == request[r].item
             q == request[r].quantity
             src == request[r].branch
             dst == request[r].target
             out == Len(movements) + 1
             m1 == NewMovement(i, -q, src, dst, out + 1)
             m2 == NewMovement(i, q, dst, src, out)
             L1 == Append(movements, m1)
  <2>1. i \in Items /\ itemStatus' = itemStatus /\ branchStatus' = branchStatus
        /\ movements' = Append(L1, m2)
    BY <1>6 DEF TransferCommit, LiveItem
  <2>2. m1 \in Movement /\ m2 \in Movement
    <3>1. out \in Nat /\ out + 1 \in Nat /\ -q \in Int
      BY <1>0
    <3>2. QED BY <2>1, <3>1, MovementType
  <2>3. /\ m1.item = i /\ m1.quantity = -q /\ m1.branch = src
        /\ m2.item = i /\ m2.quantity = q /\ m2.branch = dst
    BY DEF NewMovement
  <2> HIDE DEF m1, m2
  <2>4. L1 \in Seq(Movement) /\ BranchSum(movements, j, c) \in Int
        /\ BranchSum(L1, j, c) =
             BranchSum(movements, j, c) + IF m1.item = j /\ m1.branch = c THEN m1.quantity ELSE 0
    BY <1>0, <2>2, BranchAppend
  <2> HIDE DEF L1
  <2>5. BranchSum(movements', j, c) =
          BranchSum(L1, j, c) + IF m2.item = j /\ m2.branch = c THEN m2.quantity ELSE 0
    BY <2>1, <2>2, <2>4, BranchAppend
  <2>6. balance'[<<j, c>>] = balance[<<j, c>>]
          + (IF <<j, c>> = <<i, src>> THEN -q ELSE 0) + (IF <<j, c>> = <<i, dst>> THEN q ELSE 0)
    BY <1>6, TransferBalances
  <2>7. /\ <<j, c>> = <<i, src>> <=> i = j /\ src = c
        /\ <<j, c>> = <<i, dst>> <=> i = j /\ dst = c
    OBVIOUS
  <2>8. BranchSum(movements, j, c) = balance[<<j, c>>]
    BY <1>0, <2>1
  <2>9. QED BY <2>3, <2>4, <2>5, <2>6, <2>7, <2>8
<1>7. QED BY <1>1, <1>2, <1>3, <1>4, <1>5, <1>6 DEF Commit

\* Nothing is stocked without a record.
LEMMA NothingUnrecordedCommit ==
  ASSUME IInv, NEW r \in Requests, Commit(r)
  PROVE  NothingUnrecorded'
<1> USE InventoryAssumption, RequestFields DEF IInv, NothingUnrecorded
<1>0. /\ balance \in [Items \X Branches -> Int] /\ currentStock \in [Items -> Int]
      /\ itemStatus \in [Items -> Status]
  BY DEF TypeOK
<1>1. ASSUME NEW i \in Items, CreateItemCommit(r, i) PROVE NothingUnrecorded'
  BY <1>0, <1>1 DEF CreateItemCommit
<1>2. CASE UpdateItemCommit(r)
  BY <1>2 DEF UpdateItemCommit
<1>3. CASE DeleteItemCommit(r)
  BY <1>0, <1>3 DEF DeleteItemCommit, LiveItem
<1>4. CASE DeleteBranchCommit(r)
  BY <1>0, <1>4 DEF DeleteBranchCommit
<1>5. CASE CreateMovementCommit(r)
  <2>1. \A i \in Items : itemStatus'[i] = "unused" => currentStock'[i] = 0
    BY <1>0, <1>5 DEF CreateMovementCommit, LiveItem
  <2>2. ASSUME NEW ib \in (Items \X Branches) \ balanceRows' PROVE balance'[ib] = 0
    BY <1>0, <1>5, <2>2 DEF CreateMovementCommit, UpsertedBalance
  <2>3. QED BY <2>1, <2>2
<1>6. CASE TransferCommit(r)
  <2>1. \A i \in Items : itemStatus'[i] = "unused" => currentStock'[i] = 0
    BY <1>0, <1>6 DEF TransferCommit, LiveItem
  <2>2. ASSUME NEW ib \in (Items \X Branches) \ balanceRows' PROVE balance'[ib] = 0
    BY <1>0, <1>6, <2>2 DEF TransferCommit, UpsertedBalance
  <2>3. QED BY <2>1, <2>2
<1>7. QED BY <1>1, <1>2, <1>3, <1>4, <1>5, <1>6 DEF Commit

\* What a handler validated stays true of its request whatever the others write.
LEMMA RequestsSoundCommit ==
  ASSUME IInv, NEW r \in Requests, Commit(r)
  PROVE  RequestsSound'
<1> USE InventoryAssumption DEF IInv
<1>1. /\ request \in [Requests -> Request] /\ itemStatus \in [Items -> Status]
      /\ branchStatus \in [Branches -> Status]
  BY DEF TypeOK
<1>2. /\ request' = [request EXCEPT ![r] = Idle]
      /\ Idle.op = "idle"
  BY DEF Commit, CreateItemCommit, UpdateItemCommit, DeleteItemCommit, DeleteBranchCommit,
         CreateMovementCommit, TransferCommit, Finish, Idle, Operation
<1>3. ASSUME NEW i \in Items, NEW b \in Branches, RowSeen(i, b) PROVE RowSeen(i, b)'
  <2>1. ASSUME NEW k \in Items, CreateItemCommit(r, k) PROVE RowSeen(i, b)'
    BY <1>1, <1>3, <2>1 DEF CreateItemCommit, RowSeen
  <2>2. CASE UpdateItemCommit(r)
    BY <1>3, <2>2 DEF UpdateItemCommit, RowSeen
  <2>3. CASE DeleteItemCommit(r)
    BY <1>1, <1>3, <2>3 DEF DeleteItemCommit, LiveItem, RowSeen
  <2>4. CASE DeleteBranchCommit(r)
    BY <1>1, <1>3, <2>4 DEF DeleteBranchCommit, LiveBranch, RowSeen
  <2>5. CASE CreateMovementCommit(r)
    BY <1>3, <2>5 DEF CreateMovementCommit, RowSeen
  <2>6. CASE TransferCommit(r)
    BY <1>3, <2>6 DEF TransferCommit, RowSeen
  <2>7. QED BY <2>1, <2>2, <2>3, <2>4, <2>5, <2>6 DEF Commit
<1>4. ASSUME NEW s \in Requests PROVE request'[s] = request[s] \/ request'[s].op = "idle"
  BY <1>1, <1>2
<1>5. \A s \in Requests : request[s].branch \in BranchOrNull
  BY RequestFields
<1>6. QED BY <1>3, <1>4, <1>5 DEF RequestsSound, RequestSound, BranchOrNull

-----------------------------------------------------------------------------
(* The bound on overselling.                                               *)

\* What a validation leaves in its handler: a sound request whose exit, if any, the
\* branch could cover when it was read.
LEMMA CheckOutcome ==
  ASSUME IInv, NEW r \in Requests, Check(r)
  PROVE  /\ request[r].op = "idle"
         /\ \E o \in Request :
              /\ request' = [request EXCEPT ![r] = o]
              /\ RequestSound(o)
              /\ \A i \in Items, b \in Branches :
                   ExitInFlight(o, i, b) = 0 \/ ExitInFlight(o, i, b) <= balance[<<i, b>>]
<1> DEFINE Covered(o) == \A i \in Items, b \in Branches :
                   ExitInFlight(o, i, b) = 0 \/ ExitInFlight(o, i, b) <= balance[<<i, b>>]
           Good(o) == o \in Request /\ request' = [request EXCEPT ![r] = o]
                      /\ RequestSound(o) /\ Covered(o)
<1> SUFFICES request[r].op = "idle" /\ \E o : Good(o)
  OBVIOUS
<1>0. /\ balance \in [Items \X Branches -> Int]
      /\ \A ib \in (Items \X Branches) \ balanceRows : balance[ib] = 0
  BY DEF IInv, TypeOK, NothingUnrecorded
<1> USE InventoryAssumption, OperationType DEF Operations, BranchOrNull, SkuOrNull, Start
<1>1. ASSUME NEW s \in SkuOrNull, NEW q \in 0..MaxQuantity, CreateItemCheck(r, s, q)
      PROVE  request[r].op = "idle" /\ \E o : Good(o)
  <2>1. Good(Operation("createItem", NoItem, NoBranch, NoBranch, q, s))
    BY <1>1 DEF CreateItemCheck, RequestSound, ExitInFlight, Operation, Request
  <2>2. QED BY <1>1, <2>1 DEF CreateItemCheck
<1>2. ASSUME NEW i \in Items, NEW s \in SkuOrNull, UpdateItemCheck(r, i, s)
      PROVE  request[r].op = "idle" /\ \E o : Good(o)
  <2>1. Good(Operation("updateItem", i, NoBranch, NoBranch, 0, s))
    BY <1>2 DEF UpdateItemCheck, RequestSound, ExitInFlight, Operation, Request
  <2>2. QED BY <1>2, <2>1 DEF UpdateItemCheck
<1>3. ASSUME NEW i \in Items, DeleteItemCheck(r, i)
      PROVE  request[r].op = "idle" /\ \E o : Good(o)
  <2>1. Good(Operation("deleteItem", i, NoBranch, NoBranch, 0, NoSku))
    BY <1>3 DEF DeleteItemCheck, RequestSound, ExitInFlight, Operation, Request
  <2>2. QED BY <1>3, <2>1 DEF DeleteItemCheck
<1>4. ASSUME NEW b \in Branches, DeleteBranchCheck(r, b)
      PROVE  request[r].op = "idle" /\ \E o : Good(o)
  <2>1. Good(Operation("deleteBranch", NoItem, b, NoBranch, 0, NoSku))
    BY <1>4 DEF DeleteBranchCheck, RequestSound, ExitInFlight, Operation, Request
  <2>2. QED BY <1>4, <2>1 DEF DeleteBranchCheck
<1>5. ASSUME NEW i \in Items, NEW type \in MovementTypes, NEW q \in Quantities,
             NEW b \in BranchOrNull, NEW t \in Targets, CreateMovementCheck(r, i, type, q, b, t)
      PROVE  request[r].op = "idle" /\ \E o : Good(o)
  <2> DEFINE sq == SignedQuantity(type, q)
             o == Operation("movement", i, b, t, sq, NoSku)
  <2>1. sq \in -MaxQuantity..MaxQuantity /\ t \in BranchOrNull
    BY DEF SignedQuantity, Quantities
  <2>2. request[r].op = "idle" /\ request' = [request EXCEPT ![r] = o] /\ NoNegativeStock(i, sq, b)
    BY <1>5 DEF CreateMovementCheck
  <2> HIDE DEF sq
  <2>3. o \in Request
    BY <2>1
  <2>4. /\ o.op = "movement" /\ o.item = i /\ o.branch = b /\ o.quantity = sq
    BY DEF Operation
  <2>5. sq < 0 /\ b # NoBranch => balance[<<i, b>>] + sq >= 0 /\ RowSeen(i, b)
    BY <1>0, <2>1, <2>2 DEF NoNegativeStock, RowSeen
  <2> HIDE DEF o
  <2>6. RequestSound(o)
    BY <2>1, <2>4, <2>5 DEF RequestSound
  <2>7. Covered(o)
    BY <1>0, <2>1, <2>4, <2>5 DEF ExitInFlight
  <2>8. QED BY <2>2, <2>3, <2>6, <2>7
<1>6. ASSUME NEW i \in Items, NEW q \in -MaxQuantity..MaxQuantity, AdjustStockCheck(r, i, q)
      PROVE  request[r].op = "idle" /\ \E o : Good(o)
  <2> DEFINE o == Operation("movement", i, NoBranch, NoBranch, q, NoSku)
  <2>1. request[r].op = "idle" /\ request' = [request EXCEPT ![r] = o]
    BY <1>6 DEF AdjustStockCheck
  <2>2. o \in Request
    OBVIOUS
  <2>3. o.op = "movement" /\ o.item = i /\ o.branch = NoBranch /\ o.quantity = q
    BY DEF Operation
  <2> HIDE DEF o
  <2>4. RequestSound(o) /\ Covered(o)
    BY <2>3 DEF RequestSound, ExitInFlight
  <2>5. QED BY <2>1, <2>2, <2>4
<1>7. ASSUME NEW i \in Items, NEW src \in Branches, NEW dst \in Branches, NEW q \in Quantities,
             TransferCheck(r, i, src, dst, q)
      PROVE  request[r].op = "idle" /\ \E o : Good(o)
  <2> DEFINE o == Operation("transfer", i, src, dst, q, NoSku)
  <2>1. request[r].op = "idle" /\ request' = [request EXCEPT ![r] = o] /\ src # dst
        /\ NoNegativeStock(i, -q, src)
    BY <1>7 DEF TransferCheck
  <2>2. o \in Request
    BY DEF Quantities
  <2>3. /\ o.op = "transfer" /\ o.item = i /\ o.branch = src /\ o.target = dst
        /\ o.quantity = q
    BY DEF Operation
  <2>4. balance[<<i, src>>] >= q /\ RowSeen(i, src)
    BY <1>0, <2>1 DEF NoNegativeStock, Quantities, RowSeen
  <2> HIDE DEF o
  <2>5. RequestSound(o) /\ Covered(o)
    BY <2>1, <2>3, <2>4 DEF RequestSound, ExitInFlight
  <2>6. QED BY <2>1, <2>2, <2>5
<1>8. QED BY <1>1, <1>2, <1>3, <1>4, <1>5, <1>6, <1>7 DEF Check

\* The exits in flight are between 0 and MaxQuantity, and change with one request.
LEMMA ExitsStep ==
  ASSUME TypeOK, RequestsSound, NEW r \in Requests, NEW o \in Request,
         request' = [request EXCEPT ![r] = o],
         NEW i, NEW b
  PROVE  /\ ExitsInFlight(i, b) \in [1..NumRequests -> 0..MaxQuantity]
         /\ ExitInFlight(o, i, b) \in Int
         /\ SumOf(ExitsInFlight(i, b), NumRequests) \in Int
         /\ SumOf(ExitsInFlight(i, b)', NumRequests) =
              SumOf(ExitsInFlight(i, b), NumRequests) - ExitInFlight(request[r], i, b)
                + ExitInFlight(o, i, b)
<1> USE InventoryAssumption DEF Requests
<1> DEFINE f == ExitsInFlight(i, b)
<1>1. \A s \in Requests : ExitInFlight(request[s], i, b) \in 0..MaxQuantity
  BY DEF RequestsSound, RequestSound, ExitInFlight, Quantities
<1>2. f \in [1..NumRequests -> 0..MaxQuantity]
  BY <1>1 DEF ExitsInFlight
<1>3. ExitInFlight(o, i, b) \in Int
  BY DEF ExitInFlight, Request
<1>4. f' = [f EXCEPT ![r] = ExitInFlight(o, i, b)]
  <2>1. /\ f = [s \in Requests |-> ExitInFlight(request[s], i, b)]
        /\ f' = [s \in Requests |-> ExitInFlight(request'[s], i, b)]
    BY DEF ExitsInFlight
  <2>2. \A s \in Requests : request'[s] = IF s = r THEN o ELSE request[s]
    BY DEF TypeOK
  <2> HIDE DEF f
  <2>3. QED BY <2>1, <2>2
<1>5. f[r] = ExitInFlight(request[r], i, b)
  BY DEF ExitsInFlight
<1>6. f \in [1..NumRequests -> Int] /\ r \in 1..NumRequests /\ NumRequests \in Nat
  BY <1>2
<1> HIDE DEF f
<1>7. SumOf(f', NumRequests) = SumOf(f, NumRequests) - f[r] + ExitInFlight(o, i, b)
  BY <1>3, <1>4, <1>6, SumUpdate
<1>8. SumOf(f, NumRequests) \in Int
  BY <1>6, SumType
<1>9. QED BY <1>2, <1>3, <1>5, <1>7, <1>8 DEF f

\* The other handlers together hold exits of at most (NumRequests - 1) * MaxQuantity.
LEMMA OthersBound ==
  ASSUME NEW f \in [1..NumRequests -> 0..MaxQuantity], NEW r \in 1..NumRequests, f[r] = 0
  PROVE  /\ SumOf(f, NumRequests) <= (NumRequests - 1) * MaxQuantity
         /\ SumOf(f, NumRequests) \in Int
         /\ (NumRequests - 1) * MaxQuantity \in Int
<1> USE InventoryAssumption
<1> DEFINE g == [f EXCEPT ![r] = MaxQuantity]
<1>1. NumRequests \in Nat /\ MaxQuantity \in Int /\ f \in [1..NumRequests -> Int]
  OBVIOUS
<1>2. g \in [1..NumRequests -> Int] /\ \A k \in 1..NumRequests : g[k] <= MaxQuantity
  OBVIOUS
<1>3. g = [f EXCEPT ![r] = MaxQuantity]
  OBVIOUS
<1> HIDE DEF g
<1>4. /\ SumOf(g, NumRequests) = SumOf(f, NumRequests) - f[r] + MaxQuantity
      /\ SumOf(f, NumRequests) \in Int
  <2> HIDE InventoryAssumption
  <2>1. SumOf(g, NumRequests) = SumOf(f, NumRequests) - f[r] + MaxQuantity
    BY <1>1, <1>3, SumUpdate
  <2>2. QED BY <1>1, <2>1, SumType
<1>5. SumOf(g, NumRequests) <= NumRequests * MaxQuantity
  BY <1>1, <1>2, SumBound
<1>6. /\ NumRequests * MaxQuantity = (NumRequests - 1) * MaxQuantity + MaxQuantity
      /\ (NumRequests - 1) * MaxQuantity \in Int
  BY <1>1
<1> DEFINE a == (NumRequests - 1) * MaxQuantity
           c == NumRequests * MaxQuantity
<1> HIDE DEF a, c
<1>7. a \in Int /\ c = a + MaxQuantity /\ SumOf(g, NumRequests) <= c
  BY <1>5, <1>6 DEF a, c
<1>8. SumOf(f, NumRequests) <= a
  BY <1>1, <1>4, <1>7
<1>9. QED BY <1>4, <1>7, <1>8 DEF a

\* A write takes from a branch no more than its own validated exit.
LEMMA CommitTakes ==
  ASSUME IInv, NEW r \in Requests, Commit(r), NEW i \in Items, NEW b \in Branches
  PROVE  \/ balance'[<<i, b>>] >= balance[<<i, b>>] - ExitInFlight(request[r], i, b)
         \/ balance'[<<i, b>>] = 0 /\ ExitInFlight(request[r], i, b) = 0
<1> USE InventoryAssumption, RequestFields DEF IInv
<1>0. /\ balance \in [Items \X Branches -> Int] /\ balance[<<i, b>>] \in Int
      /\ balance'[<<i, b>>] = balance[<<i, b>>] =>
           balance'[<<i, b>>] >= balance[<<i, b>>] - ExitInFlight(request[r], i, b)
  <2>1. balance \in [Items \X Branches -> Int] /\ balance[<<i, b>>] \in Int
    BY DEF TypeOK
  <2>2. ExitInFlight(request[r], i, b) \in Nat
    BY DEF RequestsSound, RequestSound, ExitInFlight, Quantities
  <2>3. QED BY <2>1, <2>2
<1>1. ASSUME NEW k \in Items, CreateItemCommit(r, k) PROVE balance' = balance
  BY <1>1 DEF CreateItemCommit
<1>2. CASE UpdateItemCommit(r)
  BY <1>0, <1>2 DEF UpdateItemCommit
<1>3. CASE DeleteItemCommit(r)
  <2>1. ExitInFlight(request[r], i, b) = 0
    BY <1>3 DEF DeleteItemCommit, ExitInFlight
  <2>2. balance'[<<i, b>>] = 0 \/ balance'[<<i, b>>] = balance[<<i, b>>]
    BY <1>0, <1>3 DEF DeleteItemCommit
  <2>3. QED BY <1>0, <2>1, <2>2
<1>4. CASE DeleteBranchCommit(r)
  <2>1. ExitInFlight(request[r], i, b) = 0
    BY <1>4 DEF DeleteBranchCommit, ExitInFlight
  <2>2. balance'[<<i, b>>] = 0 \/ balance'[<<i, b>>] = balance[<<i, b>>]
    BY <1>0, <1>4 DEF DeleteBranchCommit
  <2>3. QED BY <1>0, <2>1, <2>2
<1>5. CASE CreateMovementCommit(r)
  <2>1. request[r].op = "movement"
    BY <1>5 DEF CreateMovementCommit
  <2>2. balance'[<<i, b>>] = balance[<<i, b>>]
          + (IF <<i, b>> = <<request[r].item, request[r].branch>> THEN request[r].quantity ELSE 0)
    BY <1>5, MovementBalances
  <2>3. QED BY <1>0, <2>1, <2>2 DEF ExitInFlight
<1>6. CASE TransferCommit(r)
  <2>1. request[r].op = "transfer" /\ request[r].quantity \in Nat
    BY <1>6 DEF TransferCommit, RequestsSound, RequestSound, Quantities
  <2>2. balance'[<<i, b>>] = balance[<<i, b>>]
          + (IF <<i, b>> = <<request[r].item, request[r].branch>> THEN -request[r].quantity ELSE 0)
          + (IF <<i, b>> = <<request[r].item, request[r].target>> THEN request[r].quantity ELSE 0)
    BY <1>6, TransferBalances
  <2>3. QED BY <1>0, <2>1, <2>2 DEF ExitInFlight
<1>7. QED BY <1>0, <1>1, <1>2, <1>3, <1>4, <1>5, <1>6 DEF Commit

\* Balances never fall below what the handlers in flight may still take, less the bound.
LEMMA OversellStep == IInv /\ [Next]_vars => OversellInv'
<1> SUFFICES ASSUME IInv, [Next]_vars, NEW i \in Items, NEW b \in Branches
             PROVE  balance'[<<i, b>>] >= SumOf(ExitsInFlight(i, b)', NumRequests)
                                            - (NumRequests - 1) * MaxQuantity
  BY DEF OversellInv, ExitsInFlight
<1> DEFINE f == ExitsInFlight(i, b)
           S == SumOf(f, NumRequests)
           T == SumOf(f', NumRequests)
           a == (NumRequests - 1) * MaxQuantity
<1>1. /\ balance[<<i, b>>] \in Int /\ TypeOK /\ RequestsSound
      /\ balance[<<i, b>>] >= S - a
  BY DEF IInv, TypeOK, OversellInv
<1>2. a \in Int /\ Requests = 1..NumRequests
  BY InventoryAssumption DEF Requests
<1>3. Idle \in Request /\ ExitInFlight(Idle, i, b) = 0
  BY IdleType, InventoryAssumption DEF ExitInFlight, Idle, Operation
<1>4. CASE request' = request /\ balance' = balance
  <2>1. T = S
    BY <1>4 DEF ExitsInFlight
  <2>2. QED BY <1>1, <1>4, <2>1
<1>5. ASSUME NEW r \in Requests, Check(r) PROVE balance'[<<i, b>>] >= T - a
  <2>1. /\ request[r].op = "idle"
        /\ \E o \in Request :
             /\ request' = [request EXCEPT ![r] = o]
             /\ ExitInFlight(o, i, b) = 0 \/ ExitInFlight(o, i, b) <= balance[<<i, b>>]
    BY <1>5, CheckOutcome
  <2>2. PICK o \in Request :
             /\ request' = [request EXCEPT ![r] = o]
             /\ ExitInFlight(o, i, b) = 0 \/ ExitInFlight(o, i, b) <= balance[<<i, b>>]
    BY <2>1
  <2>3. ExitInFlight(request[r], i, b) = 0
    BY <2>1 DEF ExitInFlight
  <2>4. /\ f \in [1..NumRequests -> 0..MaxQuantity] /\ S \in Int
        /\ ExitInFlight(o, i, b) \in Int
        /\ T = S - 0 + ExitInFlight(o, i, b)
    BY <1>1, <2>2, <2>3, ExitsStep
  <2>5. f[r] = 0
    BY <2>3 DEF ExitsInFlight
  <2>6. balance' = balance
    BY <1>1, <1>5, CheckStep DEF rows
  <2> HIDE DEF f
  <2>7. S <= a
    BY <1>2, <2>4, <2>5, OthersBound
  <2> HIDE DEF S, T, a
  <2>8. QED BY <1>1, <1>2, <2>2, <2>4, <2>6, <2>7
<1>6. ASSUME NEW r \in Requests, Commit(r) PROVE balance'[<<i, b>>] >= T - a
  <2> DEFINE e == ExitInFlight(request[r], i, b)
  <2>1. request' = [request EXCEPT ![r] = Idle]
    BY <1>6 DEF Commit, CreateItemCommit, UpdateItemCommit, DeleteItemCommit,
                DeleteBranchCommit, CreateMovementCommit, TransferCommit, Finish
  <2>2. f \in [1..NumRequests -> 0..MaxQuantity] /\ S \in Int /\ T = S - e + 0
    BY <1>1, <1>3, <2>1, ExitsStep
  <2>3. f[r] = e /\ e \in Int
    BY <1>2, <2>2 DEF ExitsInFlight
  <2>4. \/ balance'[<<i, b>>] >= balance[<<i, b>>] - e
        \/ balance'[<<i, b>>] = 0 /\ e = 0
    BY <1>6, CommitTakes
  <2>5. e = 0 => S <= a
    <3> HIDE DEF f, e, a
    <3>1. QED BY <1>2, <2>2, <2>3, OthersBound DEF a
  <2>6. balance'[<<i, b>>] \in Int
    BY <1>1, <1>6, CommitTypeOK DEF TypeOK
  <2> HIDE DEF S, T, a, e
  <2>7. QED BY <1>1, <1>2, <2>2, <2>3, <2>4, <2>5, <2>6
<1>7. ASSUME NEW r \in Requests, Abandon(r) PROVE balance'[<<i, b>>] >= T - a
  <2> DEFINE e == ExitInFlight(request[r], i, b)
  <2>1. request' = [request EXCEPT ![r] = Idle] /\ balance' = balance
    BY <1>7 DEF Abandon, Finish, rows
  <2>2. f \in [1..NumRequests -> 0..MaxQuantity] /\ S \in Int /\ T = S - e + 0
    BY <1>1, <1>3, <2>1, ExitsStep
  <2>3. f[r] = e
    BY <1>2 DEF ExitsInFlight
  <2>4. e \in Nat
    BY <1>2, <2>2, <2>3, InventoryAssumption
  <2> HIDE DEF S, T, a, e
  <2>5. QED BY <1>1, <1>2, <2>1, <2>2, <2>4
<1>8. ASSUME NEW c \in Branches, CreateBranch(c) PROVE request' = request /\ balance' = balance
  BY <1>8 DEF CreateBranch
<1>9. CASE UNCHANGED vars
  BY <1>4, <1>9 DEF vars, rows
<1>10. QED BY <1>4, <1>5, <1>6, <1>7, <1>8, <1>9 DEF Next

-----------------------------------------------------------------------------
(* The invariant and what follows from it.                                 *)

\* Every step keeps the inductive invariant.
LEMMA IInvStep == IInv /\ [Next]_vars => IInv'
<1> SUFFICES ASSUME IInv, [Next]_vars PROVE IInv'
  OBVIOUS
<1>1. TypeOK' /\ OversellInv'
  BY TypeOKStep, OversellStep DEF IInv
<1>2. ASSUME NEW b \in Branches, CreateBranch(b)
      PROVE  RequestsSound' /\ NothingUnrecorded' /\ LedgerInv' /\ BranchLedgerInv'
  <2>1. /\ UNCHANGED <<itemStatus, currentStock, balanceRows, balance, movements, request>>
        /\ \A c \in Branches : branchStatus'[c] = "deleted" <=> branchStatus[c] = "deleted"
    BY <1>2 DEF CreateBranch, IInv, TypeOK
  <2>2. \A r \in Requests : request[r].branch \in Branches \cup {NoBranch}
    BY RequestFields DEF IInv, BranchOrNull
  <2>3. RequestsSound'
    BY <2>1, <2>2 DEF IInv, RequestsSound, RequestSound, RowSeen
  <2>4. NothingUnrecorded' /\ LedgerInv' /\ BranchLedgerInv'
    BY <2>1 DEF IInv, NothingUnrecorded, LedgerInv, BranchLedgerInv
  <2>5. QED BY <2>3, <2>4
<1>3. ASSUME NEW r \in Requests, Check(r)
      PROVE  RequestsSound' /\ NothingUnrecorded' /\ LedgerInv' /\ BranchLedgerInv'
  <2>1. UNCHANGED rows
    BY <1>3, CheckStep DEF IInv
  <2>2. PICK o \in Request : request' = [request EXCEPT ![r] = o] /\ RequestSound(o)
    BY <1>3, CheckOutcome
  <2>3. \A s \in Requests : RequestSound(request[s])
    BY DEF IInv, RequestsSound
  <2>4. \A s \in Requests : request'[s] = IF s = r THEN o ELSE request[s]
    BY <2>2 DEF IInv, TypeOK
  <2>5. \A s \in Requests : RequestSound(request'[s])
    BY <2>2, <2>3, <2>4
  <2>6. RequestsSound'
    BY <2>1, <2>5 DEF RequestsSound, RequestSound, RowSeen, rows
  <2>7. NothingUnrecorded' /\ LedgerInv' /\ BranchLedgerInv'
    BY <2>1 DEF IInv, NothingUnrecorded, LedgerInv, BranchLedgerInv, rows
  <2>8. QED BY <2>6, <2>7
<1>4. ASSUME NEW r \in Requests, Commit(r)
      PROVE  RequestsSound' /\ NothingUnrecorded' /\ LedgerInv' /\ BranchLedgerInv'
  BY <1>4, LedgerCommit, BranchLedgerCommit, NothingUnrecordedCommit, RequestsSoundCommit
<1>5. ASSUME NEW r \in Requests, Abandon(r)
      PROVE  RequestsSound' /\ NothingUnrecorded' /\ LedgerInv' /\ BranchLedgerInv'
  <2>1. UNCHANGED rows /\ request' = [request EXCEPT ![r] = Idle] /\ Idle.op = "idle"
    BY <1>5 DEF Abandon, Finish, Idle, Operation
  <2>2. \A s \in Requests : request'[s] = request[s] \/ request'[s].op = "idle"
    BY <2>1 DEF IInv, TypeOK
  <2>3. RequestsSound'
    BY <2>1, <2>2 DEF IInv, RequestsSound, RequestSound, RowSeen, rows
  <2>4. NothingUnrecorded' /\ LedgerInv' /\ BranchLedgerInv'
    BY <2>1 DEF IInv, NothingUnrecorded, LedgerInv, BranchLedgerInv, rows
  <2>5. QED BY <2>3, <2>4
<1>6. CASE UNCHANGED vars
  <2>1. UNCHANGED rows /\ UNCHANGED request
    BY <1>6 DEF vars
  <2>2. RequestsSound'
    BY <2>1 DEF IInv, RequestsSound, RequestSound, RowSeen, rows
  <2>3. NothingUnrecorded' /\ LedgerInv' /\ BranchLedgerInv'
    BY <2>1 DEF IInv, NothingUnrecorded, LedgerInv, BranchLedgerInv, rows
  <2>4. QED BY <1>1, <2>2, <2>3 DEF IInv
<1>7. RequestsSound' /\ NothingUnrecorded' /\ LedgerInv' /\ BranchLedgerInv' => IInv'
  BY <1>1 DEF IInv
<1>8. QED BY <1>2, <1>3, <1>4, <1>5, <1>6, <1>7 DEF Next

\* The invariant holds in every state the inventory reaches.
THEOREM InventoryInvariant == Spec => []IInv
<1>1. QED BY InitIInv, IInvStep, PTL DEF Spec

\* However the handlers interleave, the stock of a live product is the sum of its
\* ledger (the transactions of stock-movement.service.ts and inventory-item.service.ts).
THEOREM LedgerTotalHolds == Spec => []LedgerTotal
<1>1. IInv => LedgerTotal
  BY DEF IInv, LedgerInv, LedgerTotal
<1>2. QED BY <1>1, InventoryInvariant, PTL

\* The balance of a branch is the sum of what was recorded there: upsertStockBalance
\* (stock-movement.service.ts:425) loses nothing to its max(0, change).
THEOREM BranchLedgerHolds == Spec => []BranchLedger
<1>1. IInv => BranchLedger
  BY DEF IInv, BranchLedgerInv, BranchLedger
<1>2. QED BY <1>1, InventoryInvariant, PTL

\* A branch is oversold by at most what the other handlers in flight had validated;
\* with one handler at a time validateNoNegativeStock keeps every balance at 0 or more.
THEOREM OversellBoundedHolds == Spec => []OversellBounded
<1>1. ASSUME IInv PROVE OversellBounded
  <2> SUFFICES ASSUME NEW i \in Items, NEW b \in Branches
               PROVE  balance[<<i, b>>] >= -((NumRequests - 1) * MaxQuantity)
    BY DEF OversellBounded
  <2> DEFINE f == ExitsInFlight(i, b)
             a == (NumRequests - 1) * MaxQuantity
  <2>2. f \in [1..NumRequests -> Int] /\ \A k \in 1..NumRequests : f[k] \in Nat
    <3>1. \A s \in Requests : ExitInFlight(request[s], i, b) \in Nat
      BY <1>1 DEF IInv, RequestsSound, RequestSound, ExitInFlight, Quantities
    <3>2. QED BY <3>1 DEF ExitsInFlight, Requests
  <2>3. SumOf(f, NumRequests) >= 0 /\ SumOf(f, NumRequests) \in Int
    BY <2>2, InventoryAssumption, SumNonNegative
  <2>4. balance[<<i, b>>] \in Int /\ balance[<<i, b>>] >= SumOf(f, NumRequests) - a
    BY <1>1 DEF IInv, TypeOK, OversellInv
  <2>5. a \in Int
    BY InventoryAssumption
  <2> HIDE DEF f, a
  <2>6. balance[<<i, b>>] >= -a
    BY <2>3, <2>4, <2>5
  <2>7. QED BY <2>6 DEF a
<1>2. QED BY <1>1, InventoryInvariant, PTL

\* The unique index (profileId, sku) decides between handlers whose check of the SKU
\* (inventory-item.service.ts:105) passed for both.
THEOREM SkuUniqueHolds == Spec => []SkuUnique
<1>1. Init => SkuUnique
  BY DEF Init, SkuUnique
<1>2. TypeOK /\ SkuUnique /\ [Next]_vars => SkuUnique'
  <2> SUFFICES ASSUME TypeOK, SkuUnique, [Next]_vars PROVE SkuUnique'
    OBVIOUS
  <2> USE DEF SkuUnique
  <2>1. ASSUME NEW b \in Branches, CreateBranch(b) PROVE SkuUnique'
    BY <2>1 DEF CreateBranch
  <2>2. ASSUME NEW r \in Requests, Check(r) PROVE SkuUnique'
    BY <2>2, CheckStep DEF rows
  <2>3. ASSUME NEW r \in Requests, NEW k \in Items, CreateItemCommit(r, k) PROVE SkuUnique'
    BY <2>3 DEF CreateItemCommit, SkuIndexAllows, TypeOK
  <2>4. ASSUME NEW r \in Requests, UpdateItemCommit(r) PROVE SkuUnique'
    BY <2>4 DEF UpdateItemCommit, SkuIndexAllows, LiveItem, TypeOK
  <2>5. ASSUME NEW r \in Requests, DeleteItemCommit(r) PROVE SkuUnique'
    BY <2>5 DEF DeleteItemCommit, LiveItem, TypeOK
  <2>6. ASSUME NEW r \in Requests,
               DeleteBranchCommit(r) \/ CreateMovementCommit(r) \/ TransferCommit(r)
        PROVE  SkuUnique'
    BY <2>6 DEF DeleteBranchCommit, CreateMovementCommit, TransferCommit
  <2>7. ASSUME NEW r \in Requests, Abandon(r) PROVE SkuUnique'
    BY <2>7 DEF Abandon, rows
  <2>8. CASE UNCHANGED vars
    BY <2>8 DEF vars, rows
  <2>9. QED BY <2>1, <2>2, <2>3, <2>4, <2>5, <2>6, <2>7, <2>8 DEF Next, Commit
<1>3. QED BY <1>1, <1>2, TypeCorrect, PTL DEF Spec

-----------------------------------------------------------------------------
(* The two rows of a transfer.                                             *)

\* The rows of a movement keep the fields the pair is told by.
LEMMA MovementFields ==
  ASSUME NEW i, NEW q, NEW b, NEW t, NEW k
  PROVE  /\ NewMovement(i, q, b, t, k).item = i
         /\ NewMovement(i, q, b, t, k).quantity = q
         /\ NewMovement(i, q, b, t, k).related = k
BY DEF NewMovement

\* A row that belongs to no transfer, appended.
LEMMA PairsWithRow ==
  ASSUME TypeOK, TransfersPaired, NEW row \in Movement, row.related = 0,
         movements' = Append(movements, row)
  PROVE  TransfersPaired'
<1>1. Len(movements') = Len(movements) + 1 /\ Len(movements) \in Nat
  BY DEF TypeOK
<1>2. /\ \A n \in 1..Len(movements) : movements'[n] = movements[n]
      /\ movements'[Len(movements) + 1] = row
  BY DEF TypeOK
<1> QED
  BY <1>1, <1>2 DEF TransfersPaired

\* The two rows of a transfer, appended.
LEMMA PairsWithTransfer ==
  ASSUME TypeOK, TransfersPaired, NEW r \in Requests, TransferCommit(r)
  PROVE  TransfersPaired'
<1> DEFINE q == request[r].quantity
           out == Len(movements) + 1
           m1 == NewMovement(request[r].item, -q, request[r].branch, request[r].target, out + 1)
           m2 == NewMovement(request[r].item, q, request[r].target, request[r].branch, out)
<1>1. q \in Int /\ Len(movements) \in Nat /\ out \in Nat
  BY DEF TypeOK, Request
<1>2. m1.item = m2.item /\ m1.quantity = -m2.quantity /\ m2.quantity = -m1.quantity
      /\ m1.related = out + 1 /\ m2.related = out
  BY <1>1, MovementFields
<1>3. movements' = Append(Append(movements, m1), m2)
  BY DEF TransferCommit
<1> HIDE DEF m1, m2
<1>4. /\ Len(movements') = out + 1
      /\ \A n \in 1..Len(movements) : movements'[n] = movements[n]
      /\ movements'[out] = m1 /\ movements'[out + 1] = m2
  <2>1. movements \in Seq(Movement)
    BY DEF TypeOK
  <2>2. m1 \in Movement /\ m2 \in Movement
    BY <1>1, RequestFields, MovementType DEF TransferCommit, LiveItem, LiveBranch, BranchOrNull, m1, m2
  <2>3. /\ Append(movements, m1) \in Seq(Movement) /\ Len(Append(movements, m1)) = out
        /\ \A n \in 1..Len(movements) : Append(movements, m1)[n] = movements[n]
        /\ Append(movements, m1)[out] = m1
    BY <2>1, <2>2
  <2> QED
    BY <1>1, <1>3, <2>2, <2>3
<1> HIDE DEF out
<1>5. ASSUME NEW n \in 1..Len(movements'), movements'[n].related # 0
      PROVE  LET m == movements'[n].related IN
             /\ m \in 1..Len(movements') /\ m # n
             /\ movements'[m].related = n /\ movements'[m].item = movements'[n].item
             /\ movements'[m].quantity = -movements'[n].quantity
  <2>1. out = Len(movements) + 1
    BY DEF out
  <2>2. CASE n \in 1..Len(movements)
    <3>1. movements'[n] = movements[n]
      BY <1>4, <2>2
    <3>2. LET m == movements[n].related IN
          /\ m \in 1..Len(movements) /\ m # n
          /\ movements[m].related = n /\ movements[m].item = movements[n].item
          /\ movements[m].quantity = -movements[n].quantity
      BY <1>5, <2>2, <3>1 DEF TransfersPaired
    <3>3. movements[n].related \in 1..Len(movements')
      BY <1>1, <1>4, <2>1, <3>2
    <3>4. movements'[movements[n].related] = movements[movements[n].related]
      BY <1>4, <3>2
    <3> QED
      BY <3>1, <3>2, <3>3, <3>4
  <2>3. CASE n = out
    <3>1. movements'[n].related = out + 1 /\ movements'[out + 1] = m2 /\ movements'[n] = m1
      BY <1>2, <1>4, <2>3
    <3>2. out + 1 \in 1..Len(movements') /\ out + 1 # n
      BY <1>1, <1>4, <2>1, <2>3
    <3> QED
      BY <1>2, <2>3, <3>1, <3>2
  <2>4. CASE n = out + 1
    <3>1. movements'[n].related = out /\ movements'[out] = m1 /\ movements'[n] = m2
      BY <1>2, <1>4, <2>4
    <3>2. out \in 1..Len(movements') /\ out # n
      BY <1>1, <1>4, <2>1, <2>4
    <3> QED
      BY <1>2, <2>4, <3>1, <3>2
  <2> QED
    BY <1>1, <1>4, <2>1, <2>2, <2>3, <2>4
<1> QED
  BY <1>5 DEF TransfersPaired

\* A cascade leaves the ids and the quantities, and takes the product of both rows or of none.
LEMMA PairsInCascade ==
  ASSUME TypeOK, TransfersPaired, NEW r \in Requests, DeleteItemCommit(r) \/ DeleteBranchCommit(r)
  PROVE  TransfersPaired'
<1> DEFINE i == request[r].item
<1>1. Len(movements) \in Nat
  BY DEF TypeOK
<1>2. /\ Len(movements') = Len(movements)
      /\ \A n \in 1..Len(movements) :
           movements'[n].related = movements[n].related /\ movements'[n].quantity = movements[n].quantity
      /\ \/ \A n \in 1..Len(movements) :
              movements'[n].item = IF movements[n].item = i THEN NoItem ELSE movements[n].item
         \/ \A n \in 1..Len(movements) : movements'[n].item = movements[n].item
  <2>1. CASE DeleteItemCommit(r)
    <3>1. movements' = [n \in 1..Len(movements) |-> WithoutItem(movements[n], i)]
      BY <2>1 DEF DeleteItemCommit
    <3>2. Len(movements') = Len(movements)
      BY <1>1, <3>1, LenProperties
    <3> QED
      BY <3>1, <3>2, MovementFields DEF WithoutItem
  <2>2. CASE DeleteBranchCommit(r)
    <3>1. movements' = [n \in 1..Len(movements) |-> WithoutBranch(movements[n], request[r].branch)]
      BY <2>2 DEF DeleteBranchCommit
    <3>2. Len(movements') = Len(movements)
      BY <1>1, <3>1, LenProperties
    <3> QED
      BY <3>1, <3>2, MovementFields DEF WithoutBranch
  <2> QED
    BY <2>1, <2>2
<1> HIDE DEF i
<1> QED
  BY <1>1, <1>2 DEF TransfersPaired

\* The pair of rows transferBetweenBranches writes in one transaction stays a pair through any movement,
\* any other transfer and every cascade (stock-movement.service.ts): goods never vanish in transit.
THEOREM TransfersPairedHolds == Spec => []TransfersPaired
<1>1. Init => TransfersPaired
  BY DEF Init, TransfersPaired
<1>2. TypeOK /\ TransfersPaired /\ [Next]_vars => TransfersPaired'
  <2> SUFFICES ASSUME TypeOK, TransfersPaired, [Next]_vars PROVE TransfersPaired'
    OBVIOUS
  <2>1. CASE movements' = movements
    BY <2>1 DEF TransfersPaired
  <2>2. ASSUME NEW r \in Requests, NEW i \in Items, CreateItemCommit(r, i) PROVE TransfersPaired'
    <3> DEFINE row == NewMovement(i, request[r].quantity, NoBranch, NoBranch, 0)
    <3>1. row \in Movement
      BY RequestFields, MovementType DEF BranchOrNull
    <3>2. row.related = 0
      BY MovementFields
    <3> QED
      BY <2>1, <2>2, <3>1, <3>2, PairsWithRow DEF CreateItemCommit
  <2>3. ASSUME NEW r \in Requests, CreateMovementCommit(r) PROVE TransfersPaired'
    <3> DEFINE row == NewMovement(request[r].item, request[r].quantity, request[r].branch, request[r].target, 0)
    <3>1. row \in Movement
      BY <2>3, RequestFields, MovementType DEF CreateMovementCommit, LiveItem
    <3>2. row.related = 0
      BY MovementFields
    <3>3. movements' = Append(movements, row)
      BY <2>3 DEF CreateMovementCommit
    <3> QED
      BY <3>1, <3>2, <3>3, PairsWithRow
  <2>4. ASSUME NEW r \in Requests, TransferCommit(r) \/ DeleteItemCommit(r) \/ DeleteBranchCommit(r)
        PROVE  TransfersPaired'
    BY <2>4, PairsWithTransfer, PairsInCascade
  <2>5. ASSUME NEW r \in Requests, Check(r) PROVE movements' = movements
    BY <2>5, CheckStep DEF rows
  <2>6. ASSUME NEW r \in Requests, UpdateItemCommit(r) \/ Abandon(r) PROVE movements' = movements
    BY <2>6 DEF UpdateItemCommit, Abandon, rows
  <2>7. (\E b \in Branches : CreateBranch(b)) \/ UNCHANGED vars => movements' = movements
    BY DEF CreateBranch, vars, rows
  <2> QED
    BY <2>1, <2>2, <2>3, <2>4, <2>5, <2>6, <2>7 DEF Next, Commit
<1> QED
  BY <1>1, <1>2, TypeCorrect, PTL DEF Spec
-----------------------------------------------------------------------------
(* One handler at a time: nothing commits between a check and its write.   *)

LEMMA IdleOp == Idle.op = "idle"
BY DEF Idle, Operation

\* A check that passes leaves its handler with what it counted, and the others alone.
LEMMA DeletionChecked ==
  ASSUME TypeOK, NEW r \in Requests, Check(r)
  PROVE  DeletionHolds(request'[r]) /\ \A q \in Requests \ {r} : request'[q] = request[q]
<1>1. ASSUME NEW o, Start(r, o)
      PROVE  request'[r] = o /\ \A q \in Requests \ {r} : request'[q] = request[q]
  BY <1>1 DEF Start, TypeOK
<1>2. ASSUME NEW op \in Operations \ {"deleteItem", "deleteBranch"}, NEW i, NEW b, NEW t, NEW q, NEW s,
             Start(r, Operation(op, i, b, t, q, s))
      PROVE  DeletionHolds(request'[r])
  BY <1>1, <1>2 DEF DeletionHolds, Operation
<1>3. ASSUME NEW i \in Items, DeleteItemCheck(r, i) PROVE DeletionHolds(request'[r])
  BY <1>1, <1>3 DEF DeleteItemCheck, DeletionHolds, Operation
<1>4. ASSUME NEW b \in Branches, DeleteBranchCheck(r, b) PROVE DeletionHolds(request'[r])
  BY <1>1, <1>4 DEF DeleteBranchCheck, DeletionHolds, Operation
<1>5. \E o : Start(r, o)
  BY DEF Check, CreateItemCheck, UpdateItemCheck, DeleteItemCheck, DeleteBranchCheck, CreateMovementCheck,
         AdjustStockCheck, TransferCheck
<1>6. DeletionHolds(request'[r])
  <2>1. \/ \E i \in Items : DeleteItemCheck(r, i)
        \/ \E b \in Branches : DeleteBranchCheck(r, b)
        \/ \E op \in {"createItem", "updateItem", "movement", "transfer"} : \E i, b, t, q, s :
             Start(r, Operation(op, i, b, t, q, s))
    BY DEF Check, CreateItemCheck, UpdateItemCheck, CreateMovementCheck, AdjustStockCheck, TransferCheck
  <2>2. {"createItem", "updateItem", "movement", "transfer"} \subseteq Operations \ {"deleteItem", "deleteBranch"}
    BY DEF Operations
  <2> QED
    BY <1>2, <1>3, <1>4, <2>1, <2>2
<1> QED
  BY <1>1, <1>5, <1>6

\* A handler that writes or gives up was the one in flight: all are idle after it.
LEMMA AllIdle ==
  ASSUME TypeOK, OneAtATime, NEW r \in Requests, Commit(r) \/ Abandon(r)
  PROVE  \A q \in Requests : request'[q] = Idle
<1>1. request[r].op # "idle" /\ Finish(r)
  BY DEF Commit, Abandon, CreateItemCommit, UpdateItemCommit, DeleteItemCommit, DeleteBranchCommit,
         CreateMovementCommit, TransferCommit
<1>2. request[r] # Idle
  BY <1>1, IdleOp
<1> QED
  BY <1>1, <1>2 DEF OneAtATime, Finish, TypeOK

LEMMA AloneStep ==
  ASSUME TypeOK, AloneInv, [AloneNext]_<<vars, alone>>
  PROVE  AloneInv'
<1> SUFFICES ASSUME alone'
             PROVE  OneAtATime' /\ \A q \in Requests : DeletionHolds(request[q])'
  BY DEF AloneInv
<1>1. alone /\ OneAtATime /\ \A q \in Requests : DeletionHolds(request[q])
  BY DEF AloneInv, AloneNext
<1>2. OneAtATime'
  BY <1>1 DEF AloneNext, OneAtATime, vars
<1>3. CASE UNCHANGED <<request, movements, balance>>
  BY <1>1, <1>2, <1>3 DEF DeletionHolds, MovementsOfItem, MovementsAtBranch
<1>4. ASSUME NEW r \in Requests, Check(r)
      PROVE  \A q \in Requests : DeletionHolds(request[q])'
  <2>1. \A q \in Requests : DeletionHolds(request'[q])
    BY <1>1, <1>4, DeletionChecked
  <2>2. UNCHANGED <<movements, balance>>
    BY <1>4, CheckStep DEF rows
  <2> QED
    BY <2>1, <2>2 DEF DeletionHolds, MovementsOfItem, MovementsAtBranch
<1>5. ASSUME NEW r \in Requests, Commit(r) \/ Abandon(r)
      PROVE  \A q \in Requests : DeletionHolds(request[q])'
  BY <1>1, <1>5, AllIdle, IdleOp DEF DeletionHolds
<1>6. (\E b \in Branches : CreateBranch(b)) \/ UNCHANGED <<vars, alone>>
        => UNCHANGED <<request, movements, balance>>
  BY DEF CreateBranch, vars, rows
<1> QED
  BY <1>2, <1>3, <1>4, <1>5, <1>6 DEF AloneNext, Next

\* With one handler at a time no more than one is between its check and its write, and what
\* it counted is still so.
THEOREM AloneInvariant == AloneSpec => [](TypeOK /\ AloneInv)
<1>1. AloneInit => TypeOK /\ AloneInv
  <2>1. Init => \A r \in Requests : request[r] = Idle
    BY DEF Init
  <2> QED
    BY <2>1, InitTypeOK, IdleOp DEF AloneInit, AloneInv, OneAtATime, DeletionHolds
<1>2. TypeOK /\ AloneInv /\ [AloneNext]_<<vars, alone>> => (TypeOK /\ AloneInv)'
  <2>1. [AloneNext]_<<vars, alone>> => [Next]_vars
    BY DEF AloneNext
  <2> QED
    BY <2>1, TypeOKStep, AloneStep
<1> QED
  BY <1>1, <1>2, PTL DEF AloneSpec

\* A cascade leaves a row that names neither the product nor the branch.
LEMMA CascadeMisses ==
  ASSUME NEW m \in Movement
  PROVE  /\ \A i : m.item # i => WithoutItem(m, i) = m
         /\ \A b : m.branch # b /\ m.target # b => WithoutBranch(m, b) = m
BY DEF WithoutItem, WithoutBranch, NewMovement, Movement

\* A write to the ledger adds rows, and a cascade whose check still holds touches none.
LEMMA RowsKept ==
  ASSUME TypeOK, [Next]_vars, \A r \in Requests : DeletionHolds(request[r]), NEW n \in 1..Len(movements)
  PROVE  n <= Len(movements') /\ movements'[n] = movements[n]
<1>1. movements \in Seq(Movement) /\ Len(movements) \in Nat /\ movements[n] \in Movement
  BY DEF TypeOK
<1>2. CASE movements' = movements
  BY <1>1, <1>2
<1>3. ASSUME NEW row \in Movement, movements' = Append(movements, row)
      PROVE  n <= Len(movements') /\ movements'[n] = movements[n]
  BY <1>1, <1>3
<1>4. ASSUME NEW r \in Requests, NEW i \in Items, CreateItemCommit(r, i)
      PROVE  n <= Len(movements') /\ movements'[n] = movements[n]
  <2>1. NewMovement(i, request[r].quantity, NoBranch, NoBranch, 0) \in Movement
    BY RequestFields, MovementType DEF BranchOrNull
  <2> QED
    BY <1>2, <1>3, <1>4, <2>1 DEF CreateItemCommit
<1>5. ASSUME NEW r \in Requests, CreateMovementCommit(r)
      PROVE  n <= Len(movements') /\ movements'[n] = movements[n]
  <2>1. NewMovement(request[r].item, request[r].quantity, request[r].branch, request[r].target, 0) \in Movement
    BY <1>5, RequestFields, MovementType DEF CreateMovementCommit, LiveItem
  <2> QED
    BY <1>3, <1>5, <2>1 DEF CreateMovementCommit
<1>6. ASSUME NEW r \in Requests, TransferCommit(r)
      PROVE  n <= Len(movements') /\ movements'[n] = movements[n]
  <2> DEFINE out == Len(movements) + 1
             m1 == NewMovement(request[r].item, -request[r].quantity, request[r].branch, request[r].target, out + 1)
             m2 == NewMovement(request[r].item, request[r].quantity, request[r].target, request[r].branch, out)
  <2>1. m1 \in Movement /\ m2 \in Movement
    BY <1>1, <1>6, RequestFields, MovementType DEF TransferCommit, LiveItem
  <2>2. movements' = Append(Append(movements, m1), m2)
    BY <1>6 DEF TransferCommit
  <2> HIDE DEF m1, m2
  <2> QED
    BY <1>1, <2>1, <2>2
<1>7. ASSUME NEW r \in Requests, DeleteItemCommit(r)
      PROVE  n <= Len(movements') /\ movements'[n] = movements[n]
  <2>1. movements' = [k \in 1..Len(movements) |-> WithoutItem(movements[k], request[r].item)]
    BY <1>7 DEF DeleteItemCommit
  <2>2. movements[n].item # request[r].item
    BY <1>7 DEF DeleteItemCommit, DeletionHolds, MovementsOfItem
  <2>3. Len(movements') = Len(movements)
    BY <1>1, <2>1, LenProperties
  <2> QED
    BY <1>1, <2>1, <2>2, <2>3, CascadeMisses
<1>8. ASSUME NEW r \in Requests, DeleteBranchCommit(r)
      PROVE  n <= Len(movements') /\ movements'[n] = movements[n]
  <2>1. movements' = [k \in 1..Len(movements) |-> WithoutBranch(movements[k], request[r].branch)]
    BY <1>8 DEF DeleteBranchCommit
  <2>2. movements[n].branch # request[r].branch /\ movements[n].target # request[r].branch
    BY <1>8 DEF DeleteBranchCommit, DeletionHolds, MovementsAtBranch
  <2>3. Len(movements') = Len(movements)
    BY <1>1, <2>1, LenProperties
  <2> QED
    BY <1>1, <2>1, <2>2, <2>3, CascadeMisses
<1>9. ASSUME NEW r \in Requests, Check(r) \/ UpdateItemCommit(r) \/ Abandon(r) PROVE movements' = movements
  BY <1>9, CheckStep DEF UpdateItemCommit, Abandon, rows
<1>10. (\E b \in Branches : CreateBranch(b)) \/ UNCHANGED vars => movements' = movements
  BY DEF CreateBranch, vars, rows
<1> QED
  BY <1>2, <1>4, <1>5, <1>6, <1>7, <1>8, <1>9, <1>10 DEF Next, Commit

\* With one handler at a time the ledger is append-only: no cascade of deleteItem or deleteBranch
\* ever reaches a row of it.
THEOREM MovementsImmutableHolds == AloneSpec => MovementsImmutable
<1>1. TypeOK /\ AloneInv /\ [AloneNext]_<<vars, alone>> =>
        [alone => \A n \in 1..Len(movements) :
           n <= Len(movements') /\ movements'[n] = movements[n]]_<<vars, alone>>
  BY RowsKept DEF AloneInv, AloneNext
<1> QED
  BY <1>1, AloneInvariant, PTL DEF AloneSpec, MovementsImmutable

\* With one handler at a time deleteBranch takes no stock along: what it counted before its
\* transaction is still so in it.
THEOREM BranchesDeletedEmptyHolds == AloneSpec => BranchesDeletedEmpty
<1>1. ASSUME TypeOK, AloneInv, [AloneNext]_<<vars, alone>>, alone, NEW b \in Branches,
             branchStatus[b] = "live", branchStatus'[b] = "deleted", NEW i \in Items
      PROVE  balance[<<i, b>>] <= 0
  <2>1. PICK r \in Requests : DeleteBranchCommit(r)
    <3>1. ~UNCHANGED branchStatus
      BY <1>1
    <3>2. \A c \in Branches : ~CreateBranch(c)
      BY <1>1 DEF CreateBranch, TypeOK
    <3>3. \A r \in Requests : ~Check(r)
      BY <1>1, <3>1, CheckStep DEF rows
    <3> QED
      BY <1>1, <3>1, <3>2, <3>3 DEF AloneNext, Next, Commit, Abandon, vars, rows, CreateItemCommit,
         UpdateItemCommit, DeleteItemCommit, CreateMovementCommit, TransferCommit
  <2>2. request[r].branch = b
    BY <1>1, <2>1 DEF DeleteBranchCommit, TypeOK
  <2> QED
    BY <1>1, <2>1, <2>2 DEF AloneInv, DeletionHolds, DeleteBranchCommit
<1>2. TypeOK /\ AloneInv /\ [AloneNext]_<<vars, alone>> =>
        [alone => \A b \in Branches : branchStatus[b] = "live" /\ branchStatus'[b] = "deleted" =>
           \A i \in Items : balance[<<i, b>>] <= 0]_<<vars, alone>>
  BY <1>1
<1> QED
  BY <1>2, AloneInvariant, PTL DEF AloneSpec, BranchesDeletedEmpty
-----------------------------------------------------------------------------
(* The cached reads in front of the database (CacheAside).                 *)

LEMMA CacheConstructors ==
  ASSUME NEW seen \in Seen, NEW overtaken \in BOOLEAN
  PROVE  /\ \A phase \in {"idle", "reading", "invalidating"} :
              /\ At(phase, seen, overtaken) \in HandlerRow
              /\ At(phase, seen, overtaken).phase = phase
              /\ At(phase, seen, overtaken).seen = seen
              /\ At(phase, seen, overtaken).overtaken = overtaken
         /\ \A left \in 0..Ttl :
              /\ EntryOf(seen, left, overtaken) \in Entry
              /\ EntryOf(seen, left, overtaken).seen = seen
              /\ EntryOf(seen, left, overtaken).left = left
              /\ EntryOf(seen, left, overtaken).overtaken = overtaken
BY DEF At, HandlerRow, EntryOf, Entry

LEMMA CacheEmpty ==
  /\ NothingSeen \in Seen
  /\ AtRest \in HandlerRow /\ AtRest.phase = "idle"
  /\ NoEntry \in Entry /\ NoEntry.left = 0
<1>1. NothingSeen \in Seen
  BY CacheAsideAssumption DEF NothingSeen, Seen, Unread
<1>2. 0 \in 0..Ttl /\ FALSE \in BOOLEAN /\ "idle" \in {"idle", "reading", "invalidating"}
  BY CacheAsideAssumption
<1>3. AtRest \in HandlerRow /\ AtRest.phase = "idle"
  BY <1>1, <1>2, CacheConstructors DEF AtRest
<1>4. NoEntry \in Entry /\ NoEntry.left = 0
  BY <1>1, <1>2 DEF NoEntry, EntryOf, Entry
<1> QED
  BY <1>1, <1>3, <1>4

LEMMA CacheStarts == CacheInit => CacheInv
<1> SUFFICES ASSUME CacheInit PROVE CacheInv
  OBVIOUS
<1>1. CacheTypeOK
  BY CacheEmpty, CacheAsideAssumption DEF CacheInit, CacheTypeOK
<1>2. ReadersInv
  BY CacheEmpty DEF CacheInit, ReadersInv
<1>3. StaleOnlyWhenOvertaken
  BY CacheEmpty DEF CacheInit, StaleOnlyWhenOvertaken, Stale
<1> QED
  BY <1>1, <1>2, <1>3 DEF CacheInv

\* A handler that moves while nothing is committed or written under the key.
LEMMA CacheMove ==
  ASSUME CacheInv, NEW r \in Handlers, NEW next \in HandlerRow,
         handler' = [handler EXCEPT ![r] = next], UNCHANGED <<redis, version, entry>>,
         next.phase = "reading" /\ ~next.overtaken => \A q \in Queries : next.seen[q] \in {Unread, version},
         redis \/ handler[r].phase # "invalidating"
  PROVE  CacheInv'
<1>1. /\ handler \in [Handlers -> HandlerRow] /\ handler' \in [Handlers -> HandlerRow]
      /\ handler'[r] = next /\ \A p \in Handlers : p # r => handler'[p] = handler[p]
  BY DEF CacheInv, CacheTypeOK
<1>2. CacheTypeOK'
  BY <1>1 DEF CacheInv, CacheTypeOK
<1>3. ReadersInv'
  BY <1>1 DEF CacheInv, ReadersInv
<1>4. StaleOnlyWhenOvertaken'
  <2>1. redis \/ (NoWriter' => NoWriter)
    BY <1>1 DEF NoWriter
  <2>2. Stale' = Stale
    BY DEF Stale
  <2> QED
    BY <2>1, <2>2 DEF CacheInv, StaleOnlyWhenOvertaken
<1> QED
  BY <1>2, <1>3, <1>4 DEF CacheInv

LEMMA CacheMiss ==
  ASSUME CacheInv, NEW r \in Handlers, Miss(r)
  PROVE  CacheInv'
<1> DEFINE next == At("reading", NothingSeen, FALSE)
<1>1. next \in HandlerRow /\ next.seen = NothingSeen
  BY CacheEmpty, CacheConstructors
<1>2. \A q \in Queries : next.seen[q] = Unread
  BY <1>1 DEF NothingSeen
<1>3. /\ handler' = [handler EXCEPT ![r] = next] /\ UNCHANGED <<redis, version, entry>>
      /\ handler[r].phase # "invalidating"
  BY CacheEmpty DEF Miss
<1> HIDE DEF next
<1> QED
  BY <1>1, <1>2, <1>3, CacheMove

LEMMA CacheQuery ==
  ASSUME CacheInv, NEW r \in Handlers, NEW q \in Queries, Query(r, q)
  PROVE  CacheInv'
<1> DEFINE next == [handler[r] EXCEPT !.seen = [handler[r].seen EXCEPT ![q] = version]]
<1>1. handler[r] \in HandlerRow /\ version \in 0..MaxVersion
  BY DEF CacheInv, CacheTypeOK
<1>2. [handler[r].seen EXCEPT ![q] = version] \in Seen
  BY <1>1, CacheAsideAssumption DEF HandlerRow, Seen, Unread
<1>3. /\ next \in HandlerRow /\ next.phase = "reading" /\ next.overtaken = handler[r].overtaken
      /\ next.seen = [handler[r].seen EXCEPT ![q] = version]
  BY <1>1, <1>2 DEF Query, HandlerRow
<1>4. ~handler[r].overtaken => \A p \in Queries : next.seen[p] \in {Unread, version}
  BY <1>1, <1>3 DEF Query, CacheInv, ReadersInv, HandlerRow, Seen
<1>5. handler' = [handler EXCEPT ![r] = next]
  BY <1>1 DEF Query, CacheInv, CacheTypeOK, HandlerRow
<1>6. UNCHANGED <<redis, version, entry>> /\ handler[r].phase # "invalidating"
  BY DEF Query
<1> HIDE DEF next
<1> QED
  BY <1>3, <1>4, <1>5, <1>6, CacheMove

\* A handler that ends and leaves an entry behind.
LEMMA CacheWrite ==
  ASSUME CacheInv, NEW r \in Handlers,
         handler' = [handler EXCEPT ![r] = AtRest], UNCHANGED <<redis, version>>,
         entry' \in Entry,
         \/ entry'.left = 0 \/ entry'.overtaken \/ \A q \in Queries : entry'.seen[q] = version
  PROVE  CacheInv'
<1>1. /\ handler' \in [Handlers -> HandlerRow]
      /\ handler'[r] = AtRest /\ \A p \in Handlers : p # r => handler'[p] = handler[p]
  BY CacheEmpty DEF CacheInv, CacheTypeOK
<1>2. CacheTypeOK'
  BY <1>1 DEF CacheInv, CacheTypeOK
<1>3. ReadersInv'
  BY <1>1, CacheEmpty DEF CacheInv, ReadersInv
<1>4. StaleOnlyWhenOvertaken'
  BY DEF StaleOnlyWhenOvertaken, Stale, Entry
<1> QED
  BY <1>2, <1>3, <1>4 DEF CacheInv

LEMMA CacheFill ==
  ASSUME CacheInv, NEW r \in Handlers, Fill(r)
  PROVE  CacheInv'
<1>1. /\ handler[r] \in HandlerRow /\ handler[r].phase = "reading"
      /\ \A q \in Queries : handler[r].seen[q] # Unread
  BY DEF Fill, HasRead, CacheInv, CacheTypeOK
<1>2. /\ handler[r].seen \in Seen /\ handler[r].overtaken \in BOOLEAN /\ Ttl \in 0..Ttl
  BY <1>1, CacheAsideAssumption DEF HandlerRow
<1>3. /\ entry' = EntryOf(handler[r].seen, Ttl, handler[r].overtaken)
      /\ handler' = [handler EXCEPT ![r] = AtRest] /\ UNCHANGED <<redis, version>>
  BY DEF Fill
<1>4. entry' \in Entry /\ entry'.seen = handler[r].seen /\ entry'.overtaken = handler[r].overtaken
  BY <1>2, <1>3, CacheConstructors
<1>5. ~handler[r].overtaken => \A q \in Queries : handler[r].seen[q] = version
  BY <1>1 DEF CacheInv, ReadersInv
<1> QED
  BY <1>3, <1>4, <1>5, CacheWrite

LEMMA CacheInvalidate ==
  ASSUME CacheInv, NEW r \in Handlers, Invalidate(r)
  PROVE  CacheInv'
BY CacheEmpty, CacheWrite DEF Invalidate

LEMMA CacheError ==
  ASSUME CacheInv, NEW r \in Handlers, RedisError(r)
  PROVE  CacheInv'
BY CacheEmpty, CacheMove DEF RedisError

\* A commit overtakes every reader, and leaves a handler that is to delete the key.
LEMMA CacheCommitted ==
  ASSUME CacheInv, NEW r \in Handlers, CommitVersion(r)
  PROVE  CacheInv'
<1>1. /\ version < MaxVersion /\ version' = version + 1 /\ UNCHANGED <<redis, entry>>
      /\ handler' = [p \in Handlers |->
                     IF p = r THEN At("invalidating", NothingSeen, FALSE)
                     ELSE Overtake(handler[p])]
  BY DEF CommitVersion
<1>2. /\ At("invalidating", NothingSeen, FALSE) \in HandlerRow
      /\ At("invalidating", NothingSeen, FALSE).phase = "invalidating"
  BY CacheEmpty, CacheConstructors
<1>3. ASSUME NEW o \in HandlerRow
      PROVE  /\ Overtake(o) \in HandlerRow
             /\ Overtake(o).phase = "reading" => Overtake(o).overtaken
  <2>1. o.seen \in Seen
    BY DEF HandlerRow
  <2>2. CASE o.phase = "reading"
    <3>1. Overtake(o) = At("reading", o.seen, TRUE)
      BY <2>2 DEF Overtake
    <3> QED
      BY <2>1, <3>1 DEF At, HandlerRow
  <2>3. CASE o.phase # "reading"
    BY <2>3 DEF Overtake
  <2> QED
    BY <2>2, <2>3
<1>4. /\ handler' \in [Handlers -> HandlerRow] /\ handler'[r].phase = "invalidating"
      /\ \A p \in Handlers : handler'[p].phase = "reading" => handler'[p].overtaken
  BY <1>1, <1>2, <1>3 DEF CacheInv, CacheTypeOK
<1>5. CacheTypeOK'
  <2>1. version' \in 0..MaxVersion
    BY <1>1, CacheAsideAssumption DEF CacheInv, CacheTypeOK
  <2> QED
    BY <1>1, <1>4, <2>1 DEF CacheInv, CacheTypeOK
<1>6. ReadersInv'
  BY <1>4 DEF ReadersInv
<1>7. StaleOnlyWhenOvertaken'
  BY <1>4 DEF StaleOnlyWhenOvertaken, NoWriter
<1> QED
  BY <1>5, <1>6, <1>7 DEF CacheInv

LEMMA CacheRestart ==
  ASSUME CacheInv, Restart
  PROVE  CacheInv'
<1>1. /\ handler' \in [Handlers -> HandlerRow] /\ UNCHANGED <<redis, version>>
      /\ \A p \in Handlers : handler'[p].phase = "idle"
      /\ entry' = IF redis THEN entry ELSE NoEntry
  BY CacheEmpty DEF Restart
<1>2. CacheTypeOK'
  BY <1>1, CacheEmpty DEF CacheInv, CacheTypeOK
<1>3. ReadersInv'
  BY <1>1 DEF ReadersInv
<1>4. StaleOnlyWhenOvertaken'
  BY <1>1, CacheEmpty DEF StaleOnlyWhenOvertaken, Stale
<1> QED
  BY <1>2, <1>3, <1>4 DEF CacheInv

LEMMA CacheAge ==
  ASSUME CacheInv, Age
  PROVE  CacheInv'
<1>1. entry.left > 0 /\ UNCHANGED <<redis, version, handler>> /\ entry \in Entry
  BY DEF Age, CacheInv, CacheTypeOK
<1>2. /\ entry' \in Entry
      /\ entry'.left = 0 \/ (entry'.seen = entry.seen /\ entry'.overtaken = entry.overtaken)
  <2>1. CASE entry.left = 1
    BY <2>1, CacheEmpty DEF Age
  <2>2. CASE entry.left # 1
    <3>1. entry' = [entry EXCEPT !.left = entry.left - 1]
      BY <2>2 DEF Age
    <3>2. entry.left - 1 \in 0..Ttl
      BY <1>1, CacheAsideAssumption DEF Entry
    <3> QED
      BY <1>1, <3>1, <3>2 DEF Entry
  <2> QED
    BY <2>1, <2>2
<1>3. CacheTypeOK'
  BY <1>1, <1>2 DEF CacheInv, CacheTypeOK
<1>4. ReadersInv'
  BY <1>1 DEF CacheInv, ReadersInv
<1>5. StaleOnlyWhenOvertaken'
  <2>1. Stale' => Stale /\ entry'.overtaken = entry.overtaken
    BY <1>1, <1>2 DEF Stale
  <2>2. NoWriter' = NoWriter
    BY <1>1 DEF NoWriter
  <2> QED
    BY <1>1, <2>1, <2>2 DEF CacheInv, StaleOnlyWhenOvertaken
<1> QED
  BY <1>3, <1>4, <1>5 DEF CacheInv

LEMMA CacheStep ==
  ASSUME CacheInv, [CacheNext]_cacheVars
  PROVE  CacheInv'
<1>1. CASE UNCHANGED cacheVars
  BY <1>1 DEF cacheVars, CacheInv, CacheTypeOK, ReadersInv, StaleOnlyWhenOvertaken,
     Stale, NoWriter
<1>2. CASE CacheNext
  BY <1>2, CacheMiss, CacheQuery, CacheFill, CacheInvalidate, CacheError, CacheCommitted, CacheRestart,
     CacheAge DEF CacheNext, Advance
<1> QED
  BY <1>1, <1>2

\* What a cached list or summary, its readers and its writers hold, for any queries, time to live
\* and number of handlers.
THEOREM CacheInvariant == CacheSpec => []CacheInv
<1>1. CacheInit => CacheInv
  BY CacheStarts
<1>2. CacheInv /\ [CacheNext]_cacheVars => CacheInv'
  BY CacheStep
<1> QED
  BY <1>1, <1>2, PTL DEF CacheSpec

\* The rows of the cache have their types.
THEOREM CacheTypesHold == CacheSpec => []CacheTypeOK
<1>1. CacheInv => CacheTypeOK
  BY DEF CacheInv
<1> QED
  BY <1>1, CacheInvariant, PTL

\* In the memory of one process a list or a summary is stale only between a commit and its own
\* deletion, or after a reader that a commit overtook.
THEOREM StaleOnlyWhenOvertakenHolds == CacheSpec => []StaleOnlyWhenOvertaken
<1>1. CacheInv => StaleOnlyWhenOvertaken
  BY DEF CacheInv
<1> QED
  BY <1>1, CacheInvariant, PTL
=============================================================================
