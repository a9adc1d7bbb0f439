---------------------------- MODULE MC_Inventory ----------------------------
(* Two instances of Inventory in one run: one handler at a time with larger *)
(* requests, and two handlers in flight with requests of one unit.          *)
EXTENDS InventoryAlone, TLC

\* The handlers in flight of each instance, the rows of its ledger, and the movements that are
\* sent a target: the first one of the ledger, or none.
Scenario ==
  /\ alone => /\ request[2] = Idle /\ Len(movements) <= 3
              /\ request[1].op = "movement" /\ request[1].target # NoBranch => movements = <<>>
  /\ ~alone => \A r \in Requests :
       /\ request[r].quantity \in -1..1
       /\ request[r].op # "transfer" => request[r].target = NoBranch

MCNext == AloneNext /\ Scenario'
MCSpec == AloneInit /\ [][MCNext]_<<vars, alone>>

\* No definition tells one branch, product or SKU from another.
Symmetry == Permutations(Branches) \cup Permutations(Items) \cup Permutations(Skus)
=============================================================================
