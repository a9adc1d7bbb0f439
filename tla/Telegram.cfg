\* One telephone whose link moves between Ana and Ben: what a chat of two people does, too.
\* The amounts and the ids run out, so the system may stop.
SPECIFICATION Spec
CONSTANTS
  ana = ana
  ben = ben
  salary = salary
  gift = gift
  coffee = coffee
  NoAccount = NoAccount
  NoAmount = NoAmount
  Senders = {s1}
  Accounts = {ana, ben}
  Entries = {salary, gift, coffee}
  KindOf <- Kind
  OwnerOf <- Owner
  VisibleTo <- Visible
  Stored = {salary, gift}
  Amounts = {a1}
  Requests = {r1, r2}
SYMMETRY Symmetry
INVARIANTS AmountAppliedOnce IInv
PROPERTIES OwnEntriesOnly ExpensesDeletedConfirmed
CHECK_DEADLOCK FALSE
