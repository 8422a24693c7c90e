SPECIFICATION MCSpec
CONSTANTS
  Amounts = {1, 2}
  NoRow = NoRow
  Clerks = {k1, k2, k3}
  Users = {adm, other, staff}
  Approvers = {adm, other}
  ExpenseIds = {e1}
  Nobody = Nobody
  Donors = {d1, d2, d3}
  Gifts = {g1, g2, g3}
  g1 = g1
  cash = cash
  upi = upi
  Modes = {cash, upi}
  GiftForms <- AskedOfGifts
  Recorded <- RecordedGifts
  MaxTries = 2
  LastNumber = 3
  EntryIds = {1, 2, 3}
  Days = {1, 2, 3}
  Times = {0, 1}
  Categories = {"POOJA", "SALARY"}
  AmountOf <- EnteredAmounts
  BudgetOf <- Budgets
  MonthLength = 2
SYMMETRY Symmetry
INVARIANTS TypeOK CountedWasAccepted LedgerInSync ReceiptStands PagesMakeTheLedger BooksAgree
PROPERTIES DecisionsStand
CHECK_DEADLOCK FALSE
