SPECIFICATION Spec
CONSTANTS
  ghee = ghee
  lamp = lamp
  other = other
  nGhee = nGhee
  nLamp = nLamp
  Requests = {r1, r2, r3, r4}
  Items = {ghee, lamp, other}
  Names = {nGhee, nLamp}
  Forms <- MCForms
  Stocked <- MCStocked
  YearLength = 365
  MaxTries = 3
  NoItem = NoItem
  NoForm = NoForm
SYMMETRY Symmetry
INVARIANTS TypeOK StockIsLastBalance HistoryAddsUp ReceiptWithinReach AnsweredOnce
CHECK_DEADLOCK FALSE
