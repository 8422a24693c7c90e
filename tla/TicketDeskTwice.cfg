SPECIFICATION Spec
CONSTANTS
  issue1 = issue1
  issue2 = issue2
  clerk1 = clerk1
  clerk2 = clerk2
  t1 = t1
  t2 = t2
  Requests = {issue1, issue2, clerk1, clerk2}
  Tickets = {t1, t2}
  Asks <- MCAsks
  For <- MCFor
  SevaDay <- MCSevaDay
  Greetable = {t1, t2}
  Window = 2
  LastDay = 2
  CronDays = {1, 2}
  NoTicket = NoTicket
  NoRow = NoRow
  NoEntry = NoEntry
CHECK_DEADLOCK FALSE
INVARIANT CollectedOnce
