SPECIFICATION MCSpec
CONSTANTS
  Requests = {r1, r2, r3}
  NoRow = NoRow
  None = None
  Users = {u1, u2, u3, u4}
  Staff <- StaffAtFirst
  ResetLinks = {l1, l2}
  Unproven = {u3}
  WithEmail = {u3}
  AccountForms <- OfAccounts
  MaxResets = 1
  Purposes = {"login", "register"}
  MaxAttempts = 1
  MaxCodes = 1
  TimeToLive = 1
  CodeWindow = 2
  LastCode = 2
  Callers = {r1, r2}
  Clients = {u1, u2}
  Prefixes <- MadeUp
  Proxies <- OnTheWay
  TrustedHops = 2
  MaxRequests = 1
  WindowSeconds = 2
  SweepEvery = 2
  Calls = 2
  Period = 2
  LastCall = 3
  LastTime = 3
  Workers = {wk}
  Names = {u1, u2}
  PageIds = {1, 2, 3, 4}
  Days = {1, 2, 3}
  Today = 2
  Lead = 1
  Calendar <- FestivalCalendar
  Agendas <- EditedAgendas
  Actors = {u1}
  Threshold = 2
  AlertWindow = 1
  Recipients = {u2}
  LastHour = 2
  Tickets = {tk}
  WithPhoto = {tk}
  ShowsName = {tk}
  Settled = {tk}
  SevaDay = 1
  VisibleDays = 1
  LastDate = 2
  MaxUploads = 2
  Messages = {m1, m2}
  Unanswered = {m1}
  Notes = {n1}
  Updates <- Replies
  Members = {h1}
  Logins = {u1, u2}
  MaxImages = 2
  Seal = x
  Databases <- FirstFound
  Releases = {3, 14, 17, 30}
  MaxCrashes = 1
  MaxOperations = 2
  r1 = r1
  r2 = r2
  r3 = r3
  u1 = u1
  u2 = u2
  u3 = u3
  u4 = u4
  p1 = p1
  p2 = p2
  x = x
  k1 = k1
  k2 = k2
  n1 = n1
SYMMETRY Symmetry
INVARIANT SignsWithOwnSignature
CHECK_DEADLOCK FALSE
