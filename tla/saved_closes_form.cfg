SPECIFICATION Spec
CONSTANTS
  MaxSent <- NotificationSent
  Row = {1, 2}
  Filter = {"all", "last"}
  Matches <- MatchesOf
  Size = {1, 2}
  None = None
  TestType = {"ty1"}
  ColumnOf <- ColumnsOfTables
  Test = {x, y, z}
  Key <- KeyOf
  Locked = {z}
  CopySuite = {"here", "there"}
  Target <- Targets
  Absent = Absent
  DefaultPort <- DefaultPorts
  Host = {"h1"}
  MaxEdits = 3
  Nil = Nil
  Run = {1, 2}
  PerPage = 1
  HourStep = {1, 7, 12}
  StartHour = {0, 1, 20}
  DayStep = {1, 2, 15}
  StartDay = {1, 2, 20}
  AtHour = {0, 9}
  Weekday = {0, 1, 2, 6}
  Typed <- TypedExpressions
  MaxPicks = 3
  NoCron = NoCron
  Arg = {a1}
  Zone = {home, away}
  HomeZone = home
  Pickable <- PickedExpressions
  Invalid <- Refused
  MaxRows = 1
  Unset = Unset
  Name = {"n1"}
  Scope = {"s1", "s2"}
  Extra <- ExtraOf
  Works = {"s1"}
  Group = {g1, g2}
  NoGroup = NoGroup
  Table = {t1}
  Column = {c1, c2}
  TableOf <- TablesOfColumns
  Late = {c2}
  MaxSaves = 1
  NoItem = NoItem
  Suite = {k1, k2}
  Setting = {"v1", "v2"}
  BlankSetting = "v1"
  GenerationSet = {gs1, gs2}
  StandardSet = gs1
  NoSuite = NoSuite
  Notification = {"n1", "n2"}
  Recipient = {"r1"}
  Rule = {"u1"}
  FirstRule = "u1"
  NoNotification = NoNotification
  Field = {"f1"}
  Value = {"v1", "v2"}
  Picks <- PickLists
  Card <- ScoreCards
  CardName = {"n1", "n2"}
  MaxChanges = 4
  Nothing = Nothing
  Watched = {w1, w2}
  Config = {"v1", "v2"}
  DefaultConfig = "v1"
  Panel = {"tables"}
  MaxSuites = 2
  Unmade = Unmade
  Cataloged = {g1, g2}
  Unprofiled = {g2}
  Detail = {"history"}
  MaxUploads = 2
  NoBox = NoBox
  t1 = t1
  t2 = t2
  c1 = c1
  c2 = c2
  x = x
  y = y
  z = z
  g1 = g1
  g2 = g2
  w1 = w1
  w2 = w2
  k1 = k1
  k2 = k2
  a1 = a1
  home = home
  away = away
  gs1 = gs1
  gs2 = gs2
PROPERTY SavedCloses
CHECK_DEADLOCK FALSE
