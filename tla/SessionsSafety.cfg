SPECIFICATION SessionsSpec
CONSTANTS
  b1 = b1
  Users = {u1}
  Browsers = {b1}
  Tabs = {t1, t2}
  Home <- OneHome
  None = None
  FamilyTTL = 4
  RefreshTTL = 3
  ConflictWindow = 2
  Patience = 1
  MaxClock = 4
  MaxFamilies = 2
  MaxTokens = 3
  MaxPasswords = 1
SYMMETRY SessionsSymmetry
INVARIANTS
  OneLiveToken
  TokensWithinFamilies
  CookieIsCurrent
  TabsStaySignedIn
PROPERTY LifeSpec
