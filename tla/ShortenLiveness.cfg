SPECIFICATION FairSpec
CONSTANTS
  c1 = c1 c2 = c2 u1 = u1 u2 = u2 x1 = x1 x2 = x2 k1 = k1 k2 = k2 k3 = k3
  main = main other = other bad = bad
  NoTitle = NoTitle NoURL = NoURL NoUser = NoUser NoCode = NoCode Nobody = Nobody
  ErrInvalidURL = bad Main = main TitlesEnabled = TRUE PageTitles = {"t"}
  Users = {u1} URLs = {x1, x2} Codes = {k1, k2}
  RawURLs <- MCRawURLs ValidateURL <- MCValidateURL
  Callers = {c1, c2} Waiters = {main}
  MaxTitleFetches = 1 MaxCodeAttempts = 1
PROPERTIES CallsReturn FetchesEnd ShutdownCompletes
