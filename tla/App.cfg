SPECIFICATION FairAppSpec
CONSTANTS
  c1 = c1 u1 = u1 x1 = x1 x2 = x2 k1 = k1 n1 = n1 main = main bad = bad
  NoTitle = NoTitle NoURL = NoURL NoUser = NoUser NoCode = NoCode Nobody = Nobody
  NoError = NoError ErrInvalidURL = bad Main = main TitlesEnabled = TRUE
  PageTitles = {"t"} Users = {u1} URLs = {x1, x2} Codes = {k1, "healthz"} Healthz = "healthz"
  RawURLs <- MCRawURLs ValidateURL <- MCValidateURL
  Callers = {c1} Waiters = {main} MaxTitleFetches = 1 MaxCodeAttempts = 1
  Connections = {n1}
INVARIANTS AppTypeOK IssuedRedirects RequestsBeforeClose CleanExitAfterSignal
PROPERTIES ImplementsShortener StopsTogether
